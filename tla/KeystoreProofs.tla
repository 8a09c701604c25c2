-------------------------- MODULE KeystoreProofs ---------------------------
(***************************************************************************)
(* Proofs about Keystore, for any number of keys and readers: the type     *)
(* invariant for any writers, and for one writer at a time (rotation is    *)
(* documented to be last-writer-wins when two run at once) the retention   *)
(* of two generations.                                                     *)
(***************************************************************************)
EXTENDS Keystore, WellFoundedInduction, TLAPS

SingleWriter == \A v, w \in Writers : v = w

-----------------------------------------------------------------------------
(* Lists of keys *)

(* Dropping a key from a list without repetitions leaves such a list, shifted *)
(* down from the place of the key.                                            *)
LEMMA WithoutProperties ==
    ASSUME NEW s \in Seq(Keys), NoRepeats(s), NEW k
    PROVE  LET t == Without(s, k) IN
           /\ t \in Seq(Keys)
           /\ k \notin RangeOf(s) => t = s
           /\ \A j \in 1 .. Len(s) : s[j] = k =>
                 /\ Len(t) = Len(s) - 1
                 /\ \A i \in 1 .. Len(t) : t[i] = IF i < j THEN s[i] ELSE s[i + 1]
<1>1. CASE k \notin RangeOf(s)
  BY <1>1 DEF Without, RangeOf
<1>2. CASE k \in RangeOf(s)
  <2> DEFINE j == CHOOSE j \in DOMAIN s : s[j] = k
             a == SubSeq(s, 1, j - 1)
             b == SubSeq(s, j + 1, Len(s))
  <2>1. j \in 1 .. Len(s) /\ s[j] = k
    BY <1>2 DEF RangeOf
  <2>2. Without(s, k) = a \o b
    BY <1>2 DEF Without
  <2> HIDE DEF j
  <2>3. a \in Seq(Keys) /\ Len(a) = j - 1 /\ \A i \in 1 .. j - 1 : a[i] = s[i]
    BY <2>1
  <2>4. b \in Seq(Keys) /\ Len(b) = Len(s) - j
        /\ \A i \in 1 .. Len(s) - j : b[i] = s[i + j]
    BY <2>1
  <2> HIDE DEF a, b
  <2>5. a \o b \in Seq(Keys) /\ Len(a \o b) = Len(s) - 1
        /\ \A i \in 1 .. Len(s) - 1 :
              (a \o b)[i] = IF i < j THEN s[i] ELSE s[i + 1]
    <3>1. a \o b \in Seq(Keys) /\ Len(a \o b) = Len(a) + Len(b)
      BY <2>3, <2>4, SMTT(30)
    <3>2. \A i \in 1 .. Len(a) : (a \o b)[i] = a[i]
      BY <2>3, <2>4
    <3>3. \A i \in 1 .. Len(a) + Len(b) :
             i > Len(a) => (a \o b)[i] = b[i - Len(a)]
      BY <2>3, <2>4
    <3>4. Len(a) + Len(b) = Len(s) - 1
      BY <2>1, <2>3, <2>4
    <3>6. Len(s) \in Nat /\ j \in Nat /\ 1 <= j /\ j <= Len(s) /\ Len(a) = j - 1
      BY <2>1, <2>3
    <3>5. ASSUME NEW i \in 1 .. Len(s) - 1
          PROVE  (a \o b)[i] = IF i < j THEN s[i] ELSE s[i + 1]
      <4>1. CASE i < j
        BY <4>1, <3>2, <2>1, <2>3
      <4>2. CASE ~ (i < j)
        <5>1. i > Len(a) /\ i - Len(a) = i - j + 1 /\ i - j + 1 \in 1 .. Len(s) - j
          BY <4>2, <3>6
        <5>2. (a \o b)[i] = b[i - j + 1]
          BY <5>1, <3>3, <3>4
        <5>3. b[i - j + 1] = s[(i - j + 1) + j]
          BY <5>1, <2>4
        <5>4. (i - j + 1) + j = i + 1
          BY <3>6
        <5> QED
          BY <5>2, <5>3, <5>4, <4>2
      <4> QED
        BY <4>1, <4>2
    <3> QED
      BY <3>1, <3>4, <3>5
  <2>6. \A h \in 1 .. Len(s) : s[h] = k => h = j
    BY <2>1 DEF NoRepeats
  <2> QED
    BY <1>2, <2>2, <2>5, <2>6
<1> QED
  BY <1>1, <1>2

(* The carry of a rotation is a list without repetitions, headed by the      *)
(* active key.                                                               *)
LEMMA CarryProperties ==
    ASSUME NEW s \in Seq(Keys), NoRepeats(s), NEW k \in Keys
    PROVE  LET c == <<k>> \o Without(s, k) IN
           /\ c \in Seq(Keys)
           /\ NoRepeats(c)
           /\ Len(c) >= 1 /\ c[1] = k
           /\ RangeOf(c) \subseteq RangeOf(s) \cup {k}
<1> DEFINE t == Without(s, k)
           c == <<k>> \o t
<1>1. t \in Seq(Keys)
  BY WithoutProperties
<1>2. /\ \A i \in 1 .. Len(t) : \E j \in 1 .. Len(s) : t[i] = s[j] /\ s[j] # k
      /\ NoRepeats(t)
  <2>1. CASE k \notin RangeOf(s)
    BY <2>1, WithoutProperties DEF RangeOf
  <2>2. CASE k \in RangeOf(s)
    <3>1. PICK j \in 1 .. Len(s) : s[j] = k
      BY <2>2 DEF RangeOf
    <3>2. Len(t) = Len(s) - 1
          /\ \A i \in 1 .. Len(t) : t[i] = IF i < j THEN s[i] ELSE s[i + 1]
      BY <3>1, WithoutProperties
    <3> HIDE DEF t
    <3>3. \A i \in 1 .. Len(t) : \E h \in 1 .. Len(s) :
             t[i] = s[h] /\ h # j /\ h = (IF i < j THEN i ELSE i + 1)
      BY <3>1, <3>2
    <3>4. \A i \in 1 .. Len(t) : \E h \in 1 .. Len(s) : t[i] = s[h] /\ s[h] # k
      BY <3>1, <3>3 DEF NoRepeats
    <3>5. ASSUME NEW i \in 1 .. Len(t), NEW h \in 1 .. Len(t), t[i] = t[h]
          PROVE  i = h
      <4>1. PICK x \in 1 .. Len(s) :
                t[i] = s[x] /\ x = (IF i < j THEN i ELSE i + 1)
        BY <3>3
      <4>2. PICK y \in 1 .. Len(s) :
                t[h] = s[y] /\ y = (IF h < j THEN h ELSE h + 1)
        BY <3>3
      <4>3. s[x] = s[y]
        BY <3>5, <4>1, <4>2
      <4>4. x = y
        BY <4>3 DEF NoRepeats
      <4>5. Len(t) \in Nat
        BY <1>1
      <4> QED
        BY <3>1, <4>1, <4>2, <4>4, <4>5
    <3> QED
      BY <3>4, <3>5, <1>1, SMTT(30) DEF NoRepeats
  <2> QED
    BY <2>1, <2>2
<1> HIDE DEF t
<1>3. c \in Seq(Keys) /\ Len(c) = Len(t) + 1 /\ c[1] = k
      /\ \A i \in 2 .. Len(c) : c[i] = t[i - 1]
  BY <1>1
<1> HIDE DEF c
<1>4. NoRepeats(c)
  <2>1. \A i \in 2 .. Len(c) : c[i] # k
    BY <1>1, <1>2, <1>3
  <2>2. ASSUME NEW i \in 1 .. Len(c), NEW j \in 1 .. Len(c), c[i] = c[j]
        PROVE  i = j
    <3>1. CASE i = 1 \/ j = 1
      BY <2>1, <2>2, <1>3, <3>1
    <3>2. CASE i # 1 /\ j # 1
      <4>1. i - 1 \in 1 .. Len(t) /\ j - 1 \in 1 .. Len(t)
            /\ t[i - 1] = t[j - 1]
        BY <2>2, <1>1, <1>3, <3>2
      <4>2. i - 1 = j - 1
        BY <4>1, <1>1, <1>2 DEF NoRepeats
      <4> QED
        BY <4>2
    <3> QED
      BY <3>1, <3>2
  <2> QED
    BY <2>2, <1>3 DEF NoRepeats
<1>5. RangeOf(c) \subseteq RangeOf(s) \cup {k}
  BY <1>1, <1>2, <1>3, SMTT(30) DEF RangeOf
<1> QED
  BY <1>3, <1>4, <1>5 DEF t, c

(* A nonempty set of positions has a first one. *)
LEMMA FirstOfProperties ==
    ASSUME NEW S \in SUBSET Nat, S # {}
    PROVE  FirstOf(S) \in S /\ \A j \in S : FirstOf(S) <= j
<1> DEFINE below == OpToRel(<, Nat)
<1>1. \A x, y \in Nat : y < x => <<y, x>> \in below
  BY DEF OpToRel
<1>2. IsWellFoundedOn(below, Nat)
  BY NatLessThanWellFounded
<1> HIDE DEF below
<1>3. PICK x \in S : \A y \in S : ~ (<<y, x>> \in below)
  BY <1>2, WFMin
<1>4. ASSUME NEW y \in S PROVE x <= y
  <2>1. x \in Nat /\ y \in Nat
    OBVIOUS
  <2>2. ~ (y < x)
    BY <1>1, <1>3, <2>1, Zenon
  <2> QED
    BY <2>1, <2>2
<1> QED
  BY <1>4 DEF FirstOf

(* The bounded list of a nonempty list starts with its first key and goes on *)
(* with the first different one.                                             *)
LEMMA BoundedProperties ==
    ASSUME NEW s \in Seq(Keys), Len(s) >= 1
    PROVE  /\ Bounded(s) \in Seq(Keys)
           /\ RangeOf(Bounded(s)) \subseteq Keys
           /\ s[1] \in RangeOf(Bounded(s))
           /\ \A i \in 1 .. Len(s) :
                 (s[i] # s[1] /\ \A j \in 1 .. i - 1 : s[j] = s[1])
                     => Bounded(s) = <<s[1], s[i]>>
           /\ (\A i \in 1 .. Len(s) : s[i] = s[1]) => Bounded(s) = <<s[1]>>
<1>1. CASE Others(s) = {}
  <2>1. Bounded(s) = <<s[1]>> /\ s[1] \in Keys
    BY <1>1 DEF Bounded
  <2>2. \A i \in 1 .. Len(s) : s[i] = s[1]
    BY <1>1 DEF Others
  <2>3. <<s[1]>> \in Seq(Keys) /\ RangeOf(<<s[1]>>) = {s[1]}
    BY <2>1 DEF RangeOf
  <2> QED
    BY <2>1, <2>2, <2>3
<1>2. CASE Others(s) # {}
  <2> DEFINE f == FirstOf(Others(s))
  <2> Others(s) \subseteq Nat
    BY DEF Others
  <2>1. f \in Others(s) /\ \A j \in Others(s) : f <= j
    BY <1>2, FirstOfProperties
  <2>2. f \in 1 .. Len(s) /\ s[f] # s[1] /\ s[f] \in Keys /\ s[1] \in Keys
    BY <2>1 DEF Others
  <2>3. Bounded(s) = <<s[1], s[f]>>
    BY <1>2 DEF Bounded
  <2> HIDE DEF f
  <2>4. ASSUME NEW i \in 1 .. Len(s), s[i] # s[1],
               \A j \in 1 .. i - 1 : s[j] = s[1]
        PROVE  i = f
    BY <2>1, <2>2, <2>4 DEF Others
  <2>5. RangeOf(Bounded(s)) = {s[1], s[f]}
    BY <2>2, <2>3 DEF RangeOf
  <2> QED
    BY <2>2, <2>3, <2>4, <2>5
<1> QED
  BY <1>1, <1>2

-----------------------------------------------------------------------------
(* Type correctness *)

(* Where a process is tells which of its locals are set. *)
Rotating == {"get_retired", "carry", "set_active", "verify", "prune"}
Generated == {"carry", "set_active", "verify", "prune", "create_set",
              "force_set"}
LocalsSet ==
    /\ \A w \in Writers : pc[w] \in Rotating => cur[w] \in Keys
    /\ \A w \in Writers : pc[w] \in Generated => new[w] \in Keys
    /\ \A r \in Readers : pc[r] = "get_retired" => Len(keys[r]) >= 1

TypeInv == TypeOK /\ LocalsSet

(* What the API hands out is made of keys. *)
LEMMA HandedOutKeys ==
    ASSUME NEW a \in KeyOrNone, NEW ret \in Seq(Keys)
    PROVE  RangeOf(HandedOut(a, ret)) \subseteq Keys
<1>1. CASE a = NoKey
  BY <1>1 DEF HandedOut, RangeOf
<1>2. CASE a # NoKey
  <2>1. <<a>> \o ret \in Seq(Keys) /\ Len(<<a>> \o ret) >= 1
    BY <1>2 DEF KeyOrNone
  <2> QED
    BY <1>2, <2>1, BoundedProperties DEF HandedOut
<1> QED
  BY <1>1, <1>2

(* An initial state is well typed. *)
LEMMA InitTypeInv == Init => TypeInv
<1> SUFFICES ASSUME Init PROVE TypeInv
  OBVIOUS
<1>1. retired \in Seq(Keys)
  BY DEF Init
<1>2. active \in KeyOrNone /\ NoRepeats(retired)
  BY DEF Init
<1>3. used \subseteq Keys
  BY <1>1, <1>2 DEF Init, RangeOf, KeyOrNone
<1>4. stable \in [Readers -> SUBSET Keys]
  BY <1>1, <1>2, HandedOutKeys DEF Init, Readable
<1>5. /\ pc \in [Procs -> WriterPC \cup ReaderPC]
      /\ \A w \in Writers : pc[w] = "idle"
      /\ \A r \in Readers : pc[r] = "idle"
  BY DEF Init, Procs, WriterPC
<1>6. /\ cur \in [Writers -> KeyOrNone]
      /\ new \in [Writers -> KeyOrNone]
      /\ prev \in [Writers -> Seq(Keys)]
      /\ \A w \in Writers : NoRepeats(prev[w])
      /\ keys \in [Readers -> Seq(Keys)]
      /\ replaced \in KeyOrNone
  BY DEF Init, KeyOrNone, NoRepeats
<1> QED
  BY <1>1, <1>2, <1>3, <1>4, <1>5, <1>6
     DEF TypeInv, TypeOK, LocalsSet, WriterPC, ReaderPC, Rotating, Generated

(* Every step keeps the state well typed, whoever takes it. *)
LEMMA NextTypeInv == TypeInv /\ [Next]_vars => TypeInv'
<1> SUFFICES ASSUME TypeInv, [Next]_vars PROVE TypeInv'
  OBVIOUS
<1> USE KeystoreAssumption
<1> DEFINE Frame ==
      /\ active' \in KeyOrNone /\ retired' \in Seq(Keys) /\ NoRepeats(retired')
      /\ pc' \in [Procs -> WriterPC \cup ReaderPC]
      /\ \A w \in Writers : pc'[w] \in WriterPC
      /\ \A r \in Readers : pc'[r] \in ReaderPC
      /\ cur' \in [Writers -> KeyOrNone] /\ new' \in [Writers -> KeyOrNone]
      /\ prev' \in [Writers -> Seq(Keys)]
      /\ \A w \in Writers : NoRepeats(prev'[w])
      /\ keys' \in [Readers -> Seq(Keys)]
      /\ used' \subseteq Keys /\ replaced' \in KeyOrNone
      /\ LocalsSet'
<1>1. ASSUME NEW w \in Writers, WriterStep(w) PROVE Frame
  <2> w \in Procs /\ w \notin Readers
    BY DEF Procs
  <2> USE DEF TypeInv, TypeOK, LocalsSet, KeyOrNone, WriterPC, ReaderPC, Rotating,
              Generated, Goto, At, entries, locals
  <2>1. CASE RotateGetActive(w)
    BY <2>1 DEF RotateGetActive
  <2>2. CASE RotateGetRetired(w)
    BY <2>2 DEF RotateGetRetired, Generate
  <2>3. CASE RotateCarry(w)
    <3>1. cur[w] \in Keys /\ prev[w] \in Seq(Keys) /\ NoRepeats(prev[w])
      BY <2>3 DEF RotateCarry
    <3>2. retired' \in Seq(Keys) /\ NoRepeats(retired')
      BY <2>3, <3>1, CarryProperties DEF RotateCarry
    <3> QED
      BY <2>3, <3>2 DEF RotateCarry
  <2>4. CASE RotateSetActive(w)
    BY <2>4 DEF RotateSetActive
  <2>5. CASE RotateVerify(w)
    BY <2>5 DEF RotateVerify
  <2>6. CASE RotatePrune(w)
    <3>1. retired' \in Seq(Keys) /\ NoRepeats(retired')
      BY <2>6 DEF RotatePrune, NoRepeats
    <3> QED
      BY <2>6, <3>1 DEF RotatePrune
  <2>7. CASE CreateCheck(w)
    <3>1. PICK k \in Keys : new' = [new EXCEPT ![w] = k]
                            /\ used' = used \cup {k}
      BY <2>7 DEF CreateCheck, Generate
    <3>2. PICK l \in {"create_set", "force_set"} : pc' = [pc EXCEPT ![w] = l]
      BY <2>7 DEF CreateCheck
    <3>3. UNCHANGED <<active, retired, cur, prev, keys, replaced>>
      BY <2>7 DEF CreateCheck
    <3> QED
      BY <3>1, <3>2, <3>3
  <2>8. CASE CreateSet(w)
    BY <2>8 DEF CreateSet
  <2>9. CASE CreateForget(w)
    BY <2>9 DEF CreateForget, NoRepeats
  <2>10. CASE DeleteActive(w)
    BY <2>10 DEF DeleteActive
  <2>11. CASE DeleteRetired(w)
    BY <2>11 DEF DeleteRetired, NoRepeats
  <2>12. CASE Abort(w)
    BY <2>12 DEF Abort
  <2> QED
    BY <1>1, <2>1, <2>2, <2>3, <2>4, <2>5, <2>6, <2>7, <2>8, <2>9, <2>10, <2>11,
       <2>12 DEF WriterStep
<1>2. ASSUME NEW r \in Readers, ReaderStep(r) PROVE Frame
  <2> r \in Procs /\ r \notin Writers
    BY DEF Procs
  <2> USE DEF TypeInv, TypeOK, LocalsSet, KeyOrNone, WriterPC, ReaderPC, Rotating,
              Generated, Goto, At, entries, locals
  <2>1. CASE ReadActive(r)
    BY <2>1 DEF ReadActive
  <2>2. CASE ReadRetired(r)
    <3>1. keys[r] \o retired \in Seq(Keys) /\ Len(keys[r] \o retired) >= 1
      BY <2>2 DEF ReadRetired
    <3>2. Bounded(keys[r] \o retired) \in Seq(Keys)
      BY <3>1, BoundedProperties
    <3> QED
      BY <2>2, <3>2 DEF ReadRetired
  <2>3. CASE Finish(r)
    BY <2>3 DEF Finish
  <2> QED
    BY <1>2, <2>1, <2>2, <2>3 DEF ReaderStep
<1>3. ASSUME Frame, Observe PROVE TypeInv'
  <2>1. RangeOf(Readable') \subseteq Keys
    BY <1>3, HandedOutKeys DEF Readable
  <2>2. stable' \in [Readers -> SUBSET Keys]
    BY <1>3, <2>1 DEF Observe, TypeInv, TypeOK
  <2> QED
    BY <1>3, <2>2 DEF TypeInv, TypeOK
<1>4. CASE UNCHANGED vars
  BY <1>4 DEF vars, TypeInv, TypeOK, LocalsSet
<1> QED
  BY <1>1, <1>2, <1>3, <1>4 DEF Next

(* The keyring entries, the locals of every process and the histories are    *)
(* well typed and retired lists hold no key twice, for any number of writers *)
(* and readers (keystore.py:185-251).                                        *)
THEOREM TypeCorrect == Spec => []TypeOK
<1>1. TypeInv => TypeOK
  BY DEF TypeInv
<1> QED
  BY <1>1, InitTypeInv, NextTypeInv, PTL DEF Spec

-----------------------------------------------------------------------------
(* Two generations stay readable *)

(* The retired list leads, past the active key, to key k. *)
Leads(k) ==
    \/ Len(retired) >= 1 /\ retired[1] = k
    \/ Len(retired) >= 2 /\ retired[1] = active /\ retired[2] = k

(* TwoGenerationsReadable, said of the entries, is inductive only with what  *)
(* the writer knows at each step of a rotation: the key it carries is still  *)
(* the active one, its generated key is in neither entry, and once the new   *)
(* key is confirmed the carried key is the one that was replaced.            *)
Retention ==
    /\ (active # NoKey /\ replaced # NoKey) => replaced # active /\ Leads(replaced)
    /\ RangeOf(retired) \subseteq used
    /\ active # NoKey => active \in used
    /\ \A w \in Writers :
        /\ pc[w] \in Rotating => cur[w] \in used
        /\ pc[w] \in Generated => new[w] \in used
        /\ pc[w] \in {"get_retired", "carry", "set_active"} =>
              active = cur[w] /\ cur[w] # NoKey
        /\ pc[w] = "carry" => prev[w] = retired
        /\ pc[w] = "carry" => new[w] # active /\ new[w] \notin RangeOf(retired)
        /\ pc[w] = "set_active" => Len(retired) >= 1 /\ retired[1] = cur[w]
        /\ pc[w] = "set_active" =>
              new[w] # active /\ new[w] \notin RangeOf(retired)
        /\ pc[w] = "verify" => cur[w] # NoKey
        /\ pc[w] = "verify" /\ active = new[w] => replaced = cur[w]
        /\ pc[w] = "prune" => active = new[w] /\ replaced = cur[w]
        /\ pc[w] = "prune" => cur[w] # new[w]
        /\ pc[w] = "create_forget" => replaced = NoKey
        /\ pc[w] = "delete_retired" => replaced = NoKey

RetentionInv == TypeInv /\ Retention

(* The carry leads past the carried key to what the old list led to. *)
LEMMA CarryLeads ==
    ASSUME NEW s \in Seq(Keys), NoRepeats(s), NEW c \in Keys, NEW k, k # c,
           \/ Len(s) >= 1 /\ s[1] = k
           \/ Len(s) >= 2 /\ s[1] = c /\ s[2] = k
    PROVE  LET t == <<c>> \o Without(s, c) IN Len(t) >= 2 /\ t[1] = c /\ t[2] = k
<1> DEFINE u == Without(s, c)
<1>1. u \in Seq(Keys) /\ Len(u) >= 1 /\ u[1] = k
  <2>1. CASE c \notin RangeOf(s)
    BY <2>1, WithoutProperties DEF RangeOf
  <2>2. CASE c \in RangeOf(s)
    <3>1. PICK j \in 1 .. Len(s) : s[j] = c
      BY <2>2 DEF RangeOf
    <3>2. /\ u \in Seq(Keys)
          /\ Len(u) = Len(s) - 1
          /\ \A i \in 1 .. Len(u) : u[i] = IF i < j THEN s[i] ELSE s[i + 1]
      BY <3>1, WithoutProperties
    <3> HIDE DEF u
    <3>3. CASE s[1] = k
      <4>1. j # 1 /\ Len(s) >= 2
        BY <3>1, <3>3
      <4> QED
        BY <3>1, <3>2, <3>3, <4>1
    <3>4. CASE Len(s) >= 2 /\ s[1] = c /\ s[2] = k
      <4>1. j = 1
        BY <3>1, <3>4 DEF NoRepeats
      <4> QED
        BY <3>2, <3>4, <4>1
    <3> QED
      BY <3>3, <3>4
  <2> QED
    BY <2>1, <2>2
<1> HIDE DEF u
<1>2. LET t == <<c>> \o u IN Len(t) >= 2 /\ t[1] = c /\ t[2] = k
  BY <1>1
<1> QED
  BY <1>2 DEF u

(* With one writer every step keeps the retention invariant. *)
LEMMA NextRetention ==
    ASSUME SingleWriter
    PROVE  RetentionInv /\ [Next]_vars => Retention'
<1> SUFFICES ASSUME RetentionInv, [Next]_vars PROVE Retention'
  OBVIOUS
<1> USE KeystoreAssumption DEF RetentionInv
<1>1. ASSUME NEW w \in Writers, WriterStep(w) PROVE Retention'
  <2> /\ \A v \in Writers : v = w
      /\ pc \in [Procs -> WriterPC \cup ReaderPC] /\ w \in Procs
      /\ cur \in [Writers -> KeyOrNone] /\ new \in [Writers -> KeyOrNone]
      /\ prev \in [Writers -> Seq(Keys)] /\ retired \in Seq(Keys)
      /\ NoRepeats(retired) /\ active \in KeyOrNone
    BY DEF SingleWriter, TypeInv, TypeOK, Procs
  <2> USE DEF Retention, Leads, RangeOf, Goto, At, entries, locals, Rotating,
              Generated
  <2>1. CASE RotateGetActive(w)
    BY <2>1 DEF RotateGetActive
  <2>2. CASE RotateGetRetired(w)
    <3>1. PICK k \in Keys \ used : new' = [new EXCEPT ![w] = k]
                                   /\ used' = used \cup {k}
      BY <2>2 DEF RotateGetRetired, Generate
    <3> QED
      BY <2>2, <3>1 DEF RotateGetRetired
  <2>3. CASE RotateCarry(w)
    <3>1. /\ pc[w] = "carry"
          /\ cur[w] = active /\ prev[w] = retired
          /\ new[w] # active /\ new[w] \notin RangeOf(retired)
          /\ cur[w] \in Keys
          /\ retired' = <<cur[w]>> \o Without(retired, cur[w])
          /\ UNCHANGED <<active, cur, new, prev, used, replaced>>
          /\ pc' = [pc EXCEPT ![w] = "set_active"]
      BY <2>3 DEF RotateCarry, TypeInv, LocalsSet
    <3>2. /\ retired' \in Seq(Keys)
          /\ Len(retired') >= 1 /\ retired'[1] = cur[w]
          /\ RangeOf(retired') \subseteq RangeOf(retired) \cup {cur[w]}
      <4> HIDE DEF RangeOf, Leads, Retention
      <4> QED
        BY <3>1, CarryProperties
    <3>3. ASSUME active # NoKey, replaced # NoKey
          PROVE  Len(retired') >= 2 /\ retired'[1] = active /\ retired'[2] = replaced
      <4>1. /\ replaced # active
            /\ \/ Len(retired) >= 1 /\ retired[1] = replaced
               \/ Len(retired) >= 2 /\ retired[1] = active /\ retired[2] = replaced
        BY <3>3
      <4> HIDE DEF RangeOf, Leads, Retention
      <4>2. LET t == <<active>> \o Without(retired, active)
            IN  Len(t) >= 2 /\ t[1] = active /\ t[2] = replaced
        <5>1. active \in Keys
          BY <3>1
        <5> QED
          BY <4>1, <5>1, CarryLeads, ZenonT(60)
      <4> QED
        BY <3>1, <4>2
    <3>4. \A v \in Writers : v = w /\ pc'[v] = "set_active"
      BY <3>1
    <3>5. RangeOf(retired') \subseteq used' /\ new[w] \notin RangeOf(retired')
      BY <3>1, <3>2
    <3>6. active # NoKey /\ replaced # NoKey => Leads(replaced)'
      BY <3>1, <3>3
    <3> HIDE DEF Leads, RangeOf
    <3> QED
      BY <3>1, <3>2, <3>4, <3>5, <3>6
  <2>4. CASE RotateSetActive(w)
    <3>1. CASE UNCHANGED <<active, replaced>>
      <4>1. /\ UNCHANGED <<active, retired, cur, new, prev, used, replaced>>
            /\ \A v \in Writers : v = w /\ pc'[v] = "verify"
            /\ active = cur[w] /\ cur[w] # NoKey /\ new[w] # active
            /\ pc[w] = "set_active"
        BY <2>4, <3>1 DEF RotateSetActive
      <4> HIDE DEF RangeOf
      <4> QED
        BY <4>1
    <3>2. CASE active' = new[w] /\ replaced' = active
      BY <2>4, <3>2 DEF RotateSetActive
    <3> QED
      BY <2>4, <3>1, <3>2 DEF RotateSetActive
  <2>5. CASE RotateVerify(w)
    BY <2>5 DEF RotateVerify
  <2>6. CASE RotatePrune(w)
    BY <2>6 DEF RotatePrune
  <2>7. CASE CreateCheck(w)
    BY <2>7 DEF CreateCheck, Generate
  <2>8. CASE CreateSet(w)
    BY <2>8 DEF CreateSet
  <2>9. CASE CreateForget(w)
    BY <2>9 DEF CreateForget
  <2>10. CASE DeleteActive(w)
    BY <2>10 DEF DeleteActive
  <2>11. CASE DeleteRetired(w)
    BY <2>11 DEF DeleteRetired
  <2>12. CASE Abort(w)
    BY <2>12 DEF Abort
  <2> QED
    BY <1>1, <2>1, <2>2, <2>3, <2>4, <2>5, <2>6, <2>7, <2>8, <2>9, <2>10, <2>11,
       <2>12 DEF WriterStep
<1>2. ASSUME NEW r \in Readers, ReaderStep(r) PROVE Retention'
  <2>1. /\ \A w \in Writers : w # r
        /\ pc \in [Procs -> WriterPC \cup ReaderPC]
    BY DEF TypeInv, TypeOK
  <2>2. /\ \A w \in Writers : pc'[w] = pc[w]
        /\ UNCHANGED <<active, retired, cur, new, prev, used, replaced>>
    BY <1>2, <2>1 DEF ReaderStep, ReadActive, ReadRetired, Finish, Goto,
       entries, locals, Procs
  <2> QED
    BY <2>2 DEF Retention, Leads, RangeOf
<1>3. CASE UNCHANGED vars
  BY <1>3 DEF vars, Retention, Leads, RangeOf
<1> QED
  BY <1>1, <1>2, <1>3 DEF Next

(* Initially nothing has been replaced and nobody is rotating. *)
LEMMA InitRetention == Init => Retention
<1> SUFFICES ASSUME Init PROVE Retention
  OBVIOUS
<1>1. RangeOf(retired) \subseteq Keys
  BY DEF Init, RangeOf
<1>2. RangeOf(retired) \subseteq used /\ (active # NoKey => active \in used)
  BY <1>1, KeystoreAssumption DEF Init
<1>3. \A w \in Writers : pc[w] = "idle"
  BY DEF Init, Procs
<1>4. replaced = NoKey
  BY DEF Init
<1> QED
  BY <1>2, <1>3, <1>4 DEF Retention, Rotating, Generated

(* A retired list that leads to key k makes the API hand out a and k ...     *)
LEMMA LeadsHandsOut ==
    ASSUME NEW a \in Keys, NEW ret \in Seq(Keys), NEW k, k # a,
           \/ Len(ret) >= 1 /\ ret[1] = k
           \/ Len(ret) >= 2 /\ ret[1] = a /\ ret[2] = k
    PROVE  HandedOut(a, ret) = <<a, k>>
<1> DEFINE s == <<a>> \o ret
<1>1. /\ s \in Seq(Keys) /\ Len(s) = Len(ret) + 1 /\ s[1] = a
      /\ \A i \in 2 .. Len(s) : s[i] = ret[i - 1]
  OBVIOUS
<1> HIDE DEF s
<1>2. PICK i \in 2 .. Len(s) : s[i] = k /\ \A j \in 1 .. i - 1 : s[j] = a
  <2>1. CASE Len(ret) >= 1 /\ ret[1] = k
    <3>1. 2 \in 2 .. Len(s) /\ s[2] = k /\ \A j \in 1 .. 2 - 1 : s[j] = a
      BY <1>1, <2>1
    <3> QED
      BY <3>1
  <2>2. CASE Len(ret) >= 2 /\ ret[1] = a /\ ret[2] = k
    <3>1. 3 \in 2 .. Len(s) /\ s[3] = k /\ \A j \in 1 .. 3 - 1 : s[j] = a
      <4>1. 3 \in 2 .. Len(s) /\ 2 \in 2 .. Len(s)
        BY <1>1, <2>2
      <4>2. s[3] = k /\ s[2] = a
        BY <1>1, <2>2, <4>1
      <4>3. \A j \in 1 .. 3 - 1 : j = 1 \/ j = 2
        OBVIOUS
      <4> QED
        BY <1>1, <4>1, <4>2, <4>3
    <3> DEFINE P(n) == s[n] = k /\ \A j \in 1 .. n - 1 : s[j] = a
    <3>2. P(3) /\ 3 \in 2 .. Len(s)
      BY <3>1
    <3> HIDE DEF P
    <3>3. \E i \in 2 .. Len(s) : P(i)
      BY <3>2
    <3> QED
      BY <3>3 DEF P
  <2> QED
    BY <2>1, <2>2
<1>3. /\ Len(s) >= 1 /\ i \in 1 .. Len(s) /\ s[i] # s[1]
      /\ \A j \in 1 .. i - 1 : s[j] = s[1]
  BY <1>1, <1>2
<1>4. Bounded(s) = <<a, k>>
  BY <1>1, <1>2, <1>3, BoundedProperties
<1> QED
  BY <1>4, KeystoreAssumption DEF HandedOut, s

(* ... and one that holds nothing but a makes it hand out a alone.           *)
LEMMA AloneHandsOut ==
    ASSUME NEW a \in Keys, NEW ret \in Seq(Keys),
           \A i \in 1 .. Len(ret) : ret[i] = a
    PROVE  HandedOut(a, ret) = <<a>>
<1> DEFINE s == <<a>> \o ret
<1>1. /\ s \in Seq(Keys) /\ Len(s) = Len(ret) + 1 /\ s[1] = a
      /\ \A i \in 2 .. Len(s) : s[i] = ret[i - 1]
  OBVIOUS
<1> HIDE DEF s
<1>2. \A i \in 1 .. Len(s) : s[i] = s[1]
  BY <1>1
<1>3. Bounded(s) = <<a>>
  BY <1>1, <1>2, BoundedProperties
<1> QED
  BY <1>3, KeystoreAssumption DEF HandedOut, s

(* The entries hand out exactly the active key and the one it replaced. *)
LEMMA RetentionHandsOut == RetentionInv => TwoGenerationsReadable
<1> SUFFICES ASSUME RetentionInv, active # NoKey, replaced # NoKey
             PROVE  HandedOut(active, retired) = <<active, replaced>>
  BY DEF TwoGenerationsReadable, Readable
<1>1. active \in Keys /\ replaced \in Keys /\ retired \in Seq(Keys)
  BY Zenon DEF RetentionInv, TypeInv, TypeOK, KeyOrNone
<1>2. replaced # active /\ Leads(replaced)
  BY Zenon DEF RetentionInv, Retention
<1> QED
  BY <1>1, <1>2, LeadsHandsOut, Zenon DEF Leads

(* ADR-46 for any number of keys and readers: as long as writers take turns, *)
(* no crash, failed or ignored keyring call of a rotation or of its retries  *)
(* makes the active key or the one it replaced unreadable                    *)
(* (keystore.py:217-251).                                                    *)
THEOREM TwoGenerations ==
    SingleWriter => (Spec => []TwoGenerationsReadable)
<1> SUFFICES ASSUME SingleWriter PROVE Spec => []TwoGenerationsReadable
  OBVIOUS
<1>1. Init => RetentionInv
  BY InitTypeInv, InitRetention DEF RetentionInv
<1>2. RetentionInv /\ [Next]_vars => RetentionInv'
  BY NextTypeInv, NextRetention DEF RetentionInv
<1> QED
  BY <1>1, <1>2, RetentionHandsOut, PTL DEF Spec

-----------------------------------------------------------------------------
(* The keystore hands its readers a ring of keys that rotates in one step *)

(* In the initial states the API hands out no key, one, or two different ones. *)
LEMMA HandedOutIsRing ==
    ASSUME NEW a \in KeyOrNone, NEW ret \in Seq(Keys)
    PROVE  HandedOut(a, ret) \in Ring!Rings
<1>1. CASE a = NoKey
  BY <1>1 DEF HandedOut, Ring!Rings
<1>2. CASE a # NoKey
  <2> DEFINE s == <<a>> \o ret
  <2>1. s \in Seq(Keys) /\ Len(s) >= 1 /\ s[1] = a /\ a \in Keys
    BY <1>2 DEF KeyOrNone
  <2> HIDE DEF s
  <2>2. CASE Others(s) = {}
    BY <1>2, <2>1, <2>2 DEF HandedOut, Bounded, s, Ring!Rings
  <2>3. CASE Others(s) # {}
    <3> DEFINE f == FirstOf(Others(s))
    <3>1. f \in Others(s)
      BY <2>3, FirstOfProperties DEF Others
    <3>2. s[f] \in Keys /\ s[f] # s[1]
      BY <3>1, <2>1 DEF Others
    <3>3. HandedOut(a, ret) = <<s[1], s[f]>>
      BY <1>2, <2>3 DEF HandedOut, Bounded, s
    <3> HIDE DEF f
    <3>4. <<s[1], s[f]>> \in {q \in Keys \X Keys : q[1] # q[2]}
      BY <2>1, <3>2
    <3> QED
      BY <3>3, <3>4 DEF Ring!Rings
  <2> QED
    BY <2>2, <2>3
<1> QED
  BY <1>1, <1>2

(* The carry changes nothing of what the API hands out. *)
LEMMA CarryHandsOut ==
    ASSUME NEW a \in Keys, NEW ret \in Seq(Keys), NoRepeats(ret)
    PROVE  HandedOut(a, <<a>> \o Without(ret, a)) = HandedOut(a, ret)
<1> DEFINE t == <<a>> \o Without(ret, a)
<1>1. t \in Seq(Keys)
  BY CarryProperties
<1>2. ASSUME NEW k \in Keys, k # a,
             \/ Len(ret) >= 1 /\ ret[1] = k
             \/ Len(ret) >= 2 /\ ret[1] = a /\ ret[2] = k
      PROVE  HandedOut(a, t) = HandedOut(a, ret)
  <2>1. Len(t) >= 2 /\ t[1] = a /\ t[2] = k
    BY <1>2, CarryLeads, ZenonT(60)
  <2> HIDE DEF t
  <2>2. HandedOut(a, t) = <<a, k>>
    BY <1>1, <1>2, <2>1, LeadsHandsOut
  <2>3. HandedOut(a, ret) = <<a, k>>
    BY <1>2, LeadsHandsOut
  <2> QED
    BY <2>2, <2>3
<1>3. CASE Len(ret) = 0 \/ (Len(ret) = 1 /\ ret[1] = a)
  <2>1. \A i \in 1 .. Len(ret) : ret[i] = a
    BY <1>3
  <2>2. RangeOf(ret) \subseteq {a}
    BY <2>1 DEF RangeOf
  <2>3. RangeOf(t) \subseteq {a}
    BY <2>2, CarryProperties
  <2> HIDE DEF t
  <2>4. \A i \in 1 .. Len(t) : t[i] = a
    BY <1>1, <2>3 DEF RangeOf
  <2>5. HandedOut(a, t) = <<a>> /\ HandedOut(a, ret) = <<a>>
    BY <1>1, <2>1, <2>4, AloneHandsOut
  <2> QED
    BY <2>5 DEF t
<1>4. CASE Len(ret) >= 1 /\ ret[1] # a
  BY <1>2, <1>4
<1>5. CASE Len(ret) >= 2 /\ ret[1] = a
  <2>1. ret[2] \in Keys /\ ret[2] # a
    BY <1>5 DEF NoRepeats
  <2> QED
    BY <1>2, <1>5, <2>1
<1>6. Len(ret) \in Nat
  OBVIOUS
<1> QED
  BY <1>3, <1>4, <1>5, <1>6

(* A key in neither entry is not handed out. *)
LEMMA HandedOutFrom ==
    ASSUME NEW a \in Keys, NEW ret \in Seq(Keys), NoRepeats(ret)
    PROVE  /\ Len(HandedOut(a, ret)) >= 1
           /\ HandedOut(a, ret)[1] = a
           /\ RangeOf(HandedOut(a, ret)) \subseteq {a} \cup RangeOf(ret)
<1>1. CASE Len(ret) = 0 \/ (Len(ret) = 1 /\ ret[1] = a)
  <2>1. HandedOut(a, ret) = <<a>>
    BY <1>1, AloneHandsOut
  <2> QED
    BY <2>1 DEF RangeOf
<1>2. ASSUME NEW k \in RangeOf(ret), HandedOut(a, ret) = <<a, k>>
      PROVE  /\ Len(HandedOut(a, ret)) >= 1
             /\ HandedOut(a, ret)[1] = a
             /\ RangeOf(HandedOut(a, ret)) \subseteq {a} \cup RangeOf(ret)
  <2>1. RangeOf(<<a, k>>) = {a, k}
    BY DEF RangeOf
  <2> QED
    BY <1>2, <2>1
<1>3. CASE Len(ret) >= 1 /\ ret[1] # a
  <2>1. HandedOut(a, ret) = <<a, ret[1]>> /\ ret[1] \in RangeOf(ret)
    BY <1>3, LeadsHandsOut DEF RangeOf
  <2> QED
    BY <1>2, <2>1
<1>4. CASE Len(ret) >= 2 /\ ret[1] = a
  <2>1. ret[2] # a
    BY <1>4 DEF NoRepeats
  <2>2. HandedOut(a, ret) = <<a, ret[2]>> /\ ret[2] \in RangeOf(ret)
    BY <1>4, <2>1, LeadsHandsOut DEF RangeOf
  <2> QED
    BY <1>2, <2>2
<1>5. \/ Len(ret) = 0 \/ (Len(ret) = 1 /\ ret[1] = a)
      \/ Len(ret) >= 1 /\ ret[1] # a
      \/ Len(ret) >= 2 /\ ret[1] = a
  <2>1. Len(ret) = 0 \/ Len(ret) = 1 \/ Len(ret) >= 2
    <3> DEFINE n == Len(ret)
    <3>1. n \in Nat
      OBVIOUS
    <3> HIDE DEF n
    <3>2. n = 0 \/ n = 1 \/ n >= 2
      BY <3>1
    <3> QED
      BY <3>2 DEF n
  <2>2. Len(ret) = 1 => Len(ret) >= 1
    OBVIOUS
  <2>3. Len(ret) >= 2 => Len(ret) >= 1
    <3>1. Len(ret) \in Nat
      OBVIOUS
    <3> QED
      BY <3>1
  <2> QED
    BY <2>1, <2>2, <2>3, Zenon
<1> QED
  BY <1>1, <1>3, <1>4, <1>5, Zenon

(* When rotation is the only command, writers are idle or rotating. *)
RotationOnly == Commands = {"rotate"}
OnlyRotating == \A w \in Writers : pc[w] \in Rotating \cup {"idle"}

LEMMA NextOnlyRotating ==
    ASSUME RotationOnly
    PROVE  TypeInv /\ OnlyRotating /\ [Next]_vars => OnlyRotating'
<1> SUFFICES ASSUME TypeInv, OnlyRotating, [Next]_vars PROVE OnlyRotating'
  OBVIOUS
<1> USE DEF OnlyRotating, RotationOnly, Goto, At, Rotating
<1>1. pc \in [Procs -> WriterPC \cup ReaderPC]
  BY DEF TypeInv, TypeOK
<1>2. ASSUME NEW w \in Writers, WriterStep(w) PROVE OnlyRotating'
  <2>1. CASE CreateCheck(w) \/ CreateSet(w) \/ CreateForget(w)
             \/ DeleteActive(w) \/ DeleteRetired(w)
    BY <2>1, <1>1 DEF CreateCheck, CreateSet, CreateForget, DeleteActive,
       DeleteRetired
  <2>2. CASE RotateGetActive(w) \/ RotateGetRetired(w) \/ RotateCarry(w)
             \/ RotateSetActive(w) \/ RotateVerify(w) \/ RotatePrune(w) \/ Abort(w)
    BY <2>2, <1>1 DEF RotateGetActive, RotateGetRetired, RotateCarry,
       RotateSetActive, RotateVerify, RotatePrune, Abort, Procs
  <2> QED
    BY <1>2, <2>1, <2>2 DEF WriterStep
<1>3. ASSUME NEW r \in Readers, ReaderStep(r) PROVE OnlyRotating'
  <2>1. \A w \in Writers : w # r
    BY KeystoreAssumption
  <2> QED
    BY <1>1, <1>3, <2>1 DEF ReaderStep, ReadActive, ReadRetired, Finish, Procs
<1>4. CASE UNCHANGED vars
  BY <1>4 DEF vars
<1> QED
  BY <1>2, <1>3, <1>4 DEF Next

(* A step of the keystore is a rotation of the ring or leaves it alone. *)
LEMMA NextRing ==
    ASSUME SingleWriter, RotationOnly
    PROVE  RetentionInv /\ OnlyRotating /\ [Next]_vars => [Ring!Next]_Readable
<1> SUFFICES ASSUME RetentionInv, OnlyRotating, [Next]_vars
             PROVE  Ring!Next \/ Readable' = Readable
  OBVIOUS
<1>1. ASSUME UNCHANGED <<active, retired>> PROVE Readable' = Readable
  BY <1>1 DEF Readable, HandedOut, Bounded, Others
<1>2. ASSUME NEW w \in Writers, WriterStep(w)
      PROVE  Ring!Next \/ Readable' = Readable
  <2>1. /\ retired \in Seq(Keys) /\ NoRepeats(retired) /\ active \in KeyOrNone
        /\ pc[w] \in Rotating => cur[w] \in Keys
        /\ pc[w] \in Generated => new[w] \in Keys
    BY DEF RetentionInv, TypeInv, TypeOK, LocalsSet
  <2>2. CASE RotateGetActive(w) \/ RotateGetRetired(w) \/ RotateVerify(w)
             \/ Abort(w)
    <3>1. UNCHANGED <<active, retired>>
      BY <2>2 DEF RotateGetActive, RotateGetRetired, RotateVerify, Abort, entries
    <3> QED
      BY <1>1, <3>1
  <2>3. CASE RotateCarry(w)
    <3>1. /\ active \in Keys /\ active' = active
          /\ retired' = <<active>> \o Without(retired, active)
      BY <2>1, <2>3 DEF RotateCarry, At, RetentionInv, Retention, Rotating
    <3> QED
      BY <2>1, <3>1, CarryHandsOut DEF Readable
  <2>4. CASE RotateSetActive(w)
    <3>1. CASE UNCHANGED <<active, replaced>>
      BY <1>1, <2>4, <3>1 DEF RotateSetActive
    <3>2. CASE active' = new[w] /\ replaced' = active
      <4>1. /\ active \in Keys /\ new[w] \in Keys /\ new[w] # active
            /\ new[w] \notin RangeOf(retired)
            /\ Len(retired) >= 1 /\ retired[1] = active
            /\ active' = new[w] /\ retired' = retired
        BY <2>1, <2>4, <3>2
           DEF RotateSetActive, At, RetentionInv, Retention, Rotating, Generated
      <4>2. Readable' = <<new[w], active>>
        BY <2>1, <4>1, LeadsHandsOut DEF Readable
      <4>3. /\ Len(Readable) >= 1 /\ Readable[1] = active
            /\ RangeOf(Readable) \subseteq {active} \cup RangeOf(retired)
        BY <2>1, <4>1, HandedOutFrom DEF Readable
      <4>4. /\ Readable # << >>
            /\ \A i \in 1 .. Len(Readable) : Readable[i] # new[w]
        <5>1. Readable \in Ring!Rings
          BY <2>1, HandedOutIsRing DEF Readable
        <5>2. \A i \in 1 .. Len(Readable) : Readable[i] \in RangeOf(Readable)
          BY <5>1 DEF RangeOf, Ring!Rings
        <5> QED
          BY <4>1, <4>3, <5>2
      <4>5. Ring!Rotate(new[w])
        BY <4>2, <4>3, <4>4 DEF Ring!Rotate
      <4> QED
        BY <4>1, <4>5 DEF Ring!Next
    <3> QED
      BY <2>4, <3>1, <3>2 DEF RotateSetActive
  <2>5. CASE RotatePrune(w)
    <3>1. /\ active = new[w] /\ active \in Keys
          /\ cur[w] \in Keys /\ cur[w] # active /\ replaced = cur[w]
          /\ active' = active /\ retired' = <<cur[w]>>
      BY <2>1, <2>5
         DEF RotatePrune, At, RetentionInv, Retention, Rotating, Generated
    <3>2. Readable = <<active, cur[w]>>
      BY <3>1, RetentionHandsOut, KeystoreAssumption DEF TwoGenerationsReadable
    <3>3. Readable' = <<active, cur[w]>>
      <4> DEFINE ret == <<cur[w]>>
      <4>1. ret \in Seq(Keys) /\ Len(ret) >= 1 /\ ret[1] = cur[w]
        BY <3>1
      <4> HIDE DEF ret
      <4>2. HandedOut(active, ret) = <<active, cur[w]>>
        BY <3>1, <4>1, LeadsHandsOut
      <4> QED
        BY <3>1, <4>2 DEF Readable, ret
    <3> QED
      BY <3>2, <3>3
  <2>6. CASE CreateCheck(w) \/ CreateSet(w) \/ CreateForget(w)
             \/ DeleteActive(w) \/ DeleteRetired(w)
    <3>1. CASE CreateCheck(w)
      BY <1>1, <3>1 DEF CreateCheck, entries
    <3>2. CASE CreateSet(w) \/ CreateForget(w) \/ DeleteActive(w)
               \/ DeleteRetired(w)
      BY <3>2 DEF CreateSet, CreateForget, DeleteActive, DeleteRetired, At,
         OnlyRotating, Rotating, RotationOnly
    <3> QED
      BY <2>6, <3>1, <3>2
  <2> QED
    BY <1>2, <2>2, <2>3, <2>4, <2>5, <2>6 DEF WriterStep
<1>3. ASSUME NEW r \in Readers, ReaderStep(r) PROVE Readable' = Readable
  BY <1>1, <1>3 DEF ReaderStep, ReadActive, ReadRetired, Finish, entries
<1>4. CASE UNCHANGED vars
  BY <1>1, <1>4 DEF vars
<1> QED
  BY <1>2, <1>3, <1>4 DEF Next

(* What the API hands out during rotations, with every failure and retry of  *)
(* them, behaves as the ring of the abstract specification: the several      *)
(* keyring writes of a rotation take effect at one of them (ADR-46).         *)
THEOREM KeystoreImplementsKeyRing ==
    SingleWriter /\ RotationOnly => (Spec => ImplementsKeyRing)
<1> SUFFICES ASSUME SingleWriter, RotationOnly PROVE Spec => ImplementsKeyRing
  OBVIOUS
<1>1. Init => RetentionInv /\ OnlyRotating /\ Ring!Init
  <2>1. Init => RetentionInv
    BY InitTypeInv, InitRetention DEF RetentionInv
  <2>2. Init => OnlyRotating
    BY DEF Init, OnlyRotating, Procs
  <2>3. RetentionInv => Ring!Init
    BY HandedOutIsRing DEF RetentionInv, TypeInv, TypeOK, Ring!Init, Readable
  <2> QED
    BY <2>1, <2>2, <2>3
<1>2. RetentionInv /\ OnlyRotating /\ [Next]_vars
         => RetentionInv' /\ OnlyRotating' /\ [Ring!Next]_Readable
  BY NextTypeInv, NextRetention, NextOnlyRotating, NextRing DEF RetentionInv
<1> QED
  BY <1>1, <1>2, PTL DEF Spec, ImplementsKeyRing, Ring!Spec

-----------------------------------------------------------------------------
(* A reader misses no key that stayed readable *)

(* Between its two reads a reader has read the active key, or one that was   *)
(* replaced since; then no other key can have stayed readable, because the   *)
(* key that replaced it was readable nowhere before.                         *)
ReaderInv ==
    /\ \A r \in Readers :
          /\ stable[r] \subseteq RangeOf(Readable)
          /\ pc[r] = "get_retired" =>
                \E a \in Keys : keys[r] = <<a>> /\ (a = active \/ stable[r] \subseteq {a})
          /\ pc[r] = "done" => stable[r] \subseteq RangeOf(keys[r])
    /\ \A w \in Writers : pc[w] = "create_set" => active = NoKey

(* What the API hands out is the active key and retired ones. *)
LEMMA HandedOutRange ==
    ASSUME NEW a \in KeyOrNone, NEW ret \in Seq(Keys)
    PROVE  /\ RangeOf(HandedOut(a, ret)) \subseteq {a} \cup RangeOf(ret)
           /\ a = NoKey => RangeOf(HandedOut(a, ret)) = {}
<1>1. CASE a = NoKey
  BY <1>1 DEF HandedOut, RangeOf
<1>2. CASE a # NoKey
  <2> DEFINE s == <<a>> \o ret
  <2>1. s \in Seq(Keys) /\ Len(s) >= 1 /\ s[1] = a /\ Len(s) = Len(ret) + 1
        /\ \A i \in 2 .. Len(s) : s[i] = ret[i - 1] /\ i - 1 \in 1 .. Len(ret)
    BY <1>2 DEF KeyOrNone
  <2> HIDE DEF s
  <2>2. \A i \in 1 .. Len(s) : s[i] \in {a} \cup RangeOf(ret)
    <3> SUFFICES ASSUME NEW i \in 1 .. Len(s) PROVE s[i] \in {a} \cup RangeOf(ret)
      OBVIOUS
    <3>1. CASE i = 1
      BY <2>1, <3>1
    <3>2. CASE i # 1
      BY <2>1, <3>2 DEF RangeOf
    <3> QED  BY <3>1, <3>2
  <2>3. RangeOf(Bounded(s)) \subseteq {a} \cup RangeOf(ret)
    <3>1. CASE Others(s) = {}
      BY <2>1, <3>1 DEF Bounded, RangeOf
    <3>2. CASE Others(s) # {}
      <4> DEFINE f == FirstOf(Others(s))
      <4>1. Others(s) \subseteq Nat
        BY <2>1 DEF Others
      <4>2. f \in 1 .. Len(s)
        <5>1. f \in Others(s)
          BY <3>2, <4>1, FirstOfProperties
        <5> QED  BY <2>1, <5>1 DEF Others
      <4>3. Bounded(s) = <<s[1], s[f]>>
        BY <3>2 DEF Bounded
      <4> HIDE DEF f
      <4>4. RangeOf(Bounded(s)) = {s[1], s[f]}
        BY <4>3 DEF RangeOf
      <4> QED  BY <2>1, <2>2, <4>2, <4>4
    <3> QED  BY <3>1, <3>2
  <2> QED  BY <1>2, <2>3 DEF HandedOut, s
<1> QED  BY <1>1, <1>2

LEMMA ReadableRange ==
    ASSUME TypeInv
    PROVE  /\ RangeOf(Readable) \subseteq {active} \cup RangeOf(retired)
           /\ active = NoKey => RangeOf(Readable) = {}
BY HandedOutRange DEF TypeInv, TypeOK, Readable

LEMMA ReadableRangeNext ==
    ASSUME TypeInv'
    PROVE  active' = NoKey => RangeOf(Readable') = {}
BY HandedOutRange DEF TypeInv, TypeOK, Readable

(* What a step leaves in the stable set of a reader. *)
LEMMA Observed ==
    ASSUME Observe, NEW r \in Readers
    PROVE  /\ stable'[r] \subseteq RangeOf(Readable')
           /\ pc[r] # "idle" => stable'[r] \subseteq stable[r]
           /\ pc[r] # "idle" /\ GivenUp => stable'[r] = {}
BY DEF Observe

LEMMA WriterReads ==
    ASSUME SingleWriter, RetentionInv, RetentionInv', ReaderInv, Observe,
           NEW w \in Writers, WriterStep(w)
    PROVE  ReaderInv'
<1> USE KeystoreAssumption
<1>1. /\ \A v \in Writers : v = w
      /\ pc \in [Procs -> WriterPC \cup ReaderPC] /\ w \in Procs
      /\ Readers \subseteq Procs /\ w \notin Readers
      /\ TypeInv /\ TypeInv' /\ Retention
  BY DEF SingleWriter, RetentionInv, TypeInv, TypeOK, Procs
<1>2. keys' = keys /\ \A r \in Readers : pc'[r] = pc[r]
  BY <1>1 DEF WriterStep, RotateGetActive, RotateGetRetired, RotateCarry,
     RotateSetActive, RotateVerify, RotatePrune, CreateCheck, CreateSet,
     CreateForget, DeleteActive, DeleteRetired, Abort, Goto
<1>3. \/ active' = active
      \/ \A r \in Readers : pc[r] # "idle" => stable'[r] \subseteq {active}
  <2>1. CASE RotateSetActive(w) /\ active' # active
    <3>1. /\ active' = new[w] /\ replaced' = active /\ active \in Keys
          /\ new[w] \in Keys /\ new[w] # active /\ new[w] \notin RangeOf(retired)
      BY <1>1, <2>1 DEF RotateSetActive, At, Retention, TypeInv, TypeOK, KeyOrNone,
         LocalsSet, Generated, Rotating
    <3>2. Readable' = <<new[w], active>>
      <4>1. active' \in Keys /\ replaced' \in Keys /\ retired' \in Seq(Keys)
        BY <1>1, <3>1 DEF TypeInv, TypeOK
      <4>2. replaced' # active' /\ Leads(replaced)'
        BY <3>1, <4>1 DEF RetentionInv, Retention
      <4>3. HandedOut(active', retired') = <<active', replaced'>>
        BY <4>1, <4>2, LeadsHandsOut DEF Leads
      <4> QED  BY <3>1, <4>3 DEF Readable
    <3>3. RangeOf(<<new[w], active>>) = {new[w], active}
      BY DEF RangeOf
    <3>4. \A r \in Readers : new[w] \notin stable[r]
      BY <1>1, <3>1, ReadableRange DEF ReaderInv
    <3> QED  BY <3>2, <3>3, <3>4, Observed
  <2>2. CASE CreateSet(w) /\ pc[w] = "force_set"
    <3>1. GivenUp
      BY <1>1, <2>2 DEF CreateSet, GivenUp, Goto
    <3> QED  BY <3>1, Observed
  <2>3. CASE CreateSet(w) /\ pc[w] = "create_set"
    <3>1. \A r \in Readers : stable[r] = {}
      BY <1>1, <2>3, ReadableRange DEF ReaderInv
    <3> QED  BY <3>1, Observed
  <2>4. CASE DeleteActive(w)
    <3>1. RangeOf(Readable') = {}
      BY <1>1, <2>4, ReadableRangeNext DEF DeleteActive
    <3> QED  BY <3>1, Observed
  <2> QED
    BY <2>1, <2>2, <2>3, <2>4 DEF WriterStep, RotateGetActive, RotateGetRetired,
       RotateCarry, RotateVerify, RotatePrune, CreateCheck, CreateSet, CreateForget,
       DeleteRetired, Abort, entries
<1>4. ASSUME NEW r \in Readers, pc'[r] = "get_retired"
      PROVE  \E a \in Keys : keys'[r] = <<a>> /\ (a = active' \/ stable'[r] \subseteq {a})
  <2>1. PICK a \in Keys : keys[r] = <<a>> /\ (a = active \/ stable[r] \subseteq {a})
    BY <1>2, <1>4 DEF ReaderInv
  <2>2. stable'[r] \subseteq stable[r]
    BY <1>2, <1>4, Observed
  <2> QED  BY <1>2, <1>3, <1>4, <2>1, <2>2
<1>5. ASSUME NEW r \in Readers, pc'[r] = "done"
      PROVE  stable'[r] \subseteq RangeOf(keys'[r])
  BY <1>2, <1>5, Observed DEF ReaderInv
<1>6. pc'[w] = "create_set" => active' = NoKey
  BY <1>1 DEF WriterStep, RotateGetActive, RotateGetRetired, RotateCarry,
     RotateSetActive, RotateVerify, RotatePrune, CreateCheck, CreateSet,
     CreateForget, DeleteActive, DeleteRetired, Abort, Goto, At, entries
<1> QED  BY <1>1, <1>4, <1>5, <1>6, Observed DEF ReaderInv

LEMMA ReaderReads ==
    ASSUME RetentionInv, ReaderInv, Observe, NEW q \in Readers, ReaderStep(q)
    PROVE  ReaderInv'
<1> USE KeystoreAssumption
<1>1. /\ pc \in [Procs -> WriterPC \cup ReaderPC] /\ q \in Procs
      /\ keys \in [Readers -> Seq(Keys)] /\ retired \in Seq(Keys)
      /\ active \in KeyOrNone /\ TypeInv
  BY DEF RetentionInv, TypeInv, TypeOK, Procs
<1>2. /\ UNCHANGED entries
      /\ \E l \in ReaderPC : pc' = [pc EXCEPT ![q] = l]
      /\ \E s : keys' = [keys EXCEPT ![q] = s]
  BY DEF ReaderStep, ReadActive, ReadRetired, Finish, Goto, ReaderPC
<1>3. /\ active' = active /\ \A w \in Writers : pc'[w] = pc[w]
      /\ \A r \in Readers \ {q} : pc'[r] = pc[r] /\ keys'[r] = keys[r]
  <2>1. \A p \in Procs \ {q} : pc'[p] = pc[p]
    BY <1>1, <1>2
  <2>2. \A r \in Readers \ {q} : keys'[r] = keys[r]
    BY <1>1, <1>2
  <2> QED  BY <1>2, <2>1, <2>2 DEF Procs, entries
<1>4. ASSUME NEW r \in Readers, pc'[r] = "get_retired"
      PROVE  \E a \in Keys : keys'[r] = <<a>> /\ (a = active' \/ stable'[r] \subseteq {a})
  <2>1. CASE r # q
    BY <1>3, <1>4, <2>1, Observed DEF ReaderInv
  <2>2. CASE r = q
    <3>1. ReadActive(q)
      BY <1>1, <1>4, <2>2 DEF ReaderStep, ReadRetired, Finish, Goto
    <3> QED  BY <1>1, <1>3, <2>2, <3>1 DEF ReadActive, KeyOrNone
  <2> QED  BY <2>1, <2>2
<1>5. ASSUME NEW r \in Readers, pc'[r] = "done"
      PROVE  stable'[r] \subseteq RangeOf(keys'[r])
  <2>1. CASE r # q
    BY <1>3, <1>5, <2>1, Observed DEF ReaderInv
  <2>2. CASE r = q
    <3>1. /\ pc[r] = "get_retired" /\ keys'[r] = Bounded(keys[r] \o retired)
      BY <1>1, <1>5, <2>2 DEF ReaderStep, ReadActive, ReadRetired, Finish, Goto, At
    <3>2. PICK a \in Keys : keys[r] = <<a>> /\ (a = active \/ stable[r] \subseteq {a})
      BY <3>1 DEF ReaderInv
    <3>3. stable'[r] \subseteq stable[r] /\ stable[r] \subseteq RangeOf(Readable)
      BY <3>1, Observed DEF ReaderInv
    <3>4. CASE a = active
      BY <3>1, <3>2, <3>3, <3>4 DEF Readable, HandedOut
    <3>5. CASE stable[r] \subseteq {a}
      <4>1. /\ <<a>> \o retired \in Seq(Keys) /\ Len(<<a>> \o retired) >= 1
            /\ (<<a>> \o retired)[1] = a
        BY <1>1
      <4>2. a \in RangeOf(Bounded(<<a>> \o retired))
        BY <4>1, BoundedProperties
      <4> QED  BY <3>1, <3>2, <3>3, <3>5, <4>2
    <3> QED  BY <3>2, <3>4, <3>5
  <2> QED  BY <2>1, <2>2
<1> QED  BY <1>2, <1>3, <1>4, <1>5, Observed DEF ReaderInv

LEMMA NextReads ==
    ASSUME SingleWriter, RetentionInv, RetentionInv', ReaderInv, [Next]_vars
    PROVE  ReaderInv'
<1>1. CASE UNCHANGED vars
  BY <1>1 DEF vars, ReaderInv, Readable
<1> QED  BY <1>1, WriterReads, ReaderReads DEF Next

LEMMA ReaderInvariant == SingleWriter => (Spec => [](RetentionInv /\ ReaderInv))
<1> SUFFICES ASSUME SingleWriter PROVE Spec => [](RetentionInv /\ ReaderInv)
  OBVIOUS
<1>1. Init => RetentionInv /\ ReaderInv
  <2>1. Init => RetentionInv
    BY InitTypeInv, InitRetention DEF RetentionInv
  <2>2. Init => ReaderInv
    BY DEF Init, ReaderInv, Procs
  <2> QED  BY <2>1, <2>2
<1>2. RetentionInv /\ ReaderInv /\ [Next]_vars => RetentionInv' /\ ReaderInv'
  BY NextTypeInv, NextRetention, NextReads DEF RetentionInv
<1> QED  BY <1>1, <1>2, PTL DEF Spec

(* ReaderSeesStableKeys: the two keyring reads of get_all_keys() miss no key *)
(* that stayed readable while it ran, for any keys and readers and whatever  *)
(* a single writer does, fails at and repeats in between.                    *)
THEOREM ReadersSeeStableKeys ==
    SingleWriter => (Spec => []ReaderSeesStableKeys)
<1>1. ReaderInv => ReaderSeesStableKeys
  BY DEF ReaderInv, ReaderSeesStableKeys
<1> QED  BY <1>1, ReaderInvariant, PTL
=============================================================================

--------------------------- MODULE LibraryProofs ----------------------------
(***************************************************************************)
(* The safety properties of what the library facade does: to a text        *)
(* (Redaction) and to its workspace (Workspace).                           *)
(*                                                                         *)
(* Redaction, for any letters, patterns, dictionary, priorities and        *)
(* configuration, and texts and answers of any length.  Slices of texts    *)
(* and functions applied to each symbol (FlattenSeq) come first.  Of what  *)
(* has been accepted so far each candidate prevails over all those still   *)
(* to come (DetectInv); the values replaced so far have a token each, of a *)
(* number the counter of its type has passed (SeenInv); the tokens         *)
(* substituted so far are those behind a position (RestoreInv).  As far as *)
(* entities lie in the text, the tokens of the prompt exchanged for what   *)
(* they stand for give the text (TextInv); if its letters are as long in   *)
(* lower case, a run of letters in the prompt is one of the text that no   *)
(* entity touched (NameInv).                                               *)
(*                                                                         *)
(* Workspace, for any other directories, any number of discards and any    *)
(* number of renames by other processes.  A discard only empties the       *)
(* directory it has open, and the one directory that can have passed its   *)
(* marker check is the workspace: no other one ever holds the marker.      *)
(* That gives the types and OnlyOwnEmptied.  For WholeOrAway: a workspace  *)
(* that lacks an entry stands, unless another process has renamed it, at   *)
(* the quarantine name of a discard that is past its checks, which no      *)
(* discard renames back.                                                   *)
(***************************************************************************)
EXTENDS Redaction, Workspace, SequenceTheorems, WellFoundedInduction, TLAPS

(* Induction up to a bound, over a set. *)
LEMMA UpTo ==
    ASSUME NEW N \in Nat, NEW T, 0 \in T, \A n \in 0 .. N - 1 : n \in T => n + 1 \in T
    PROVE  0 .. N \subseteq T
<1> DEFINE Bad == (0 .. N) \ T
<1> SUFFICES ASSUME Bad # {} PROVE FALSE
    OBVIOUS
<1>1. PICK m \in Bad : \A n \in Bad : ~ (<<n, m>> \in OpToRel(<, Nat))
  <2>1. Bad \subseteq Nat
    OBVIOUS
  <2> HIDE DEF Bad
  <2> QED  BY <2>1, NatLessThanWellFounded, WFMin
<1>2. m \in Nat /\ m # 0 /\ m - 1 \in 0 .. N - 1
  OBVIOUS
<1>3. \A n \in Bad : ~ (n < m)
  <2>1. \A n \in Bad : n \in Nat
    OBVIOUS
  <2> HIDE DEF Bad
  <2> QED  BY <1>1, <1>2, <2>1 DEF OpToRel
<1> QED  BY <1>2, <1>3

-----------------------------------------------------------------------------
(* Slices *)

LEMMA SliceProperties ==
    ASSUME NEW S, NEW t \in Seq(S), NEW i \in Nat, NEW j \in Nat
    PROVE  /\ Slice(t, i, j) \in Seq(S)
           /\ i <= j /\ j <= Len(t) => Len(Slice(t, i, j)) = j - i
           /\ i <= Len(t) /\ Len(t) <= j => Len(Slice(t, i, j)) = Len(t) - i
           /\ Len(t) <= i => Slice(t, i, j) = <<>>
           /\ \A h \in 1 .. Len(Slice(t, i, j)) : Slice(t, i, j)[h] = t[i + h]
<1> DEFINE n == IF j < Len(t) THEN j ELSE Len(t)
<1>1. Slice(t, i, j) = SubSeq(t, i + 1, n) /\ n \in Nat /\ n <= Len(t) /\ i + 1 \in Int /\ n \in Int
  BY DEF Slice
<1>2. \A h \in i + 1 .. n : t[h] \in S
  BY <1>1
<1> HIDE DEF n
<1>3. /\ SubSeq(t, i + 1, n) \in Seq(S)
      /\ Len(SubSeq(t, i + 1, n)) = IF i + 1 <= n THEN n - (i + 1) + 1 ELSE 0
      /\ \A h \in 1 .. n - (i + 1) + 1 : SubSeq(t, i + 1, n)[h] = t[i + 1 + h - 1]
  BY <1>1, <1>2, SubSeqProperties
<1>4. Len(t) <= i => Slice(t, i, j) = <<>>
  BY <1>1, <1>3
<1>5. \A h \in 1 .. Len(Slice(t, i, j)) : Slice(t, i, j)[h] = t[i + h]
  BY <1>1, <1>3
<1> QED  BY <1>1, <1>3, <1>4, <1>5 DEF n

LEMMA SliceLen ==
    ASSUME NEW S, NEW t \in Seq(S), NEW i \in Nat, NEW j \in Nat, i <= j, j <= Len(t)
    PROVE  /\ Slice(t, i, j) \in Seq(S) /\ Len(Slice(t, i, j)) = j - i
           /\ \A h \in 1 .. j - i : Slice(t, i, j)[h] = t[i + h]
BY SliceProperties

LEMMA SlicePrefix ==
    ASSUME NEW S, NEW t \in Seq(S), NEW k \in Nat, k <= Len(t)
    PROVE  /\ Slice(t, 0, k) \in Seq(S) /\ Len(Slice(t, 0, k)) = k
           /\ \A h \in 1 .. k : Slice(t, 0, k)[h] = t[h]
<1> DEFINE i == 0
<1>1. i \in Nat /\ i <= k
  OBVIOUS
<1> HIDE DEF i
<1>2. /\ Slice(t, i, k) \in Seq(S) /\ Len(Slice(t, i, k)) = k - i
      /\ \A h \in 1 .. k - i : Slice(t, i, k)[h] = t[i + h]
  BY <1>1, SliceLen
<1> QED  BY <1>2 DEF i

LEMMA SliceSplit ==
    ASSUME NEW S, NEW t \in Seq(S), NEW i \in Nat, NEW j \in Nat, NEW k \in Nat,
           i <= j, j <= k, k <= Len(t)
    PROVE  Slice(t, i, k) = Slice(t, i, j) \o Slice(t, j, k)
<1>1. /\ i + 1 \in 1 .. Len(t) + 1 /\ j \in (i + 1) - 1 .. Len(t) /\ k \in j .. Len(t)
      /\ (j < Len(t) \/ j = Len(t)) /\ (k < Len(t) \/ k = Len(t))
  OBVIOUS
<1> QED  BY <1>1, ConcatAdjacentSubSeq DEF Slice

LEMMA SliceFull ==
    ASSUME NEW S, NEW t \in Seq(S)
    PROVE  Slice(t, 0, Len(t)) = t
BY SubSeqFull DEF Slice

LEMMA SliceEmpty ==
    ASSUME NEW S, NEW t \in Seq(S), NEW i \in Nat, i <= Len(t)
    PROVE  Slice(t, i, i) = <<>>
BY SliceProperties

LEMMA SliceWithin ==
    ASSUME NEW S, NEW t \in Seq(S), NEW i \in Nat, NEW j \in Nat, NEW h \in 1 .. Len(Slice(t, i, j))
    PROVE  Slice(t, i, j)[h] = t[i + h] /\ i + h \in 1 .. Len(t)
<1> DEFINE n == IF j < Len(t) THEN j ELSE Len(t)
<1>1. Slice(t, i, j) = SubSeq(t, i + 1, n) /\ n \in Nat /\ n <= Len(t) /\ i + 1 \in Int /\ n \in Int
  BY DEF Slice
<1>2. \A g \in i + 1 .. n : t[g] \in S
  BY <1>1
<1> HIDE DEF n
<1>3. Len(SubSeq(t, i + 1, n)) = IF i + 1 <= n THEN n - (i + 1) + 1 ELSE 0
  BY <1>1, <1>2, SubSeqProperties
<1>4. h \in Nat /\ 1 <= h /\ h <= n - i
  BY <1>1, <1>3
<1>5. Slice(t, i, j)[h] = t[i + h]
  BY SliceProperties
<1> QED  BY <1>1, <1>4, <1>5

LEMMA SliceOne ==
    ASSUME NEW S, NEW t \in Seq(S), NEW i \in Nat, NEW j \in Nat, j = i + 1, j <= Len(t)
    PROVE  Slice(t, i, j) = <<t[j]>>
<1>0. i <= j
  OBVIOUS
<1>1. /\ Slice(t, i, j) \in Seq(S) /\ Len(Slice(t, i, j)) = j - i
      /\ \A h \in 1 .. j - i : Slice(t, i, j)[h] = t[i + h]
  BY <1>0, SliceLen, Zenon
<1>2. Len(Slice(t, i, j)) = 1 /\ Slice(t, i, j)[1] = t[j]
  BY <1>1
<1> HIDE DEF Slice
<1> QED  BY <1>1, <1>2

LEMMA SliceCut ==
    ASSUME NEW S, NEW t \in Seq(S), NEW k \in Nat, k <= Len(t)
    PROVE  /\ t = Slice(t, 0, k) \o Slice(t, k, Len(t))
           /\ Slice(t, 0, k) \in Seq(S) /\ Slice(t, k, Len(t)) \in Seq(S)
           /\ Len(Slice(t, 0, k)) = k /\ Len(Slice(t, k, Len(t))) = Len(t) - k
<1> DEFINE i == 0  n == Len(t)
<1>1. i \in Nat /\ n \in Nat /\ i <= k /\ k <= n /\ n <= Len(t)
  OBVIOUS
<1>2. Slice(t, i, n) = t
  BY SliceFull
<1> HIDE DEF i, n
<1>3. Slice(t, i, n) = Slice(t, i, k) \o Slice(t, k, n)
  BY <1>1, SliceSplit
<1>4. Slice(t, k, n) \in Seq(S) /\ Len(Slice(t, k, n)) = n - k
  BY <1>1, SliceLen
<1>5. Slice(t, i, k) \in Seq(S) /\ Len(Slice(t, i, k)) = k
  BY SlicePrefix DEF i
<1> QED  BY <1>2, <1>3, <1>4, <1>5 DEF i, n

LEMMA SliceGrow ==
    ASSUME NEW S, NEW t \in Seq(S), NEW i \in Nat, NEW j \in Nat, i <= j, j <= Len(t)
    PROVE  Slice(t, 0, j) = Slice(t, 0, i) \o Slice(t, i, j)
<1> DEFINE z == 0
<1>1. z \in Nat /\ z <= i
  OBVIOUS
<1> HIDE DEF z
<1>2. Slice(t, z, j) = Slice(t, z, i) \o Slice(t, i, j)
  BY <1>1, SliceSplit
<1> QED  BY <1>2 DEF z

(* What comes before a symbol, the symbol, and what comes after it. *)
LEMMA SliceAround ==
    ASSUME NEW S, NEW t \in Seq(S), NEW i \in Nat, NEW j \in Nat, j = i + 1, j <= Len(t)
    PROVE  /\ t = (Slice(t, 0, i) \o <<t[j]>>) \o Slice(t, j, Len(t))
           /\ Slice(t, 0, i) \in Seq(S) /\ Slice(t, j, Len(t)) \in Seq(S) /\ t[j] \in S
<1>0. i <= j /\ i <= Len(t) /\ j \in 1 .. Len(t)
  OBVIOUS
<1>1. Slice(t, 0, j) = Slice(t, 0, i) \o Slice(t, i, j)
  BY <1>0, SliceGrow
<1>2. Slice(t, i, j) = <<t[j]>>
  BY SliceOne
<1>3. t = Slice(t, 0, j) \o Slice(t, j, Len(t)) /\ Slice(t, j, Len(t)) \in Seq(S)
  BY SliceCut
<1>4. Slice(t, 0, i) \in Seq(S)
  BY <1>0, SliceCut
<1>5. t[j] \in S
  BY <1>0
<1> QED  BY <1>1, <1>2, <1>3, <1>4, <1>5

LEMMA Amid ==
    ASSUME NEW S, NEW t \in Seq(S), NEW x \in S, NEW u \in Seq(S)
    PROVE  /\ (t \o <<x>>) \o u \in Seq(S) /\ Len(t) + 1 \in 1 .. Len((t \o <<x>>) \o u)
           /\ ((t \o <<x>>) \o u)[Len(t) + 1] = x
<1> DEFINE y == <<x>>
<1>1. y \in Seq(S) /\ Len(y) = 1 /\ y[1] = x
  OBVIOUS
<1> HIDE DEF y
<1> DEFINE v == t \o y
<1>2. v \in Seq(S) /\ Len(v) = Len(t) + 1
  <2>1. v \in Seq(S) /\ Len(v) = Len(t) + Len(y)
    BY <1>1, ConcatProperties
  <2> QED  BY <1>1, <2>1
<1>3. v[Len(t) + 1] = x
  <2>1. \A i \in 1 .. Len(t) + Len(y) : v[i] = IF i <= Len(t) THEN t[i] ELSE y[i - Len(t)]
    BY <1>1, ConcatProperties
  <2> HIDE DEF v
  <2>2. Len(t) + 1 \in 1 .. Len(t) + Len(y) /\ ~ (Len(t) + 1 <= Len(t)) /\ Len(t) + 1 - Len(t) = 1
    BY <1>1
  <2> QED  BY <1>1, <2>1, <2>2
<1> HIDE DEF v
<1>4. v \o u \in Seq(S) /\ Len(v \o u) = Len(v) + Len(u)
  BY <1>2, ConcatProperties
<1>5. \A i \in 1 .. Len(v) + Len(u) : (v \o u)[i] = IF i <= Len(v) THEN v[i] ELSE u[i - Len(v)]
  BY <1>2, ConcatProperties
<1>6. Len(t) + 1 \in 1 .. Len(v) + Len(u) /\ Len(t) + 1 <= Len(v)
  BY <1>2
<1>7. (v \o u)[Len(t) + 1] = x
  BY <1>3, <1>5, <1>6
<1> QED  BY <1>4, <1>6, <1>7 DEF v, y

(* A text begun like another has the same slices as far as that. *)
LEMMA SliceLike ==
    ASSUME NEW S, NEW t \in Seq(S), NEW u \in Seq(S), NEW k \in Nat,
           k <= Len(t), k <= Len(u), Slice(t, 0, k) = Slice(u, 0, k),
           NEW i \in Nat, NEW j \in Nat, i <= j, j <= k
    PROVE  Slice(t, i, j) = Slice(u, i, j)
<1>1. /\ \A h \in 1 .. k : Slice(t, 0, k)[h] = t[h]
      /\ \A h \in 1 .. k : Slice(u, 0, k)[h] = u[h]
  BY SlicePrefix
<1>2. \A h \in 1 .. k : t[h] = u[h]
  BY <1>1
<1>3. /\ Slice(t, i, j) \in Seq(S) /\ Len(Slice(t, i, j)) = j - i
      /\ Slice(u, i, j) \in Seq(S) /\ Len(Slice(u, i, j)) = j - i
      /\ \A h \in 1 .. j - i : Slice(t, i, j)[h] = t[i + h]
      /\ \A h \in 1 .. j - i : Slice(u, i, j)[h] = u[i + h]
  <2>1. j <= Len(t) /\ j <= Len(u)
    OBVIOUS
  <2> QED  BY <2>1, SliceLen
<1>4. \A h \in 1 .. j - i : i + h \in 1 .. k
  OBVIOUS
<1>5. \A h \in 1 .. Len(Slice(t, i, j)) : Slice(t, i, j)[h] = Slice(u, i, j)[h]
  BY <1>2, <1>3, <1>4
<1> QED  BY <1>3, <1>5, SeqEqual

LEMMA SliceConcat ==
    ASSUME NEW S, NEW t \in Seq(S), NEW u \in Seq(S)
    PROVE  /\ Slice(t \o u, 0, Len(t)) = t
           /\ Slice(t \o u, Len(t), Len(t \o u)) = u
<1>0. t \o u \in Seq(S) /\ Len(t \o u) = Len(t) + Len(u)
  BY ConcatProperties
<1>1. Slice(t \o u, 0, Len(t)) = t
  <2> DEFINE v == t \o u  n == Len(t)
  <2>1. v \in Seq(S) /\ n \in Nat /\ n <= Len(v)
    BY <1>0
  <2>2. \A h \in 1 .. n : v[h] = t[h]
    BY ConcatProperties
  <2> HIDE DEF v
  <2>3. Slice(v, 0, n) \in Seq(S) /\ Len(Slice(v, 0, n)) = n /\ \A h \in 1 .. n : Slice(v, 0, n)[h] = v[h]
    BY <2>1, SlicePrefix
  <2>4. \A h \in 1 .. n : Slice(v, 0, n)[h] = t[h]
    BY <2>1, <2>2, <2>3
  <2>5. Slice(v, 0, n) = t
    BY <2>3, <2>4, SeqEqual
  <2> QED  BY <2>5 DEF v
<1>2. Slice(t \o u, Len(t), Len(t \o u)) = u
  <2> DEFINE v == t \o u  n == Len(t)  m == Len(v)
  <2>1. v \in Seq(S) /\ n \in Nat /\ m \in Nat /\ n <= m /\ m - n = Len(u) /\ m <= Len(v)
    BY <1>0
  <2>2. \A h \in 1 .. Len(u) : v[n + h] = u[h]
    BY ConcatProperties
  <2> HIDE DEF v, m
  <2>3. /\ Slice(v, n, m) \in Seq(S) /\ Len(Slice(v, n, m)) = m - n
        /\ \A h \in 1 .. m - n : Slice(v, n, m)[h] = v[n + h]
    BY <2>1, SliceLen
  <2>4. \A h \in 1 .. Len(u) : Slice(v, n, m)[h] = u[h]
    BY <2>1, <2>2, <2>3
  <2>5. Slice(v, n, m) = u
    BY <2>1, <2>3, <2>4, SeqEqual
  <2> QED  BY <2>5 DEF v, m
<1> QED  BY <1>1, <1>2

LEMMA SpliceType ==
    ASSUME NEW S, NEW t \in Seq(S), NEW i \in Nat, NEW j \in Nat, NEW u \in Seq(S)
    PROVE  Splice(t, i, j, u) \in Seq(S)
<1>1. Slice(t, 0, i) \in Seq(S) /\ Slice(t, j, Len(t)) \in Seq(S)
  BY SliceProperties
<1> QED  BY <1>1, ConcatProperties DEF Splice

-----------------------------------------------------------------------------
(* FlattenSeq: the recursive function it is made of exists, and what it is    *)
(* at the last position is the concatenation of the pieces.                   *)

Joined(p) ==
    CHOOSE f : f = [i \in 1 .. Len(p) |-> IF i = 1 THEN p[i] ELSE f[i - 1] \o p[i]]

LEMMA JoinedIsIt ==
    ASSUME NEW S, NEW p \in Seq(Seq(S)), Len(p) # 0
    PROVE  FlattenSeq(p) = Joined(p)[Len(p)]
BY DEF FlattenSeq, Joined

LEMMA JoinedExists ==
    ASSUME NEW S, NEW p \in Seq(Seq(S))
    PROVE  \A i \in 1 .. Len(p) :
               Joined(p)[i] = IF i = 1 THEN p[i] ELSE Joined(p)[i - 1] \o p[i]
<1> DEFINE Upto(f, n) == f = [i \in 1 .. n |-> IF i = 1 THEN p[i] ELSE f[i - 1] \o p[i]]
           T == {n \in 0 .. Len(p) : \E f : Upto(f, n)}
<1>1. 0 \in T
  <2>1. Upto([i \in 1 .. 0 |-> p[i]], 0) /\ 0 \in 0 .. Len(p)
    OBVIOUS
  <2> HIDE DEF Upto
  <2> QED  BY <2>1
<1>2. ASSUME NEW n \in 0 .. Len(p) - 1, n \in T PROVE n + 1 \in T
  <2>1. PICK f : Upto(f, n)
    BY <1>2
  <2>6. \A i \in 1 .. n : f[i] = IF i = 1 THEN p[i] ELSE f[i - 1] \o p[i]
    BY <2>1
  <2> DEFINE g == [i \in 1 .. n + 1 |-> IF i <= n THEN f[i]
                                       ELSE IF i = 1 THEN p[i] ELSE f[i - 1] \o p[i]]
  <2>2. ASSUME NEW i \in 1 .. n + 1
        PROVE  g[i] = IF i = 1 THEN p[i] ELSE g[i - 1] \o p[i]
    <3>1. i # 1 => i - 1 \in 1 .. n /\ g[i - 1] = f[i - 1]
      OBVIOUS
    <3>2. i <= n => f[i] = IF i = 1 THEN p[i] ELSE f[i - 1] \o p[i]
      <4>1. i <= n => i \in 1 .. n
        OBVIOUS
      <4> HIDE DEF g
      <4> QED  BY <2>6, <4>1
    <3> QED  BY <3>1, <3>2
  <2>3. g = [i \in 1 .. n + 1 |-> g[i]]
    OBVIOUS
  <2> HIDE DEF g
  <2>4. Upto(g, n + 1)
    BY <2>2, <2>3
  <2>5. n + 1 \in 0 .. Len(p)
    OBVIOUS
  <2> QED  BY <2>4, <2>5
<1>3. Len(p) \in T
  <2>1. Len(p) \in Nat /\ Len(p) \in 0 .. Len(p)
    OBVIOUS
  <2> HIDE DEF T
  <2> QED  BY <1>1, <1>2, <2>1, UpTo
<1>4. \E f : Upto(f, Len(p))
  BY <1>3
<1>5. Upto(Joined(p), Len(p))
  BY <1>4 DEF Joined
<1> QED  BY <1>5

LEMMA JoinedType ==
    ASSUME NEW S, NEW p \in Seq(Seq(S))
    PROVE  \A i \in 1 .. Len(p) : Joined(p)[i] \in Seq(S)
<1> DEFINE T == {n \in 0 .. Len(p) : n # 0 => Joined(p)[n] \in Seq(S)}
<1>1. ASSUME NEW n \in 0 .. Len(p) - 1, n \in T PROVE n + 1 \in T
  <2>1. n + 1 \in 1 .. Len(p) /\ p[n + 1] \in Seq(S) /\ n + 1 - 1 = n /\ n + 1 \in 0 .. Len(p)
    OBVIOUS
  <2>2. Joined(p)[n + 1] = IF n + 1 = 1 THEN p[n + 1] ELSE Joined(p)[n] \o p[n + 1]
    BY <2>1, JoinedExists
  <2>3. n # 0 => Joined(p)[n] \in Seq(S) /\ n + 1 # 1
    BY <1>1
  <2>4. Joined(p)[n + 1] \in Seq(S)
    <3>1. CASE n = 0
      BY <3>1, <2>1, <2>2
    <3>2. CASE n # 0
      BY <3>2, <2>1, <2>2, <2>3, ConcatProperties
    <3> QED  BY <3>1, <3>2
  <2> QED  BY <2>1, <2>4
<1>2. 0 \in T /\ Len(p) \in Nat
  OBVIOUS
<1>3. 0 .. Len(p) \subseteq T
  <2> HIDE DEF T
  <2> QED  BY <1>1, <1>2, UpTo
<1> QED  BY <1>3

LEMMA FlattenType ==
    ASSUME NEW S, NEW p \in Seq(Seq(S))
    PROVE  FlattenSeq(p) \in Seq(S)
<1>1. CASE Len(p) = 0
  <2>1. p = <<>>
    BY <1>1, EmptySeq
  <2> QED  BY <1>1, <2>1 DEF FlattenSeq
<1>2. CASE Len(p) # 0
  BY <1>2, JoinedIsIt, JoinedType
<1> QED  BY <1>1, <1>2

LEMMA FlattenEmpty == FlattenSeq(<<>>) = <<>>
BY DEF FlattenSeq

LEMMA FlattenAppend ==
    ASSUME NEW S, NEW p \in Seq(Seq(S)), NEW x \in Seq(S)
    PROVE  FlattenSeq(p \o <<x>>) = FlattenSeq(p) \o x
<1> DEFINE q == p \o <<x>>  N == Len(p)
<1>1. /\ <<x>> \in Seq(Seq(S)) /\ q \in Seq(Seq(S)) /\ N \in Nat /\ Len(q) = N + 1
      /\ q[N + 1] = x /\ \A i \in 1 .. N : q[i] = p[i]
  BY ConcatProperties
<1> HIDE DEF q
<1>2. FlattenSeq(q) = Joined(q)[N + 1]
  BY <1>1, JoinedIsIt
<1>3. Joined(q)[N + 1] = IF N + 1 = 1 THEN q[N + 1] ELSE Joined(q)[N] \o q[N + 1]
  <2> DEFINE M == N + 1
  <2>1. M \in 1 .. Len(q) /\ M - 1 = N
    BY <1>1
  <2> HIDE DEF M
  <2>2. Joined(q)[M] = IF M = 1 THEN q[M] ELSE Joined(q)[M - 1] \o q[M]
    BY <1>1, <2>1, JoinedExists
  <2> QED  BY <2>1, <2>2 DEF M
<1>4. CASE N = 0
  <2>1. p = <<>>
    BY <1>4, EmptySeq
  <2> QED  BY <1>1, <1>2, <1>3, <1>4, <2>1, FlattenEmpty, ConcatEmptySeq DEF q
<1>5. CASE N # 0
  <2> DEFINE T == {n \in 0 .. N : n # 0 => Joined(q)[n] = Joined(p)[n]}
  <2>1. ASSUME NEW n \in 0 .. N - 1, n \in T PROVE n + 1 \in T
    <3>4. n + 1 \in 1 .. N /\ n + 1 - 1 = n /\ n + 1 \in 0 .. N
      BY <1>1
    <3>1. n + 1 \in 1 .. Len(q) /\ n + 1 \in 1 .. Len(p) /\ n + 1 - 1 = n /\ q[n + 1] = p[n + 1]
      BY <1>1, <3>4
    <3> DEFINE m == n + 1
    <3>8. m \in 1 .. Len(q) /\ m \in 1 .. Len(p) /\ m - 1 = n
      BY <3>1
    <3> HIDE DEF m
    <3>2. Joined(q)[n + 1] = IF n + 1 = 1 THEN q[n + 1] ELSE Joined(q)[n] \o q[n + 1]
      <4>1. Joined(q)[m] = IF m = 1 THEN q[m] ELSE Joined(q)[m - 1] \o q[m]
        BY <1>1, <3>8, JoinedExists
      <4> QED  BY <3>8, <4>1 DEF m
    <3>3. Joined(p)[n + 1] = IF n + 1 = 1 THEN p[n + 1] ELSE Joined(p)[n] \o p[n + 1]
      <4>1. Joined(p)[m] = IF m = 1 THEN p[m] ELSE Joined(p)[m - 1] \o p[m]
        BY <3>8, JoinedExists
      <4> QED  BY <3>8, <4>1 DEF m
    <3>5. n # 0 => Joined(q)[n] = Joined(p)[n]
      BY <2>1
    <3>6. n = 0 \/ n + 1 # 1
      OBVIOUS
    <3>7. Joined(q)[n + 1] = Joined(p)[n + 1]
      BY <3>1, <3>2, <3>3, <3>5, <3>6
    <3> QED  BY <3>4, <3>7
  <2>2. 0 \in T
    BY <1>1 DEF T
  <2>3. N \in T
    <3> HIDE DEF T
    <3>1. 0 .. N \subseteq T
      BY <1>1, <2>1, <2>2, UpTo
    <3> QED  BY <1>1, <3>1
  <2>4. FlattenSeq(p) = Joined(p)[N]
    BY <1>5, JoinedIsIt
  <2>5. N + 1 # 1
    BY <1>1, <1>5
  <2>6. Joined(q)[N] = Joined(p)[N]
    BY <1>5, <2>3
  <2>7. FlattenSeq(q) = FlattenSeq(p) \o x
    BY <1>1, <1>2, <1>3, <2>4, <2>5, <2>6
  <2> QED  BY <2>7 DEF q
<1> QED  BY <1>4, <1>5

LEMMA FlattenConcat ==
    ASSUME NEW S, NEW p \in Seq(Seq(S)), NEW q \in Seq(Seq(S))
    PROVE  FlattenSeq(p \o q) = FlattenSeq(p) \o FlattenSeq(q)
<1> DEFINE Good(n) == FlattenSeq(p \o SubSeq(q, 1, n)) = FlattenSeq(p) \o FlattenSeq(SubSeq(q, 1, n))
           T == {n \in 0 .. Len(q) : Good(n)}
<1>1. 0 \in T
  <2>1. SubSeq(q, 1, 0) = <<>>
    BY SubSeqEmpty
  <2>2. p \o <<>> = p /\ FlattenSeq(p) \o <<>> = FlattenSeq(p)
    BY ConcatEmptySeq, FlattenType
  <2>3. Good(0)
    BY <2>1, <2>2, FlattenEmpty, Zenon
  <2>4. 0 \in 0 .. Len(q)
    OBVIOUS
  <2> HIDE DEF Good
  <2> QED  BY <2>3, <2>4
<1>2. ASSUME NEW n \in 0 .. Len(q) - 1, n \in T PROVE n + 1 \in T
  <2> DEFINE r == SubSeq(q, 1, n)  x == q[n + 1]
  <2>1. n + 1 \in 1 .. Len(q) /\ 1 \in 1 .. Len(q) /\ n + 1 - 1 = n /\ x \in Seq(S)
    OBVIOUS
  <2>2. SubSeq(q, 1, n + 1) = r \o <<x>>
    <3>1. n + 1 \in 1 .. Len(q)
      BY <2>1
    <3> QED  BY <2>1, <3>1, SubSeqRecursiveSecond
  <2>3. r \in Seq(Seq(S))
    OBVIOUS
  <2>11. <<x>> \in Seq(Seq(S))
    BY <2>1
  <2> HIDE DEF r, x
  <2>12. FlattenSeq(p) \in Seq(S) /\ FlattenSeq(r) \in Seq(S)
    BY <2>3, FlattenType
  <2>4. FlattenSeq(p \o r) = FlattenSeq(p) \o FlattenSeq(r)
    BY <1>2 DEF r
  <2>5. p \o (r \o <<x>>) = (p \o r) \o <<x>>
    BY <2>3, <2>11, ConcatAssociative
  <2>6. p \o r \in Seq(Seq(S))
    BY <2>3, ConcatProperties
  <2>7. FlattenSeq((p \o r) \o <<x>>) = FlattenSeq(p \o r) \o x
    BY <2>1, <2>6, FlattenAppend
  <2>8. FlattenSeq(r \o <<x>>) = FlattenSeq(r) \o x
    BY <2>1, <2>3, FlattenAppend
  <2>9. (FlattenSeq(p) \o FlattenSeq(r)) \o x = FlattenSeq(p) \o (FlattenSeq(r) \o x)
    <3>1. x \in Seq(S)
      BY <2>1
    <3> DEFINE a == FlattenSeq(p)  b == FlattenSeq(r)
    <3>2. a \in Seq(S) /\ b \in Seq(S)
      BY <2>12
    <3> HIDE DEF a, b
    <3>3. (a \o b) \o x = a \o (b \o x)
      BY <3>1, <3>2, ConcatAssociative
    <3> QED  BY <3>3 DEF a, b
  <2>10. Good(n + 1)
    BY <2>2, <2>4, <2>5, <2>7, <2>8, <2>9
  <2>13. n + 1 \in 0 .. Len(q)
    BY <2>1
  <2> HIDE DEF Good
  <2> QED  BY <2>10, <2>13
<1>3. Len(q) \in T
  <2>1. Len(q) \in Nat /\ Len(q) \in 0 .. Len(q)
    OBVIOUS
  <2> HIDE DEF T
  <2> QED  BY <1>1, <1>2, <2>1, UpTo
<1>4. SubSeq(q, 1, Len(q)) = q
  BY SubSeqFull
<1> QED  BY <1>3, <1>4

LEMMA FlattenOne ==
    ASSUME NEW S, NEW x \in Seq(S)
    PROVE  FlattenSeq(<<x>>) = x
<1>1. <<>> \o <<x>> = <<x>> /\ <<>> \o x = x
  BY ConcatEmptySeq
<1>2. <<>> \in Seq(Seq(S))
  OBVIOUS
<1> QED  BY <1>1, <1>2, FlattenAppend, FlattenEmpty

(* Pieces of one symbol each. *)
LEMMA FlattenSingletons ==
    ASSUME NEW S, NEW r \in Seq(S)
    PROVE  FlattenSeq([i \in 1 .. Len(r) |-> <<r[i]>>]) = r
<1> DEFINE q == [i \in 1 .. Len(r) |-> <<r[i]>>]
           Good(n) == FlattenSeq(SubSeq(q, 1, n)) = SubSeq(r, 1, n)
           T == {n \in 0 .. Len(r) : Good(n)}
<1>0. q \in Seq(Seq(S)) /\ Len(q) = Len(r) /\ \A i \in 1 .. Len(r) : q[i] = <<r[i]>>
  OBVIOUS
<1>1. 0 \in T
  <2>1. SubSeq(q, 1, 0) = <<>> /\ SubSeq(r, 1, 0) = <<>>
    BY SubSeqEmpty
  <2> HIDE DEF q
  <2>2. Good(0)
    BY <2>1, FlattenEmpty, Zenon
  <2>3. 0 \in 0 .. Len(r)
    OBVIOUS
  <2> HIDE DEF Good
  <2> QED  BY <2>2, <2>3
<1>2. ASSUME NEW n \in 0 .. Len(r) - 1, n \in T PROVE n + 1 \in T
  <2>1. n + 1 \in 1 .. Len(r) /\ 1 \in 1 .. Len(r) /\ n + 1 - 1 = n
    OBVIOUS
  <2> HIDE DEF q
  <2>2. SubSeq(q, 1, n + 1) = SubSeq(q, 1, n) \o <<q[n + 1]>>
    BY <1>0, <2>1, SubSeqRecursiveSecond
  <2>3. SubSeq(r, 1, n + 1) = SubSeq(r, 1, n) \o <<r[n + 1]>>
    BY <2>1, SubSeqRecursiveSecond
  <2>4. SubSeq(q, 1, n) \in Seq(Seq(S)) /\ q[n + 1] \in Seq(S)
    BY <1>0, <2>1
  <2>5. FlattenSeq(SubSeq(q, 1, n) \o <<q[n + 1]>>) = FlattenSeq(SubSeq(q, 1, n)) \o q[n + 1]
    BY <2>4, FlattenAppend
  <2>6. q[n + 1] = <<r[n + 1]>>
    BY <1>0, <2>1
  <2>7. Good(n)
    BY <1>2
  <2>8. Good(n + 1)
    BY <2>2, <2>3, <2>5, <2>6, <2>7, Zenon
  <2>9. n + 1 \in 0 .. Len(r)
    BY <2>1
  <2> HIDE DEF Good
  <2> QED  BY <2>8, <2>9
<1>3. Len(r) \in T
  <2>1. Len(r) \in Nat /\ Len(r) \in 0 .. Len(r)
    OBVIOUS
  <2> HIDE DEF T
  <2> QED  BY <1>1, <1>2, <2>1, UpTo
<1>4. SubSeq(q, 1, Len(r)) = q /\ SubSeq(r, 1, Len(r)) = r
  BY <1>0, SubSeqFull
<1> HIDE DEF q
<1> QED  BY <1>3, <1>4 DEF q

(* No piece is empty. *)
LEMMA FlattenLength ==
    ASSUME NEW S, NEW p \in Seq(Seq(S)), \A i \in 1 .. Len(p) : p[i] # <<>>
    PROVE  Len(p) <= Len(FlattenSeq(p))
<1> DEFINE Good(n) == n <= Len(FlattenSeq(SubSeq(p, 1, n)))
           T == {n \in 0 .. Len(p) : Good(n)}
<1>1. 0 \in T
  <2>1. SubSeq(p, 1, 0) = <<>>
    BY SubSeqEmpty
  <2>2. Good(0) /\ 0 \in 0 .. Len(p)
    BY <2>1, FlattenEmpty
  <2> HIDE DEF Good
  <2> QED  BY <2>2
<1>2. ASSUME NEW n \in 0 .. Len(p) - 1, n \in T PROVE n + 1 \in T
  <2> DEFINE r == SubSeq(p, 1, n)  x == p[n + 1]  a == FlattenSeq(r)
  <2>1. n + 1 \in 1 .. Len(p) /\ 1 \in 1 .. Len(p) /\ n + 1 - 1 = n
        /\ x \in Seq(S) /\ x # <<>> /\ r \in Seq(Seq(S))
    OBVIOUS
  <2>2. SubSeq(p, 1, n + 1) = r \o <<x>>
    BY <2>1, SubSeqRecursiveSecond
  <2>3. n <= Len(a)
    BY <1>2
  <2> HIDE DEF r, x
  <2>4. FlattenSeq(r \o <<x>>) = a \o x /\ a \in Seq(S)
    BY <2>1, FlattenAppend, FlattenType
  <2> HIDE DEF a
  <2>5. Len(x) \in Nat /\ Len(x) >= 1
    BY <2>1, EmptySeq
  <2>6. Len(a \o x) = Len(a) + Len(x) /\ Len(a) \in Nat
    BY <2>1, <2>4, ConcatProperties
  <2>7. n + 1 <= Len(a \o x)
    BY <2>3, <2>5, <2>6
  <2>8. Good(n + 1)
    BY <2>2, <2>4, <2>7, Zenon
  <2>9. n + 1 \in 0 .. Len(p)
    BY <2>1
  <2> HIDE DEF Good
  <2> QED  BY <2>8, <2>9
<1>3. Len(p) \in T
  <2>1. Len(p) \in Nat /\ Len(p) \in 0 .. Len(p)
    OBVIOUS
  <2> HIDE DEF T
  <2> QED  BY <1>1, <1>2, <2>1, UpTo
<1>4. SubSeq(p, 1, Len(p)) = p
  BY SubSeqFull
<1> QED  BY <1>3, <1>4

-----------------------------------------------------------------------------
(* A text with each symbol x of it replaced by f[x]: what str.lower() and the *)
(* exchange of tokens have in common.                                         *)

Pieces(t, f) == [i \in DOMAIN t |-> f[t[i]]]
Mapped(t, f) == FlattenSeq(Pieces(t, f))

LEMMA PiecesLen ==
    ASSUME NEW S, NEW t \in Seq(S), NEW f
    PROVE  Len(Pieces(t, f)) = Len(t) /\ \A i \in 1 .. Len(t) : Pieces(t, f)[i] = f[t[i]]
BY DEF Pieces

LEMMA PiecesType ==
    ASSUME NEW S, NEW R, NEW t \in Seq(S), NEW f, \A x \in S : f[x] \in Seq(R)
    PROVE  Pieces(t, f) \in Seq(Seq(R))
<1>1. DOMAIN t = 1 .. Len(t) /\ Len(t) \in Nat /\ \A i \in 1 .. Len(t) : f[t[i]] \in Seq(R)
  OBVIOUS
<1>2. Pieces(t, f) \in [1 .. Len(t) -> Seq(R)]
  BY <1>1 DEF Pieces
<1> QED  BY <1>1, <1>2

LEMMA MappedType ==
    ASSUME NEW S, NEW R, NEW t \in Seq(S), NEW f, \A x \in S : f[x] \in Seq(R)
    PROVE  Mapped(t, f) \in Seq(R)
<1> DEFINE p == Pieces(t, f)
<1>1. p \in Seq(Seq(R))
  BY PiecesType
<1> HIDE DEF p
<1>2. FlattenSeq(p) \in Seq(R)
  BY <1>1, FlattenType
<1> QED  BY <1>2 DEF p, Mapped

LEMMA MappedConcat ==
    ASSUME NEW S, NEW R, NEW t \in Seq(S), NEW u \in Seq(S), NEW f, \A x \in S : f[x] \in Seq(R)
    PROVE  Mapped(t \o u, f) = Mapped(t, f) \o Mapped(u, f)
<1> DEFINE v == t \o u  m == Len(t)  n == Len(u)
           p == Pieces(t, f)  q == Pieces(u, f)  r == Pieces(v, f)
<1>1. /\ v \in Seq(S) /\ Len(v) = m + n /\ m \in Nat /\ n \in Nat
      /\ \A i \in 1 .. m + n : v[i] = IF i <= m THEN t[i] ELSE u[i - m]
  BY ConcatProperties
<1> HIDE DEF v
<1>2. /\ Len(p) = m /\ \A i \in 1 .. m : p[i] = f[t[i]]
      /\ Len(q) = n /\ \A i \in 1 .. n : q[i] = f[u[i]]
  BY PiecesLen
<1>9. p \in Seq(Seq(R))
  BY PiecesType
<1>10. q \in Seq(Seq(R))
  BY PiecesType
<1>3. r \in Seq(Seq(R)) /\ Len(r) = m + n /\ \A i \in 1 .. m + n : r[i] = f[v[i]]
  <2>1. Len(r) = Len(v) /\ \A i \in 1 .. Len(v) : r[i] = f[v[i]]
    BY <1>1, PiecesLen
  <2>2. r \in Seq(Seq(R))
    BY <1>1, PiecesType
  <2> QED  BY <1>1, <2>1, <2>2
<1>4. Mapped(t, f) = FlattenSeq(p) /\ Mapped(u, f) = FlattenSeq(q) /\ Mapped(v, f) = FlattenSeq(r)
  BY DEF Mapped
<1> HIDE DEF p, q, r, m, n
<1>5. /\ p \o q \in Seq(Seq(R)) /\ Len(p \o q) = m + n
      /\ \A i \in 1 .. m + n : (p \o q)[i] = IF i <= m THEN p[i] ELSE q[i - m]
  <2>1. /\ p \o q \in Seq(Seq(R)) /\ Len(p \o q) = Len(p) + Len(q)
        /\ \A i \in 1 .. Len(p) + Len(q) :
               (p \o q)[i] = IF i <= Len(p) THEN p[i] ELSE q[i - Len(p)]
    BY <1>9, <1>10, ConcatProperties
  <2> QED  BY <1>2, <2>1
<1>6. ASSUME NEW i \in 1 .. m + n PROVE r[i] = (p \o q)[i]
  <2>0. i <= m => i \in 1 .. m
    BY <1>1
  <2>1. CASE i <= m
    <3>1. v[i] = t[i] /\ (p \o q)[i] = p[i] /\ i \in 1 .. m
      BY <1>1, <1>5, <2>1
    <3> QED  BY <1>2, <1>3, <3>1
  <2>2. CASE ~ (i <= m)
    <3>1. v[i] = u[i - m] /\ (p \o q)[i] = q[i - m] /\ i - m \in 1 .. n
      BY <1>1, <1>5, <2>2
    <3> QED  BY <1>2, <1>3, <3>1
  <2> QED  BY <2>1, <2>2
<1>7. r = p \o q
  <2> DEFINE w == p \o q
  <2>1. w \in Seq(Seq(R)) /\ Len(w) = Len(r) /\ \A i \in 1 .. Len(r) : r[i] = w[i]
    BY <1>3, <1>5, <1>6
  <2> HIDE DEF w
  <2>2. r = w
    BY <1>3, <2>1, SeqEqual
  <2> QED  BY <2>2 DEF w
<1>8. FlattenSeq(p \o q) = FlattenSeq(p) \o FlattenSeq(q)
  BY <1>9, <1>10, FlattenConcat
<1> QED  BY <1>4, <1>7, <1>8 DEF v

LEMMA MappedOne ==
    ASSUME NEW S, NEW R, NEW x \in S, NEW f, f[x] \in Seq(R)
    PROVE  Mapped(<<x>>, f) = f[x]
<1> DEFINE y == f[x]
<1>1. Pieces(<<x>>, f) = <<y>> /\ y \in Seq(R)
  BY DEF Pieces
<1> HIDE DEF y
<1>2. Mapped(<<x>>, f) = FlattenSeq(<<y>>)
  BY <1>1 DEF Mapped
<1> QED  BY <1>1, <1>2, FlattenOne DEF y

LEMMA MappedLength ==
    ASSUME NEW S, NEW R, NEW t \in Seq(S), NEW f, \A x \in S : f[x] \in Seq(R),
           \A i \in 1 .. Len(t) : f[t[i]] # <<>>
    PROVE  Len(t) <= Len(Mapped(t, f))
<1> DEFINE p == Pieces(t, f)
<1>1. p \in Seq(Seq(R)) /\ Len(p) = Len(t) /\ \A i \in 1 .. Len(t) : p[i] = f[t[i]]
  BY PiecesType, PiecesLen
<1>2. Mapped(t, f) = FlattenSeq(p)
  BY DEF Mapped
<1> HIDE DEF p
<1>3. \A i \in 1 .. Len(p) : p[i] # <<>>
  BY <1>1
<1> QED  BY <1>1, <1>2, <1>3, FlattenLength
-----------------------------------------------------------------------------
(* The symbols of texts and of prompts *)

Chars == Symbols \cup Token

LEMMA SymbolFacts ==
    /\ Letters \subseteq Symbols /\ Symbols \subseteq Chars /\ Token \subseteq Chars
    /\ Letters \cap Token = {}
    /\ LeftBracket \in Chars /\ RightBracket \in Chars
    /\ Seq(Letters) \subseteq Seq(Symbols) /\ Seq(Symbols) \subseteq Seq(Chars)
<1>1. /\ Letters \subseteq Symbols /\ Symbols \subseteq Chars /\ Token \subseteq Chars
      /\ LeftBracket \in Chars /\ RightBracket \in Chars
  BY DEF Symbols, Chars
<1>2. Letters \cap Token = {}
  BY RedactionAssumption
<1>3. Seq(Letters) \subseteq Seq(Symbols) /\ Seq(Symbols) \subseteq Seq(Chars)
  BY <1>1
<1> QED  BY <1>1, <1>2, <1>3

LEMMA EntryFacts ==
    /\ Len(Patterns) \in Nat /\ Len(Dictionary) \in Nat
    /\ DOMAIN Patterns = 1 .. Len(Patterns) /\ DOMAIN Dictionary = 1 .. Len(Dictionary)
    /\ \A n \in DOMAIN Patterns :
           /\ Patterns[n].type \in Types /\ Patterns[n].secret \in BOOLEAN
           /\ Patterns[n].value \in Seq(Letters) /\ Patterns[n].value # <<>>
    /\ \A n \in DOMAIN Dictionary :
           /\ Dictionary[n].type \in Types
           /\ Dictionary[n].value \in Seq(Letters) /\ Dictionary[n].value # <<>>
<1> DEFINE V == Seq(Letters) \ {<<>>}
<1>1. /\ Patterns \in Seq([type : Types, value : V, secret : BOOLEAN])
      /\ Dictionary \in Seq([type : Types, value : V])
  BY RedactionAssumption
<1>2. \A v \in V : v \in Seq(Letters) /\ v # <<>>
  OBVIOUS
<1> DEFINE P == [type : Types, value : V, secret : BOOLEAN]  E == [type : Types, value : V]
<1>3. \A x \in P : x.type \in Types /\ x.value \in V /\ x.secret \in BOOLEAN
  OBVIOUS
<1>4. \A x \in E : x.type \in Types /\ x.value \in V
  OBVIOUS
<1> HIDE DEF V, P, E
<1>5. /\ Len(Patterns) \in Nat /\ DOMAIN Patterns = 1 .. Len(Patterns)
      /\ \A n \in DOMAIN Patterns : Patterns[n] \in P
  <2>1. Patterns \in Seq(P)
    BY <1>1 DEF P
  <2> QED  BY <2>1
<1>6. /\ Len(Dictionary) \in Nat /\ DOMAIN Dictionary = 1 .. Len(Dictionary)
      /\ \A n \in DOMAIN Dictionary : Dictionary[n] \in E
  <2>1. Dictionary \in Seq(E)
    BY <1>1 DEF E
  <2> QED  BY <2>1
<1> QED  BY <1>2, <1>3, <1>4, <1>5, <1>6

(* str.lower() position by position: what it makes of one symbol may depend   *)
(* on all the others.                                                        *)
Positions(t) == [i \in 1 .. Len(t) |-> i]
LoweredAt(t) ==
    [i \in 1 .. Len(t) |-> IF t[i] \notin Letters THEN <<t[i]>>
                          ELSE IF EndsWord(t, i) THEN FinalLower[t[i]] ELSE Lower[t[i]]]

LEMMA LowerAsMapped ==
    ASSUME NEW t \in Seq(Chars)
    PROVE  /\ Positions(t) \in Seq(1 .. Len(t)) /\ Len(Positions(t)) = Len(t)
           /\ \A i \in 1 .. Len(t) :
                 /\ Positions(t)[i] = i
                 /\ LoweredAt(t)[i] \in Seq(Chars) /\ LoweredAt(t)[i] # <<>>
                 /\ t[i] \in Letters => LoweredAt(t)[i] \in Seq(Letters)
                 /\ t[i] \notin Letters => LoweredAt(t)[i] = <<t[i]>>
           /\ LowerText(t) = Mapped(Positions(t), LoweredAt(t)) /\ LowerText(t) \in Seq(Chars)
<1>1. Positions(t) \in Seq(1 .. Len(t)) /\ Len(Positions(t)) = Len(t)
      /\ \A i \in 1 .. Len(t) : Positions(t)[i] = i
  BY DEF Positions
<1>2. ASSUME NEW i \in 1 .. Len(t)
      PROVE  /\ LoweredAt(t)[i] \in Seq(Chars) /\ LoweredAt(t)[i] # <<>>
             /\ t[i] \in Letters => LoweredAt(t)[i] \in Seq(Letters)
             /\ t[i] \notin Letters => LoweredAt(t)[i] = <<t[i]>>
  <2>1. CASE t[i] \in Letters
    <3>1. /\ Lower[t[i]] \in Seq(Letters) /\ Lower[t[i]] # <<>>
          /\ FinalLower[t[i]] \in Seq(Letters) /\ FinalLower[t[i]] # <<>>
      <4>1. /\ Lower \in [Letters -> Seq(Letters) \ {<<>>}]
            /\ FinalLower \in [Letters -> Seq(Letters) \ {<<>>}]
        BY RedactionAssumption
      <4> QED  BY <2>1, <4>1
    <3>2. LoweredAt(t)[i] \in {Lower[t[i]], FinalLower[t[i]]}
      BY <2>1 DEF LoweredAt
    <3> QED  BY <2>1, <3>1, <3>2, SymbolFacts
  <2>2. CASE t[i] \notin Letters
    BY <2>2 DEF LoweredAt
  <2> QED  BY <2>1, <2>2
<1>3. LowerText(t) = Mapped(Positions(t), LoweredAt(t))
  <2>1. DOMAIN t = 1 .. Len(t) /\ DOMAIN Positions(t) = 1 .. Len(t)
    BY DEF Positions
  <2>2. Pieces(Positions(t), LoweredAt(t)) = LoweredAt(t)
    BY <1>1, <2>1 DEF Pieces, LoweredAt
  <2> QED  BY <2>1, <2>2 DEF LowerText, Mapped, LoweredAt
<1>4. Mapped(Positions(t), LoweredAt(t)) \in Seq(Chars)
  BY <1>1, <1>2, MappedType
<1> QED  BY <1>1, <1>2, <1>3, <1>4

LEMMA LowerLetters ==
    ASSUME NEW v \in Seq(Letters)
    PROVE  LowerText(v) \in Seq(Letters) /\ Len(v) <= Len(LowerText(v))
<1> DEFINE p == Positions(v)  f == LoweredAt(v)  S == 1 .. Len(v)
<1>1. v \in Seq(Chars) /\ \A i \in S : v[i] \in Letters
  BY SymbolFacts
<1>2. /\ p \in Seq(S) /\ Len(p) = Len(v) /\ LowerText(v) = Mapped(p, f)
      /\ \A i \in S : f[i] \in Seq(Letters) /\ f[i] # <<>> /\ p[i] = i
  BY <1>1, LowerAsMapped
<1> HIDE DEF p, f, S
<1>3. Mapped(p, f) \in Seq(Letters)
  BY <1>2, MappedType
<1>4. Len(p) <= Len(Mapped(p, f))
  <2>1. \A i \in 1 .. Len(p) : f[p[i]] # <<>>
    BY <1>2 DEF S
  <2> QED  BY <1>2, <2>1, MappedLength
<1> QED  BY <1>2, <1>3, <1>4

(* Only letters have letters for their lower case. *)
LEMMA LowerOnlyLetters ==
    ASSUME NEW t \in Seq(Chars), LowerText(t) \in Seq(Letters), NEW i \in 1 .. Len(t)
    PROVE  t[i] \in Letters
<1> SUFFICES ASSUME t[i] \notin Letters PROVE FALSE
    OBVIOUS
<1> DEFINE j == i - 1  S == 1 .. Len(t)  p == Positions(t)  f == LoweredAt(t)
           a == Slice(p, 0, j)  x == <<p[i]>>  b == Slice(p, i, Len(p))
<1>1. /\ p \in Seq(S) /\ Len(p) = Len(t) /\ p[i] = i /\ i \in S
      /\ \A h \in S : f[h] \in Seq(Chars)
      /\ f[i] = <<t[i]>> /\ t[i] \in Chars /\ LowerText(t) = Mapped(p, f)
  BY LowerAsMapped
<1>2. j \in Nat /\ i \in Nat /\ i = j + 1 /\ i <= Len(p)
  BY <1>1
<1> HIDE DEF j, S, p, f
<1>3. p = (a \o x) \o b /\ a \in Seq(S) /\ b \in Seq(S)
  <2>1. p \in Seq(S)
    BY <1>1
  <2> QED  BY <1>2, <2>1, SliceAround
<1>4. x \in Seq(S) /\ Mapped(x, f) = <<t[i]>>
  <2>1. Mapped(<<i>>, f) = f[i]
    BY <1>1, MappedOne
  <2> QED  BY <1>1, <2>1
<1> HIDE DEF a, b, x
<1>5. a \o x \in Seq(S)
  BY <1>3, <1>4, ConcatProperties
<1>11. \A h \in S : f[h] \in Seq(Chars)
  BY <1>1
<1>6. Mapped((a \o x) \o b, f) = Mapped(a \o x, f) \o Mapped(b, f)
  <2> DEFINE y == a \o x
  <2>1. y \in Seq(S) /\ b \in Seq(S)
    BY <1>3, <1>5
  <2> HIDE DEF y
  <2>2. Mapped(y \o b, f) = Mapped(y, f) \o Mapped(b, f)
    BY <1>11, <2>1, MappedConcat
  <2> QED  BY <2>2 DEF y
<1>7. Mapped(a \o x, f) = Mapped(a, f) \o Mapped(x, f)
  <2>1. a \in Seq(S) /\ x \in Seq(S)
    BY <1>3, <1>4
  <2> QED  BY <1>11, <2>1, MappedConcat
<1> DEFINE la == Mapped(a, f)  lb == Mapped(b, f)  c == t[i]
<1>8. LowerText(t) = (la \o <<c>>) \o lb /\ la \in Seq(Chars) /\ lb \in Seq(Chars) /\ c \in Chars
  <2>1. la \in Seq(Chars) /\ lb \in Seq(Chars)
    BY <1>1, <1>3, MappedType
  <2> QED  BY <1>1, <1>3, <1>4, <1>6, <1>7, <2>1
<1>9. c \notin Letters
  OBVIOUS
<1> HIDE DEF la, lb, c
<1>10. /\ Len(la) + 1 \in 1 .. Len((la \o <<c>>) \o lb)
       /\ ((la \o <<c>>) \o lb)[Len(la) + 1] = c
  BY <1>8, Amid
<1> QED  BY <1>8, <1>9, <1>10

(* When no letter gets longer or depends on the others, positions are kept.   *)
Steady(t) ==
    \A i \in 1 .. Len(t) :
        t[i] \in Letters => Len(Lower[t[i]]) = 1 /\ FinalLower[t[i]] = Lower[t[i]]

LEMMA LowerAtLength ==
    ASSUME NEW t \in Seq(Chars), Steady(t)
    PROVE  /\ Len(LowerText(t)) = Len(t)
           /\ \A i \in 1 .. Len(t) :
                  LowerText(t)[i] = IF t[i] \in Letters THEN Lower[t[i]][1] ELSE t[i]
<1> DEFINE u == [i \in 1 .. Len(t) |-> IF t[i] \in Letters THEN Lower[t[i]][1] ELSE t[i]]
<1>1. ASSUME NEW i \in 1 .. Len(t)
      PROVE  /\ (IF t[i] \in Letters THEN Lower[t[i]][1] ELSE t[i]) \in Chars
             /\ LoweredAt(t)[i] = <<IF t[i] \in Letters THEN Lower[t[i]][1] ELSE t[i]>>
  <2>1. CASE t[i] \in Letters
    <3>1. Len(Lower[t[i]]) = 1 /\ LoweredAt(t)[i] = Lower[t[i]]
      BY <2>1 DEF Steady, LoweredAt
    <3>2. Lower[t[i]] \in Seq(Letters)
      BY <2>1, <3>1, LowerAsMapped
    <3>3. Lower[t[i]] = <<Lower[t[i]][1]>> /\ Lower[t[i]][1] \in Letters
      BY <3>1, <3>2
    <3> QED  BY <2>1, <3>1, <3>3, SymbolFacts
  <2>2. CASE t[i] \notin Letters
    BY <2>2, LowerAsMapped
  <2> QED  BY <2>1, <2>2
<1>2. u \in Seq(Chars) /\ Len(u) = Len(t)
  BY <1>1
<1>3. \A i \in 1 .. Len(t) : LoweredAt(t)[i] = <<u[i]>>
  BY <1>1
<1> HIDE DEF u
<1>4. Mapped(Positions(t), LoweredAt(t)) = u
  <2>1. DOMAIN Positions(t) = 1 .. Len(u) /\ \A i \in 1 .. Len(u) : Positions(t)[i] = i
    BY <1>2 DEF Positions
  <2>2. Pieces(Positions(t), LoweredAt(t)) = [i \in 1 .. Len(u) |-> <<u[i]>>]
    BY <1>2, <1>3, <2>1 DEF Pieces
  <2> QED  BY <1>2, <2>2, FlattenSingletons DEF Mapped
<1> QED  BY <1>2, <1>4, LowerAsMapped DEF u

LEMMA LowerSlice ==
    ASSUME NEW t \in Seq(Chars), Steady(t),
           NEW i \in Nat, NEW j \in Nat, i <= j, j <= Len(t)
    PROVE  LowerText(Slice(t, i, j)) = Slice(LowerText(t), i, j)
<1> DEFINE s == Slice(t, i, j)  l == LowerText(t)  n == j - i
<1>1. s \in Seq(Chars) /\ Len(s) = n /\ \A h \in 1 .. n : s[h] = t[i + h]
  BY SliceLen
<1>2. /\ l \in Seq(Chars) /\ Len(l) = Len(t)
      /\ \A h \in 1 .. Len(t) : l[h] = IF t[h] \in Letters THEN Lower[t[h]][1] ELSE t[h]
  BY LowerAtLength, LowerAsMapped
<1>9. j <= Len(l)
  BY <1>2
<1> HIDE DEF l
<1>3. /\ Slice(l, i, j) \in Seq(Chars) /\ Len(Slice(l, i, j)) = n
      /\ \A h \in 1 .. n : Slice(l, i, j)[h] = l[i + h]
  <2>1. l \in Seq(Chars)
    BY <1>2
  <2> HIDE DEF s, n
  <2>2. Slice(l, i, j) \in Seq(Chars) /\ Len(Slice(l, i, j)) = j - i
    BY <1>9, <2>1, SliceLen
  <2>3. \A h \in 1 .. j - i : Slice(l, i, j)[h] = l[i + h]
    BY <1>9, <2>1, SliceLen
  <2> QED  BY <2>2, <2>3 DEF n
<1>4. n \in Nat /\ \A h \in 1 .. n : i + h \in 1 .. Len(t)
  OBVIOUS
<1> HIDE DEF s, n
<1>5. Steady(s)
  BY <1>1, <1>4 DEF Steady
<1>6. /\ Len(LowerText(s)) = Len(s) /\ LowerText(s) \in Seq(Chars)
      /\ \A h \in 1 .. Len(s) : LowerText(s)[h] = IF s[h] \in Letters THEN Lower[s[h]][1] ELSE s[h]
  BY <1>1, <1>5, LowerAtLength, LowerAsMapped
<1>7. \A h \in 1 .. n : LowerText(s)[h] = Slice(l, i, j)[h]
  BY <1>1, <1>2, <1>3, <1>4, <1>6
<1>8. LowerText(s) = Slice(l, i, j)
  <2> DEFINE y == LowerText(s)  z == Slice(l, i, j)
  <2>1. y \in Seq(Chars) /\ z \in Seq(Chars) /\ Len(y) = Len(z) /\ \A h \in 1 .. Len(y) : y[h] = z[h]
    BY <1>1, <1>3, <1>6, <1>7
  <2> HIDE DEF y, z
  <2>2. y = z
    BY <2>1, SeqEqual
  <2> QED  BY <2>2 DEF y, z
<1> QED  BY <1>8 DEF l, s

-----------------------------------------------------------------------------
(* Candidates *)

LEMMA StartsFacts ==
    ASSUME NEW t \in Seq(Chars), NEW v \in Seq(Chars), NEW i \in Starts(v, t)
    PROVE  i \in Nat /\ i + Len(v) <= Len(t)
BY DEF Starts

(* What is in a candidate: it is not empty, and a pattern's is in the text. *)
LEMMA CandidateFacts ==
    ASSUME NEW t \in Seq(Chars), NEW c \in Candidates(t)
    PROVE  /\ c.type \in Types /\ c.secret \in BOOLEAN
           /\ c.start \in Nat /\ c.end \in Nat /\ c.start < c.end
           /\ c.end <= Len(t) \/ c.end <= Len(LowerText(t))
           /\ Rank(c) \in Nat /\ Length(c) \in Nat
<1>1. LowerText(t) \in Seq(Chars)
  BY LowerAsMapped
<1>2. CASE c \in PatternCandidates(t)
  <2>1. PICK n \in DOMAIN Patterns : \E i \in Starts(Patterns[n].value, t) :
            c = Candidate(Patterns[n].type, i, Len(Patterns[n].value), Patterns[n].secret, n)
    BY <1>2 DEF PatternCandidates
  <2> DEFINE v == Patterns[n].value
  <2>2. v \in Seq(Letters) /\ v # <<>> /\ Patterns[n].type \in Types /\ Patterns[n].secret \in BOOLEAN
    BY EntryFacts
  <2>3. PICK i \in Starts(v, t) :
            c = Candidate(Patterns[n].type, i, Len(v), Patterns[n].secret, n)
    BY <2>1
  <2>4. v \in Seq(Chars) /\ Len(v) \in Nat /\ Len(v) # 0
    BY <2>2, SymbolFacts, EmptySeq
  <2> HIDE DEF v
  <2>5. i \in Nat /\ i + Len(v) <= Len(t)
    BY <2>4, StartsFacts
  <2>6. c.type = Patterns[n].type /\ c.start = i /\ c.end = i + Len(v) /\ c.secret = Patterns[n].secret
    BY <2>3 DEF Candidate
  <2>7. Priority[c.type] \in Nat
    BY <2>2, <2>6, RedactionAssumption
  <2> QED  BY <2>2, <2>4, <2>5, <2>6, <2>7 DEF Rank, Length
<1>3. CASE c \in DictionaryCandidates(t)
  <2>1. PICK n \in DOMAIN Dictionary :
            \E i \in Starts(LowerText(Dictionary[n].value), LowerText(t)) :
            c = Candidate(Dictionary[n].type, i, Len(Dictionary[n].value), FALSE, Len(Patterns) + n)
    BY <1>3 DEF DictionaryCandidates
  <2> DEFINE v == Dictionary[n].value
  <2>2. v \in Seq(Letters) /\ v # <<>> /\ Dictionary[n].type \in Types
    BY EntryFacts
  <2>3. PICK i \in Starts(LowerText(v), LowerText(t)) :
            c = Candidate(Dictionary[n].type, i, Len(v), FALSE, Len(Patterns) + n)
    BY <2>1
  <2>4. v \in Seq(Chars) /\ Len(v) \in Nat /\ Len(v) # 0
    BY <2>2, SymbolFacts, EmptySeq
  <2> HIDE DEF v
  <2>8. LowerText(v) \in Seq(Chars) /\ Len(v) <= Len(LowerText(v))
    BY <2>2, <2>4, LowerLetters, LowerAsMapped
  <2>5. i \in Nat /\ i + Len(LowerText(v)) <= Len(LowerText(t))
    BY <1>1, <2>8, StartsFacts
  <2>6. c.type = Dictionary[n].type /\ c.start = i /\ c.end = i + Len(v) /\ c.secret = FALSE
    BY <2>3 DEF Candidate
  <2>7. Priority[c.type] \in Nat
    BY <2>2, <2>6, RedactionAssumption
  <2>9. Len(LowerText(v)) \in Nat /\ Len(LowerText(t)) \in Nat
    BY <1>1, <2>8
  <2>10. i + Len(v) <= Len(LowerText(t)) /\ i + Len(v) \in Nat /\ i < i + Len(v)
    BY <2>4, <2>5, <2>8, <2>9
  <2>11. Rank(c) \in Nat
    BY <2>7 DEF Rank
  <2>12. c.start \in Nat /\ c.end \in Nat /\ c.start < c.end /\ c.end <= Len(LowerText(t))
    BY <2>5, <2>6, <2>10
  <2>13. Length(c) \in Nat
    BY <2>12 DEF Length
  <2> QED  BY <2>2, <2>6, <2>11, <2>12, <2>13
<1> QED  BY <1>2, <1>3 DEF Candidates

LEMMA NoCandidates == Candidates(<<>>) = {}
<1>1. <<>> \in Seq(Chars) /\ Len(<<>>) = 0
  OBVIOUS
<1>2. LowerText(<<>>) = <<>>
  BY FlattenEmpty DEF LowerText
<1> DEFINE t == <<>>
<1> HIDE DEF t
<1>3. ASSUME NEW c \in Candidates(t) PROVE FALSE
  <2>1. t \in Seq(Chars) /\ Len(t) = 0 /\ Len(LowerText(t)) = 0
    BY <1>1, <1>2 DEF t
  <2>2. /\ c.start \in Nat /\ c.end \in Nat /\ c.start < c.end
        /\ c.end <= Len(t) \/ c.end <= Len(LowerText(t))
    BY <2>1, CandidateFacts
  <2> QED  BY <2>1, <2>2
<1> QED  BY <1>3 DEF t

LEMMA ChosenFacts ==
    ASSUME text \in Seq(Symbols), entities \subseteq Candidates(text), NEW e \in Chosen
    PROVE  /\ e \in entities /\ e.type \in Types /\ e.type \in config.tokenize
           /\ e.start \in Nat /\ e.end \in Nat /\ e.start < e.end
           /\ Slice(text, e.start, e.end) \in Seq(Symbols)
<1>1. text \in Seq(Chars) /\ e \in entities /\ e.type \in config.tokenize /\ e \in Candidates(text)
  BY SymbolFacts DEF Chosen
<1>2. e.type \in Types /\ e.start \in Nat /\ e.end \in Nat /\ e.start < e.end
  BY <1>1, CandidateFacts
<1>3. Slice(text, e.start, e.end) \in Seq(Symbols)
  BY <1>2, SliceProperties
<1> QED  BY <1>1, <1>2, <1>3

-----------------------------------------------------------------------------
(* The type invariant.  What Substitute looks up is in the manifest. *)

TextTypeInv ==
    /\ TextTypeOK
    /\ spans \subseteq KnownTokens(response, values)
    /\ status # "substitute" => spans = {}

LEMMA SplicedType ==
    ASSUME NEW e, e.start \in Nat, e.end \in Nat, text \in Seq(Symbols), prompt \in Seq(Chars),
           NEW token \in Token, Put(token, e)
    PROVE  prompt' \in Seq(Chars)
<1>1. token \in Chars /\ <<token>> \in Seq(Chars) /\ text \in Seq(Chars)
  BY SymbolFacts
<1>2. CASE PastEnd(e)
  <2>1. PICK x \in Scraps(token) \cup {<<>>}, y \in Scraps(token) :
            prompt' = Slice(text, 0, e.start) \o x \o <<token>> \o y
    BY <1>2 DEF Put, Scraps
  <2>2. Scraps(token) \subseteq Seq(Chars) /\ <<>> \in Seq(Chars)
    <3>1. \A z \in Letters : <<LeftBracket, z>> \in Seq(Chars) /\ <<z, RightBracket>> \in Seq(Chars)
      BY SymbolFacts
    <3>2. <<>> \in Seq(Chars)
      OBVIOUS
    <3> QED  BY <1>1, <3>1, <3>2 DEF Scraps
  <2>3. Slice(text, 0, e.start) \in Seq(Chars)
    BY <1>1, SliceProperties
  <2> DEFINE a == Slice(text, 0, e.start)  z == <<token>>
  <2>4. a \in Seq(Chars) /\ x \in Seq(Chars) /\ y \in Seq(Chars) /\ z \in Seq(Chars)
    BY <1>1, <2>1, <2>2, <2>3
  <2> HIDE DEF a, z
  <2>5. a \o x \in Seq(Chars)
    BY <2>4, ConcatProperties
  <2>6. (a \o x) \o z \in Seq(Chars)
    BY <2>4, <2>5, ConcatProperties
  <2>7. ((a \o x) \o z) \o y \in Seq(Chars)
    BY <2>4, <2>6, ConcatProperties
  <2> QED  BY <2>1, <2>7 DEF a, z
<1>3. CASE ~ PastEnd(e)
  <2>1. prompt' = Splice(prompt, e.start, e.end, <<token>>)
    BY <1>3 DEF Put
  <2> QED  BY <1>1, <2>1, SpliceType
<1> QED  BY <1>2, <1>3

LEMMA ManifestType ==
    ASSUME DOMAIN seen \subseteq Seq(Symbols), seen \in [DOMAIN seen -> Token]
    PROVE  /\ DOMAIN Manifest \subseteq Token
           /\ Manifest \in [DOMAIN Manifest -> Seq(Symbols)]
           /\ \A v \in DOMAIN seen : seen[v] \in DOMAIN Manifest
           /\ \A k \in DOMAIN Manifest : Manifest[k] \in DOMAIN seen /\ seen[Manifest[k]] = k
<1>1. DOMAIN Manifest = {seen[v] : v \in DOMAIN seen}
  BY DEF Manifest
<1>2. \A k \in DOMAIN Manifest : Manifest[k] \in DOMAIN seen /\ seen[Manifest[k]] = k
  BY DEF Manifest
<1>3. Manifest = [k \in DOMAIN Manifest |-> Manifest[k]]
  BY DEF Manifest
<1>4. DOMAIN Manifest \subseteq Token
  BY <1>1
<1>5. \A k \in DOMAIN Manifest : Manifest[k] \in Seq(Symbols)
  BY <1>2
<1>6. Manifest \in [DOMAIN Manifest -> Seq(Symbols)]
  BY <1>3, <1>5
<1> QED  BY <1>1, <1>2, <1>4, <1>6

LEMMA AssignType ==
    ASSUME TextTypeOK, NEW type \in Types, NEW v \in Seq(Symbols), Assign(type, v)
    PROVE  /\ counters' \in [Types -> Nat]
           /\ DOMAIN seen' = DOMAIN seen \cup {v}
           /\ DOMAIN seen' \subseteq Seq(Symbols) /\ seen' \in [DOMAIN seen' -> Token]
           /\ seen'[v] \in Token
           /\ \A w \in DOMAIN seen : seen'[w] = seen[w]
<1> USE DEF TextTypeOK
<1>1. NextToken(type) \in Token
  BY DEF NextToken, Token
<1>2. CASE v \in DOMAIN seen
  <2>1. counters' = counters /\ seen' = seen
    BY <1>2 DEF Assign
  <2> QED  BY <1>2, <2>1
<1>3. CASE v \notin DOMAIN seen
  <2>1. /\ counters' = [counters EXCEPT ![type] = @ + 1]
        /\ seen' = [w \in DOMAIN seen \cup {v} |-> IF w = v THEN NextToken(type) ELSE seen[w]]
    BY <1>3 DEF Assign
  <2>2. counters' \in [Types -> Nat]
    BY <2>1
  <2>3. DOMAIN seen' = DOMAIN seen \cup {v} /\ \A w \in DOMAIN seen' : seen'[w] \in Token
    BY <1>1, <2>1
  <2>4. seen' \in [DOMAIN seen' -> Token]
    BY <1>1, <2>1
  <2>5. \A w \in DOMAIN seen : seen'[w] = seen[w]
    BY <1>3, <2>1
  <2> QED  BY <2>2, <2>3, <2>4, <2>5
<1> QED  BY <1>2, <1>3

LEMMA TypeInit == TextInit => TextTypeInv
<1> SUFFICES ASSUME TextInit PROVE TextTypeInv
    OBVIOUS
<1> USE DEF TextInit
<1>1. text \in Seq(Symbols)
  BY DEF BoundedSeq, SeqOf
<1>2. /\ config \in Configs /\ status \in Statuses
      /\ candidates \subseteq Candidates(text) /\ entities \subseteq Candidates(text)
      /\ masks \subseteq Chosen /\ spans \subseteq DOMAIN response
      /\ spans \subseteq KnownTokens(response, values)
  BY DEF Statuses
<1>3. counters \in [Types -> Nat]
  OBVIOUS
<1>4. /\ DOMAIN seen \subseteq Seq(Symbols) /\ seen \in [DOMAIN seen -> Token]
      /\ DOMAIN values \subseteq Token /\ values \in [DOMAIN values -> Seq(Symbols)]
      /\ {prompt, response, restored} \subseteq Seq(Symbols \cup Token)
  OBVIOUS
<1> QED  BY <1>1, <1>2, <1>3, <1>4 DEF TextTypeInv, TextTypeOK

LEMMA TypeStep == TextTypeInv /\ [TextNext]_textVars => TextTypeInv'
<1> SUFFICES ASSUME TextTypeInv, [TextNext]_textVars PROVE TextTypeInv'
    OBVIOUS
<1> USE DEF TextTypeInv, TextTypeOK
<1>0. /\ text \in Seq(Symbols) /\ prompt \in Seq(Chars)
      /\ response \in Seq(Chars) /\ restored \in Seq(Chars)
      /\ text \in Seq(Chars)
  BY SymbolFacts DEF Chars
<1>1. CASE Detect
  BY <1>1 DEF Detect, input, tokenizer, answer, Statuses, Chosen, KnownTokens
<1>2. CASE Resolve
  <2>1. PICK c \in candidates :
            /\ candidates' = candidates \ {c}
            /\ entities' = IF \E a \in entities : Overlap(a, c) THEN entities ELSE entities \cup {c}
    BY <1>2 DEF Resolve
  <2>2. /\ entities' \subseteq Candidates(text) /\ entities \subseteq entities'
        /\ candidates' \subseteq Candidates(text)
    BY <2>1
  <2>3. UNCHANGED <<input, status, tokenizer, values, answer>>
    BY <1>2 DEF Resolve
  <2>4. masks' \subseteq Chosen'
    BY <2>2, <2>3 DEF Chosen, input, tokenizer
  <2> QED  BY <2>2, <2>3, <2>4 DEF input, tokenizer, answer, KnownTokens
<1>3. CASE Select
  <2>1. masks' \subseteq Chosen' /\ prompt' \in Seq(Chars) /\ status' \in Statuses
    BY <1>0, <1>3 DEF Select, Chosen, input, detector, Statuses
  <2>2. UNCHANGED <<input, detector, counters, seen, values, answer>>
    BY <1>3 DEF Select
  <2>3. status = "resolve" /\ status' # "substitute"
    BY <1>3 DEF Select
  <2> QED  BY <2>1, <2>2, <2>3 DEF input, detector, answer, Chars, KnownTokens
<1>4. CASE Replace
  <2>1. PICK e \in masks :
            /\ Assign(e.type, Slice(text, e.start, e.end))
            /\ Put(seen'[Slice(text, e.start, e.end)], e)
            /\ masks' = masks \ {e}
    BY <1>4 DEF Replace
  <2>2. UNCHANGED <<input, status, detector, values, answer>>
    BY <1>4 DEF Replace
  <2> DEFINE v == Slice(text, e.start, e.end)
  <2>3. e.start \in Nat /\ e.end \in Nat /\ e.type \in Types /\ v \in Seq(Symbols)
    BY ChosenFacts
  <2> HIDE DEF v
  <2>4. Assign(e.type, v) /\ Put(seen'[v], e)
    BY <2>1 DEF v
  <2>5. /\ counters' \in [Types -> Nat] /\ seen'[v] \in Token
        /\ DOMAIN seen' \subseteq Seq(Symbols) /\ seen' \in [DOMAIN seen' -> Token]
    BY <2>3, <2>4, AssignType
  <2>6. prompt' \in Seq(Chars)
    BY <1>0, <2>3, <2>4, <2>5, SplicedType
  <2>7. masks' \subseteq Chosen'
    BY <2>1, <2>2 DEF Chosen, input, detector
  <2> QED  BY <2>2, <2>5, <2>6, <2>7 DEF input, detector, answer, Chars, KnownTokens
<1>5. CASE Conclude
  <2>1. status' \in Statuses
    BY <1>5 DEF Conclude, Validate, Statuses, Published
  <2>2. DOMAIN values' \subseteq Token /\ values' \in [DOMAIN values' -> Seq(Symbols)]
    <3>1. CASE status' = "OK"
      BY <1>5, <3>1, ManifestType DEF Conclude
    <3>2. CASE status' # "OK"
      BY <1>5, <3>2 DEF Conclude
    <3> QED  BY <3>1, <3>2
  <2> QED  BY <1>5, <2>1, <2>2 DEF Conclude, input, detector, tokenizer, answer, Chosen
<1>6. CASE Answer
  <2>1. response' \in Seq(Chars)
    <3>1. CASE response' = prompt
      BY <1>0, <3>1
    <3>2. CASE \E i \in DOMAIN prompt : response' = RemoveAt(prompt, i)
      <4>1. PICK i \in 1 .. Len(prompt) :
                response' = SubSeq(prompt, 1, i - 1) \o SubSeq(prompt, i + 1, Len(prompt))
        <5>1. DOMAIN prompt = 1 .. Len(prompt)
          BY <1>0
        <5> QED  BY <3>2, <5>1 DEF RemoveAt
      <4>2. SubSeq(prompt, 1, i - 1) \in Seq(Chars) /\ SubSeq(prompt, i + 1, Len(prompt)) \in Seq(Chars)
        BY <1>0
      <4> QED  BY <4>1, <4>2, ConcatProperties
    <3>3. CASE \E i \in 0 .. Len(prompt) : \E x \in Symbols : response' = Splice(prompt, i, i, <<x>>)
      <4>1. PICK i \in 0 .. Len(prompt), x \in Symbols : response' = Splice(prompt, i, i, <<x>>)
        BY <3>3
      <4>2. i \in Nat /\ <<x>> \in Seq(Chars)
        BY SymbolFacts
      <4> QED  BY <1>0, <4>1, <4>2, SpliceType
    <3> QED  BY <1>6, <3>1, <3>2, <3>3 DEF Answer
  <2>2. spans = {} /\ UNCHANGED <<input, detector, tokenizer, values, spans, restored>>
        /\ status' = "answered"
    BY <1>6 DEF Answer
  <2> QED  BY <2>1, <2>2 DEF input, detector, tokenizer, Chosen, Chars, Statuses, Published
<1>7. ASSUME NEW strict \in BOOLEAN, Classify(strict) PROVE TextTypeInv'
  <2>1. UNCHANGED <<input, detector, tokenizer, values, response>>
    BY <1>7 DEF Classify
  <2>2. /\ status' \in Statuses /\ restored' \in Seq(Chars)
        /\ spans' \subseteq KnownTokens(response, values) /\ spans' \subseteq DOMAIN response
        /\ status' # "substitute" => spans' = {}
    BY <1>0, <1>7 DEF Classify, Statuses, Published, KnownTokens
  <2> QED  BY <2>1, <2>2 DEF input, detector, tokenizer, Chosen, Chars, KnownTokens
<1>8. CASE Substitute
  <2>1. PICK i \in spans : /\ restored' = Splice(restored, i - 1, i, values[response[i]])
                           /\ spans' = spans \ {i}
    BY <1>8 DEF Substitute
  <2>2. UNCHANGED <<input, status, detector, tokenizer, values, response>> /\ status = "substitute"
    BY <1>8 DEF Substitute
  <2>3. i \in 1 .. Len(response) /\ response[i] \in DOMAIN values
    BY <1>0 DEF KnownTokens
  <2>4. values[response[i]] \in Seq(Chars)
    BY <2>3, SymbolFacts
  <2>5. i - 1 \in Nat /\ i \in Nat
    BY <2>3
  <2>6. restored' \in Seq(Chars)
    BY <1>0, <2>1, <2>4, <2>5, SpliceType
  <2> QED  BY <2>1, <2>2, <2>6 DEF input, detector, tokenizer, Chosen, Chars, KnownTokens
<1>9. CASE Return
  BY <1>9 DEF Return, input, detector, tokenizer, answer, Chosen, KnownTokens, Statuses, Published
<1>10. CASE UNCHANGED textVars
  BY <1>10 DEF textVars, input, detector, tokenizer, answer, Chosen, KnownTokens
<1> QED  BY <1>1, <1>2, <1>3, <1>4, <1>5, <1>6, <1>7, <1>8, <1>9, <1>10 DEF TextNext

(* TextTypeOK: what is accepted and replaced are candidates of the text, the  *)
(* manifest maps tokens to parts of it, and what is substituted is in range.  *)
THEOREM TextTypeCorrect == TextSpec => []TextTypeOK
<1>1. TextSpec => []TextTypeInv
  BY TypeInit, TypeStep, PTL DEF TextSpec
<1> QED  BY <1>1, PTL DEF TextTypeInv

-----------------------------------------------------------------------------
(* The choice among candidates *)

(* Nothing has blocked the text before its verdict. *)
AfterBlock == Statuses \ {"new", "resolve", "BLOCKED"}

(* Those accepted so far do not overlap and come before those still to come;  *)
(* each candidate dropped overlaps an accepted one that comes before it.      *)
DetectInv ==
    /\ status = "new" => candidates = {} /\ entities = {}
    /\ status \notin {"new", "resolve"} => candidates = {}
    /\ \A c, d \in entities : c # d => ~ Overlap(c, d)
    /\ \A e \in entities, c \in candidates : Before(e, c)
    /\ status # "new" => \A c \in Candidates(text) \ (candidates \cup entities) :
           \E e \in entities : Overlap(e, c) /\ Before(e, c)
    /\ status \in AfterBlock => ~ Blocked

(* A candidate is what its entry makes of its position. *)
Made(i, o) ==
    IF o <= Len(Patterns)
    THEN Candidate(Patterns[o].type, i, Len(Patterns[o].value), Patterns[o].secret, o)
    ELSE Candidate(Dictionary[o - Len(Patterns)].type, i,
                   Len(Dictionary[o - Len(Patterns)].value), FALSE, o)

LEMMA CandidateMade ==
    ASSUME NEW t \in Seq(Chars), NEW c \in Candidates(t)
    PROVE  c.order \in Nat /\ c = Made(c.start, c.order)
<1>1. CASE c \in PatternCandidates(t)
  <2>1. PICK n \in DOMAIN Patterns : \E i \in Starts(Patterns[n].value, t) :
            c = Candidate(Patterns[n].type, i, Len(Patterns[n].value), Patterns[n].secret, n)
    BY <1>1 DEF PatternCandidates
  <2>2. PICK i \in Starts(Patterns[n].value, t) :
            c = Candidate(Patterns[n].type, i, Len(Patterns[n].value), Patterns[n].secret, n)
    BY <2>1
  <2>3. c.start = i /\ c.order = n
    BY <2>2 DEF Candidate
  <2>4. n \in Nat /\ n <= Len(Patterns)
    BY EntryFacts
  <2> QED  BY <2>2, <2>3, <2>4 DEF Made
<1>2. CASE c \in DictionaryCandidates(t)
  <2>1. PICK n \in DOMAIN Dictionary :
            \E i \in Starts(LowerText(Dictionary[n].value), LowerText(t)) :
            c = Candidate(Dictionary[n].type, i, Len(Dictionary[n].value), FALSE, Len(Patterns) + n)
    BY <1>2 DEF DictionaryCandidates
  <2>2. PICK i \in Starts(LowerText(Dictionary[n].value), LowerText(t)) :
            c = Candidate(Dictionary[n].type, i, Len(Dictionary[n].value), FALSE, Len(Patterns) + n)
    BY <2>1
  <2> DEFINE o == Len(Patterns) + n
  <2>3. c.start = i /\ c.order = o
    BY <2>2 DEF Candidate
  <2>4. o \in Nat /\ ~ (o <= Len(Patterns)) /\ o - Len(Patterns) = n
    BY EntryFacts
  <2> HIDE DEF o
  <2>5. c = Candidate(Dictionary[n].type, i, Len(Dictionary[n].value), FALSE, o)
    BY <2>2 DEF o
  <2> QED  BY <2>3, <2>4, <2>5 DEF Made
<1> QED  BY <1>1, <1>2 DEF Candidates

(* The order is total, and who comes before prevails. *)
LEMMA BeforeTotal ==
    ASSUME NEW t \in Seq(Chars), NEW c \in Candidates(t), NEW d \in Candidates(t)
    PROVE  /\ c # d /\ ~ Before(d, c) => Before(c, d)
           /\ Before(c, d) => Prevails(c, d)
<1>1. /\ Rank(c) \in Nat /\ Length(c) \in Nat /\ c.start \in Nat
      /\ Rank(d) \in Nat /\ Length(d) \in Nat /\ d.start \in Nat
  BY CandidateFacts
<1>2. c.order \in Nat /\ d.order \in Nat
  BY CandidateMade
<1>3. c.start = d.start /\ c.order = d.order => c = d
  <2>1. c = Made(c.start, c.order) /\ d = Made(d.start, d.order)
    BY CandidateMade
  <2> QED  BY <2>1, Zenon
<1> HIDE DEF Rank, Length
<1> QED  BY <1>1, <1>2, <1>3 DEF Before, Prevails

LEMMA NatLeast ==
    ASSUME NEW D, D # {}, NEW f \in [D -> Nat]
    PROVE  \E m \in D : \A d \in D : f[m] <= f[d]
<1> DEFINE R == {f[d] : d \in D}
<1>1. R \subseteq Nat /\ R # {}
  OBVIOUS
<1> HIDE DEF R
<1>2. PICK r \in R : \A n \in R : ~ (<<n, r>> \in OpToRel(<, Nat))
  BY <1>1, NatLessThanWellFounded, WFMin
<1>3. ASSUME NEW n \in R PROVE r <= n
  <2>1. n \in Nat /\ r \in Nat
    BY <1>1
  <2>2. n < r => <<n, r>> \in OpToRel(<, Nat)
    BY <2>1 DEF OpToRel
  <2>3. ~ (n < r)
    BY <1>2, <2>2, Zenon
  <2> QED  BY <2>1, <2>3
<1> QED  BY <1>3 DEF R

(* Of any candidates there is a first one. *)
LEMMA FirstOf ==
    ASSUME NEW t \in Seq(Chars), NEW D \in SUBSET Candidates(t), D # {}
    PROVE  \E m \in D : \A d \in D : ~ Before(d, m)
<1> DEFINE L == Len(t) + Len(LowerText(t))
<1>1. ASSUME NEW c \in D
      PROVE  /\ Rank(c) \in Nat /\ Length(c) \in Nat /\ L - Length(c) \in Nat
             /\ c.start \in Nat /\ c.order \in Nat
  <2>1. /\ Rank(c) \in Nat /\ Length(c) \in Nat /\ c.start \in Nat /\ c.end \in Nat
        /\ c.end <= Len(t) \/ c.end <= Len(LowerText(t))
    BY CandidateFacts
  <2>2. Len(t) \in Nat /\ Len(LowerText(t)) \in Nat
    BY LowerAsMapped
  <2>3. L - Length(c) \in Nat
    BY <2>1, <2>2 DEF Length
  <2>4. c.order \in Nat
    BY CandidateMade
  <2> QED  BY <2>1, <2>3, <2>4
<1>9. L \in Nat
  BY LowerAsMapped
<1> HIDE DEF L
<1>2. PICK p \in D : \A d \in D : Rank(p) <= Rank(d)
  <2> DEFINE f == [d \in D |-> Rank(d)]
  <2>1. f \in [D -> Nat]
    BY <1>1
  <2> HIDE DEF f
  <2>2. PICK m \in D : \A d \in D : f[m] <= f[d]
    BY <2>1, NatLeast
  <2> QED  BY <2>2 DEF f
<1> DEFINE D2 == {d \in D : Rank(d) = Rank(p)}
<1>3. PICK q \in D2 : \A d \in D2 : L - Length(q) <= L - Length(d)
  <2> DEFINE f == [d \in D2 |-> L - Length(d)]
  <2>1. f \in [D2 -> Nat] /\ D2 # {}
    BY <1>1
  <2> HIDE DEF f, D2
  <2>2. PICK m \in D2 : \A d \in D2 : f[m] <= f[d]
    BY <2>1, NatLeast
  <2> QED  BY <2>2 DEF f
<1> DEFINE D3 == {d \in D2 : Length(d) = Length(q)}
<1>4. PICK u \in D3 : \A d \in D3 : u.start <= d.start
  <2> DEFINE f == [d \in D3 |-> d.start]
  <2>1. f \in [D3 -> Nat] /\ D3 # {}
    BY <1>1
  <2> HIDE DEF f, D3
  <2>2. PICK m \in D3 : \A d \in D3 : f[m] <= f[d]
    BY <2>1, NatLeast
  <2> QED  BY <2>2 DEF f
<1> DEFINE D4 == {d \in D3 : d.start = u.start}
<1>5. PICK m \in D4 : \A d \in D4 : m.order <= d.order
  <2> DEFINE f == [d \in D4 |-> d.order]
  <2>1. f \in [D4 -> Nat] /\ D4 # {}
    BY <1>1
  <2> HIDE DEF f, D4
  <2>2. PICK m \in D4 : \A d \in D4 : f[m] <= f[d]
    BY <2>1, NatLeast
  <2> QED  BY <2>2 DEF f
<1>6. /\ m \in D /\ Rank(m) = Rank(p) /\ Length(m) = Length(q) /\ m.start = u.start
  OBVIOUS
<1>7. ASSUME NEW d \in D, Before(d, m) PROVE FALSE
  <2> HIDE DEF Rank, Length
  <2>1. ~ (Rank(d) < Rank(m))
    BY <1>1, <1>2, <1>6
  <2>2. Rank(d) = Rank(m)
    BY <1>7, <2>1 DEF Before
  <2>3. d \in D2
    BY <1>6, <2>2
  <2>4. ~ (Length(d) > Length(m))
    <3>1. L - Length(m) <= L - Length(d)
      BY <1>3, <1>6, <2>3
    <3> QED  BY <1>1, <1>6, <1>9, <3>1
  <2>5. Length(d) = Length(m)
    BY <1>7, <2>1, <2>4 DEF Before
  <2>6. d \in D3
    BY <1>6, <2>3, <2>5
  <2>7. ~ (d.start < m.start)
    BY <1>1, <1>4, <1>6, <2>6
  <2>8. d.start = m.start /\ d.order < m.order
    BY <1>7, <2>1, <2>4, <2>7 DEF Before
  <2>9. d \in D4
    BY <1>6, <2>6, <2>8
  <2> QED  BY <1>1, <1>5, <1>6, <2>8, <2>9
<1> QED  BY <1>6, <1>7

LEMMA DetectInit == TextInit => DetectInv
BY DEF TextInit, DetectInv, AfterBlock, Statuses, Published

LEMMA DetectStep == TextTypeInv /\ DetectInv /\ [TextNext]_textVars => DetectInv'
<1> SUFFICES ASSUME TextTypeInv, DetectInv, [TextNext]_textVars PROVE DetectInv'
    OBVIOUS
<1> USE DEF DetectInv
<1>0. text \in Seq(Chars) /\ candidates \subseteq Candidates(text) /\ entities \subseteq Candidates(text)
  BY SymbolFacts DEF TextTypeInv, TextTypeOK
<1>1. CASE Detect
  <2>1. /\ entities = {} /\ entities' = {} /\ text' = text /\ candidates = {}
        /\ status' \in {"BLOCKED", "resolve"}
    BY <1>1 DEF Detect, input
  <2>2. CASE text = <<>>
    <3>1. candidates' = {} /\ status' = "BLOCKED" /\ Candidates(text') = {}
      BY <1>1, <2>1, <2>2, NoCandidates DEF Detect
    <3> QED  BY <2>1, <3>1 DEF AfterBlock, Statuses, Published
  <2>3. CASE text # <<>>
    <3>1. candidates' = Candidates(text') /\ status' = "resolve"
      BY <1>1, <2>1, <2>3 DEF Detect
    <3> QED  BY <2>1, <3>1 DEF AfterBlock, Statuses, Published
  <2> QED  BY <2>2, <2>3
<1>2. CASE Resolve
  <2>1. PICK c \in candidates :
            /\ \A d \in candidates : ~ Before(d, c)
            /\ candidates' = candidates \ {c}
            /\ entities' = IF \E a \in entities : Overlap(a, c) THEN entities ELSE entities \cup {c}
    BY <1>2 DEF Resolve
  <2>2. text' = text /\ status = "resolve" /\ status' = "resolve"
    BY <1>2 DEF Resolve, input
  <2>3. \A d \in candidates' : Before(c, d)
    BY <1>0, <2>1, BeforeTotal
  <2>4. \A d, e \in entities' : d # e => ~ Overlap(d, e)
    BY <2>1 DEF Overlap
  <2>5. \A e \in entities', d \in candidates' : Before(e, d)
    BY <2>1, <2>3
  <2>6. ASSUME NEW d \in Candidates(text) \ (candidates' \cup entities')
        PROVE  \E e \in entities' : Overlap(e, d) /\ Before(e, d)
    <3>1. CASE d = c
      <4>1. PICK a \in entities : Overlap(a, c)
        BY <2>1, <2>6, <3>1
      <4>2. Before(a, c) /\ a \in entities'
        BY <2>1
      <4> QED  BY <3>1, <4>1, <4>2
    <3>2. CASE d # c
      <4>1. d \in Candidates(text) \ (candidates \cup entities)
        BY <2>1, <2>6, <3>2
      <4>2. PICK e \in entities : Overlap(e, d) /\ Before(e, d)
        BY <2>2, <4>1
      <4> QED  BY <2>1, <4>2
    <3> QED  BY <3>1, <3>2
  <2> QED  BY <2>2, <2>4, <2>5, <2>6 DEF AfterBlock, Statuses, Published
<1>3. CASE Select
  <2>1. UNCHANGED <<text, config, candidates, entities>> /\ candidates = {} /\ status = "resolve"
        /\ status' \in {"BLOCKED", "tokenize"} /\ (status' = "tokenize" => ~ Blocked)
    BY <1>3 DEF Select, input, detector
  <2>2. Blocked' <=> Blocked
    BY <2>1 DEF Blocked
  <2> QED  BY <2>1, <2>2 DEF AfterBlock, Statuses, Published
<1>4. ASSUME UNCHANGED <<text, config, candidates, entities>>, status \notin {"new", "resolve"},
             status' \notin {"new", "resolve"}, status' \in AfterBlock => status \in AfterBlock
      PROVE  DetectInv'
  <2>1. Blocked' <=> Blocked
    BY <1>4 DEF Blocked
  <2> QED  BY <1>4, <2>1
<1>5. CASE Replace
  BY <1>4, <1>5 DEF Replace, input, detector
<1>6. CASE Conclude
  BY <1>4, <1>6 DEF Conclude, input, detector, AfterBlock, Statuses, Validate
<1>7. CASE Answer
  BY <1>4, <1>7 DEF Answer, input, detector, AfterBlock, Statuses, Published
<1>8. ASSUME NEW strict \in BOOLEAN, Classify(strict) PROVE DetectInv'
  BY <1>4, <1>8 DEF Classify, input, detector, AfterBlock, Statuses, Published
<1>9. CASE Substitute
  BY <1>4, <1>9 DEF Substitute, input, detector
<1>10. CASE Return
  BY <1>4, <1>10 DEF Return, input, detector, AfterBlock, Statuses, Published
<1>11. CASE UNCHANGED textVars
  <2>1. UNCHANGED <<text, config, candidates, entities, status>>
    BY <1>11 DEF textVars, input, detector
  <2>2. Blocked' <=> Blocked
    BY <2>1 DEF Blocked
  <2> QED  BY <2>1, <2>2
<1> QED  BY <1>1, <1>2, <1>3, <1>5, <1>6, <1>7, <1>8, <1>9, <1>10, <1>11 DEF TextNext

LEMMA DetectGivesPolicy == TextTypeInv /\ DetectInv => ResolvedByPolicy
<1> SUFFICES ASSUME TextTypeInv, DetectInv, status \notin {"new", "resolve"}
             PROVE  /\ \A c, d \in entities : c # d => c.end <= d.start \/ d.end <= c.start
                    /\ \A c \in Candidates(text) \ entities : \E e \in entities :
                           e.end > c.start /\ c.end > e.start /\ Prevails(e, c)
    BY DEF ResolvedByPolicy
<1>1. text \in Seq(Chars) /\ entities \subseteq Candidates(text) /\ candidates = {}
  BY SymbolFacts DEF TextTypeInv, TextTypeOK, DetectInv
<1>2. \A c \in Candidates(text) : c.start \in Nat /\ c.end \in Nat
  BY <1>1, CandidateFacts
<1>3. \A c, d \in entities : c # d => c.end <= d.start \/ d.end <= c.start
  BY <1>1, <1>2 DEF DetectInv, Overlap
<1>4. \A c \in Candidates(text) \ entities : \E e \in entities : Overlap(e, c) /\ Before(e, c)
  BY <1>1 DEF DetectInv
<1>5. \A c, e \in Candidates(text) : Before(e, c) => Prevails(e, c)
  BY <1>1, BeforeTotal
<1> QED  BY <1>1, <1>3, <1>4, <1>5 DEF Overlap

LEMMA DetectGivesBlock == TextTypeInv /\ DetectInv => SecretsBlock
<1> SUFFICES ASSUME TextTypeInv, DetectInv, status \notin {"new", "resolve", "BLOCKED"},
                    NEW n \in DOMAIN Patterns, Patterns[n].secret,
                    NEW i \in Starts(Patterns[n].value, text)
             PROVE  FALSE
    BY DEF SecretsBlock
<1> DEFINE c == Candidate(Patterns[n].type, i, Len(Patterns[n].value), Patterns[n].secret, n)
<1>1. c \in Candidates(text)
  <2>1. c \in {Candidate(Patterns[n].type, j, Len(Patterns[n].value), Patterns[n].secret, n)
                   : j \in Starts(Patterns[n].value, text)}
    OBVIOUS
  <2> HIDE DEF c
  <2>2. c \in PatternCandidates(text)
    BY <2>1 DEF PatternCandidates
  <2> QED  BY <2>2 DEF Candidates
<1>2. c.secret = TRUE
  BY DEF Candidate
<1> HIDE DEF c
<1>3. candidates = {} /\ text \in Seq(Chars) /\ entities \subseteq Candidates(text)
  BY SymbolFacts DEF TextTypeInv, TextTypeOK, DetectInv
<1>4. ASSUME NEW e \in Candidates(text), Prevails(e, c) PROVE e.secret
  <2>1. Rank(c) = 0 /\ Rank(e) \in Nat
    BY <1>2, <1>3, CandidateFacts DEF Rank
  <2>2. e.type \in Types /\ e.secret \in BOOLEAN
    BY <1>3, CandidateFacts
  <2>3. Rank(e) = 0
    BY <1>4, <2>1 DEF Prevails
  <2>4. Priority[e.type] \in Nat \ {0}
    BY <2>2, RedactionAssumption
  <2> QED  BY <2>2, <2>3, <2>4 DEF Rank
<1>5. \E e \in entities : e.secret
  <2>1. CASE c \in entities
    BY <1>2, <2>1
  <2>2. CASE c \notin entities
    <3>1. PICK e \in entities : Before(e, c)
      BY <1>1, <1>3, <2>2 DEF DetectInv
    <3>2. Prevails(e, c)
      BY <1>1, <1>3, <3>1, BeforeTotal
    <3> QED  BY <1>3, <1>4, <3>2
  <2> QED  BY <2>1, <2>2
<1>6. Blocked
  BY <1>5 DEF Blocked
<1>7. status \in AfterBlock
  BY DEF AfterBlock, TextTypeInv, TextTypeOK
<1> QED  BY <1>6, <1>7 DEF DetectInv

(* ResolvedByPolicy: the entities kept do not overlap, and whatever was       *)
(* dropped overlaps a kept one that is more important, longer or earlier.     *)
THEOREM OverlapsResolved == TextSpec => []ResolvedByPolicy
<1>1. TextSpec => [](TextTypeInv /\ DetectInv)
  BY TypeInit, TypeStep, DetectInit, DetectStep, PTL DEF TextSpec
<1> QED  BY <1>1, DetectGivesPolicy, PTL

(* Two settled sets are the same: the first candidate in which they differ    *)
(* would be left out of one of them without a cause.                          *)
LEMMA SettledNotBelow ==
    ASSUME text \in Seq(Chars), NEW E \in SUBSET Candidates(text), NEW F \in SUBSET Candidates(text),
           Settled(E), Settled(F), NEW m \in E \ F,
           \A d \in (E \ F) \cup (F \ E) : ~ Before(d, m)
    PROVE  FALSE
<1>1. PICK f \in F : Overlap(f, m) /\ Before(f, m)
  BY DEF Settled
<1>2. f \notin E
  <2>1. f # m
    OBVIOUS
  <2> QED  BY <1>1, <2>1 DEF Settled
<1> QED  BY <1>1, <1>2

LEMMA SettledUnique ==
    ASSUME text \in Seq(Chars), NEW E \in SUBSET Candidates(text), NEW F \in SUBSET Candidates(text),
           Settled(E), Settled(F)
    PROVE  E = F
<1> DEFINE D == (E \ F) \cup (F \ E)
<1>1. SUFFICES ASSUME D # {} PROVE FALSE
  OBVIOUS
<1>2. PICK m \in D : \A d \in D : ~ Before(d, m)
  <2>1. D \in SUBSET Candidates(text)
    OBVIOUS
  <2> HIDE DEF D
  <2> QED  BY <1>1, <2>1, FirstOf
<1>3. CASE m \in E \ F
  BY <1>2, <1>3, SettledNotBelow
<1>4. CASE m \in F \ E
  BY <1>2, <1>4, SettledNotBelow
<1> QED  BY <1>3, <1>4

LEMMA DetectGivesDecision == TextTypeInv /\ DetectInv => DecidedByPolicy
<1> SUFFICES ASSUME TextTypeInv, DetectInv, status \notin {"new", "resolve"},
                    NEW E \in SUBSET Candidates(text)
             PROVE  Settled(E) <=> E = entities
    BY DEF DecidedByPolicy
<1>1. text \in Seq(Chars) /\ entities \in SUBSET Candidates(text) /\ candidates = {}
  BY SymbolFacts DEF TextTypeInv, TextTypeOK, DetectInv
<1>2. Settled(entities)
  BY <1>1 DEF DetectInv, Settled
<1> QED  BY <1>1, <1>2, SettledUnique

(* DecidedByPolicy: no other set of candidates is without overlaps and with a *)
(* cause for each one left out, so what is kept depends on the text alone and *)
(* not on the order in which equal candidates come up.                        *)
THEOREM PolicyDecides == TextSpec => []DecidedByPolicy
<1>1. TextSpec => [](TextTypeInv /\ DetectInv)
  BY TypeInit, TypeStep, DetectInit, DetectStep, PTL DEF TextSpec
<1> QED  BY <1>1, DetectGivesDecision, PTL

(* SecretsBlock: a text with a secret gets no further than the hard block.    *)
THEOREM SecretsStay == TextSpec => []SecretsBlock
<1>1. TextSpec => [](TextTypeInv /\ DetectInv)
  BY TypeInit, TypeStep, DetectInit, DetectStep, PTL DEF TextSpec
<1> QED  BY <1>1, DetectGivesBlock, PTL

-----------------------------------------------------------------------------
(* Tokens and values *)

(* The values replaced so far have a token each, no two the same one, and the *)
(* counter of a type is ahead of every token of it.                           *)
SeenInv ==
    /\ status \in {"new", "resolve"} => masks = {} /\ seen = <<>> /\ values = <<>>
    /\ status \in AfterBlock =>
          DOMAIN seen = {Slice(text, e.start, e.end) : e \in Chosen \ masks}
    /\ \A v \in DOMAIN seen : seen[v].num \in 1 .. counters[seen[v].type]
    /\ \A v, w \in DOMAIN seen : seen[v] = seen[w] => v = w
    /\ values = IF status \in Published THEN Manifest ELSE <<>>
    /\ status \in Published => masks = {} /\ Validate(prompt) = "OK"

LEMMA ManifestOf ==
    ASSUME \A v, w \in DOMAIN seen : seen[v] = seen[w] => v = w, NEW v \in DOMAIN seen
    PROVE  seen[v] \in DOMAIN Manifest /\ Manifest[seen[v]] = v
BY DEF Manifest

LEMMA SeenInit == TextInit => SeenInv
BY DEF TextInit, SeenInv, AfterBlock, Statuses, Published

(* A new token has a number no token of its type has. *)
LEMMA AssignFresh ==
    ASSUME TextTypeOK, SeenInv, NEW type \in Types, NEW v \in Seq(Symbols), Assign(type, v)
    PROVE  /\ \A w \in DOMAIN seen' : seen'[w].num \in 1 .. counters'[seen'[w].type]
           /\ \A w, x \in DOMAIN seen' : seen'[w] = seen'[x] => w = x
<1>0. counters \in [Types -> Nat] /\ seen \in [DOMAIN seen -> Token]
  BY DEF TextTypeOK
<1>1. CASE v \in DOMAIN seen
  <2>1. counters' = counters /\ seen' = seen
    BY <1>1 DEF Assign
  <2> QED  BY <2>1 DEF SeenInv
<1>2. CASE v \notin DOMAIN seen
  <2>1. /\ counters' = [counters EXCEPT ![type] = @ + 1]
        /\ seen' = [w \in DOMAIN seen \cup {v} |-> IF w = v THEN NextToken(type) ELSE seen[w]]
    BY <1>2 DEF Assign
  <2>2. /\ DOMAIN seen' = DOMAIN seen \cup {v} /\ seen'[v] = NextToken(type)
        /\ \A w \in DOMAIN seen : seen'[w] = seen[w]
    BY <1>2, <2>1
  <2>3. /\ counters'[type] = counters[type] + 1
        /\ \A t \in Types : counters[t] \in Nat /\ counters'[t] \in Nat /\ counters[t] <= counters'[t]
    BY <1>0, <2>1
  <2>4. NextToken(type).type = type /\ NextToken(type).num = counters[type] + 1
    BY DEF NextToken
  <2>5. \A w \in DOMAIN seen : /\ seen[w].type \in Types /\ seen[w].num \in Nat
                               /\ 1 <= seen[w].num /\ seen[w].num <= counters[seen[w].type]
    BY <1>0 DEF SeenInv, Token
  <2>6. ASSUME NEW w \in DOMAIN seen' PROVE seen'[w].num \in 1 .. counters'[seen'[w].type]
    <3>1. CASE w = v
      BY <2>2, <2>3, <2>4, <3>1
    <3>2. CASE w # v
      <4>1. seen'[w] = seen[w] /\ w \in DOMAIN seen
        BY <2>2, <3>2
      <4>2. seen[w].num <= counters'[seen[w].type] /\ counters'[seen[w].type] \in Nat
        BY <2>3, <2>5, <4>1
      <4> QED  BY <2>5, <4>1, <4>2
    <3> QED  BY <3>1, <3>2
  <2>7. \A w \in DOMAIN seen : seen[w] # NextToken(type)
    BY <2>3, <2>4, <2>5
  <2>8. \A w, x \in DOMAIN seen' : seen'[w] = seen'[x] => w = x
    BY <2>2, <2>7 DEF SeenInv
  <2> QED  BY <2>6, <2>8
<1> QED  BY <1>1, <1>2

LEMMA SeenStep == TextTypeInv /\ SeenInv /\ [TextNext]_textVars => SeenInv'
<1> SUFFICES ASSUME TextTypeInv, SeenInv, [TextNext]_textVars PROVE SeenInv'
    OBVIOUS
<1> USE DEF SeenInv
<1>1. CASE Detect
  BY <1>1 DEF Detect, tokenizer, AfterBlock, Statuses, Published
<1>2. CASE Resolve
  BY <1>2 DEF Resolve, tokenizer, AfterBlock, Statuses, Published
<1>3. CASE Select
  <2>1. /\ seen' = <<>> /\ values' = <<>> /\ counters' = counters
        /\ status' \in {"BLOCKED", "tokenize"} /\ Chosen' = Chosen
        /\ status' = "tokenize" => masks' = Chosen'
    BY <1>3 DEF Select, Chosen, input, detector
  <2>2. DOMAIN seen' = {}
    BY <2>1
  <2> QED  BY <2>1, <2>2 DEF AfterBlock, Statuses, Published
<1>4. CASE Replace
  <2>1. PICK e \in masks :
            /\ Assign(e.type, Slice(text, e.start, e.end))
            /\ masks' = masks \ {e}
    BY <1>4 DEF Replace
  <2>2. /\ UNCHANGED <<text, values>> /\ status = "tokenize" /\ status' = "tokenize" /\ Chosen' = Chosen
    BY <1>4 DEF Replace, Chosen, input, detector
  <2> DEFINE v == Slice(text, e.start, e.end)
  <2>3. e \in Chosen /\ e.type \in Types /\ v \in Seq(Symbols) /\ TextTypeOK
    BY ChosenFacts DEF TextTypeInv, TextTypeOK
  <2>4. Assign(e.type, v)
    BY <2>1
  <2>5. DOMAIN seen' = DOMAIN seen \cup {v}
    <3> HIDE DEF v
    <3> QED  BY <2>3, <2>4, AssignType
  <2>6. DOMAIN seen' = {Slice(text, d.start, d.end) : d \in Chosen \ masks'}
    BY <2>1, <2>2, <2>3, <2>5 DEF AfterBlock, Statuses
  <2>7. /\ \A w \in DOMAIN seen' : seen'[w].num \in 1 .. counters'[seen'[w].type]
        /\ \A w, x \in DOMAIN seen' : seen'[w] = seen'[x] => w = x
    <3> HIDE DEF v
    <3> QED  BY <2>3, <2>4, AssignFresh
  <2> HIDE DEF v
  <2> QED  BY <2>2, <2>6, <2>7 DEF Published
<1>5. CASE Conclude
  <2>1. /\ UNCHANGED <<text, seen, counters, masks, prompt>> /\ Chosen' = Chosen
        /\ status = "tokenize" /\ masks = {} /\ status' = Validate(prompt)
        /\ values' = IF status' = "OK" THEN Manifest ELSE <<>>
    BY <1>5 DEF Conclude, Chosen, input, detector, tokenizer
  <2>2. Manifest' = Manifest
    BY <2>1 DEF Manifest
  <2>3. status' \in {"OK", "PENDING", "BLOCKED"}
    BY <2>1 DEF Validate
  <2> QED  BY <2>1, <2>2, <2>3 DEF AfterBlock, Statuses, Published
<1>6. ASSUME UNCHANGED <<input, detector, tokenizer, values>>,
             status \in Published, status' \in Published
      PROVE  SeenInv'
  <2>1. UNCHANGED <<text, seen, counters, masks, prompt, values>> /\ Chosen' = Chosen
    BY <1>6 DEF Chosen, input, detector, tokenizer
  <2>2. Manifest' = Manifest
    BY <2>1 DEF Manifest
  <2> QED  BY <1>6, <2>1, <2>2 DEF AfterBlock, Statuses, Published
<1>7. CASE Answer
  BY <1>6, <1>7 DEF Answer, Published
<1>8. ASSUME NEW strict \in BOOLEAN, Classify(strict) PROVE SeenInv'
  BY <1>6, <1>8 DEF Classify, Published
<1>9. CASE Substitute
  BY <1>6, <1>9 DEF Substitute, Published
<1>10. CASE Return
  BY <1>6, <1>10 DEF Return, Published, answer
<1>11. CASE UNCHANGED textVars
  <2>1. UNCHANGED <<text, status, seen, counters, masks, prompt, values>> /\ Chosen' = Chosen
    BY <1>11 DEF textVars, Chosen, input, detector, tokenizer
  <2>2. Manifest' = Manifest
    BY <2>1 DEF Manifest
  <2> QED  BY <2>1, <2>2
<1> QED  BY <1>1, <1>2, <1>3, <1>4, <1>5, <1>7, <1>8, <1>9, <1>10, <1>11 DEF TextNext

-----------------------------------------------------------------------------
(* Texts and the exchange of tokens in them, without their positions *)

Texts == Seq(Chars)

LEMMA TextOne ==
    ASSUME NEW x \in Chars PROVE <<x>> \in Texts
BY DEF Texts

LEMMA TextConcat ==
    ASSUME NEW a \in Texts, NEW b \in Texts PROVE a \o b \in Texts
BY ConcatProperties DEF Texts

LEMMA TextAssociative ==
    ASSUME NEW a \in Texts, NEW b \in Texts, NEW c \in Texts
    PROVE  (a \o b) \o c = a \o (b \o c)
BY ConcatAssociative DEF Texts

LEMMA TextLen ==
    ASSUME NEW a \in Texts, NEW b \in Texts
    PROVE  Len(a \o b) = Len(a) + Len(b) /\ Len(a) \in Nat /\ Len(b) \in Nat
BY ConcatProperties DEF Texts

LEMMA TextSlices ==
    ASSUME NEW a \in Texts, NEW b \in Texts
    PROVE  Slice(a \o b, 0, Len(a)) = a /\ Slice(a \o b, Len(a), Len(a \o b)) = b
BY SliceConcat DEF Texts

ToTexts(map) == \A k \in DOMAIN map : map[k] \in Texts

Exchange(map) == [x \in Chars |-> IF x \in DOMAIN map THEN map[x] ELSE <<x>>]

LEMMA ExchangeAsMapped ==
    ASSUME NEW t \in Texts, NEW map, ToTexts(map)
    PROVE  /\ Exchanged(t, map) = Mapped(t, Exchange(map)) /\ Exchanged(t, map) \in Texts
           /\ \A x \in Chars : Exchange(map)[x] \in Seq(Chars)
<1>1. \A i \in DOMAIN t : t[i] \in Chars
  BY DEF Texts
<1>2. Pieces(t, Exchange(map)) = [i \in DOMAIN t |-> IF t[i] \in DOMAIN map THEN map[t[i]] ELSE <<t[i]>>]
  BY <1>1 DEF Pieces, Exchange
<1>3. \A x \in Chars : Exchange(map)[x] \in Seq(Chars)
  <2>1. \A x \in Chars : <<x>> \in Seq(Chars)
    OBVIOUS
  <2> QED  BY <2>1 DEF Exchange, ToTexts, Texts
<1>4. Mapped(t, Exchange(map)) \in Seq(Chars)
  BY <1>3, MappedType DEF Texts
<1> QED  BY <1>2, <1>3, <1>4 DEF Exchanged, Mapped, Texts

LEMMA ExchangedConcat ==
    ASSUME NEW t \in Texts, NEW u \in Texts, NEW map, ToTexts(map)
    PROVE  Exchanged(t \o u, map) = Exchanged(t, map) \o Exchanged(u, map)
<1>1. t \o u \in Texts
  BY TextConcat
<1> DEFINE f == Exchange(map)
<1>2. /\ Exchanged(t \o u, map) = Mapped(t \o u, f)
      /\ Exchanged(t, map) = Mapped(t, f) /\ Exchanged(u, map) = Mapped(u, f)
  BY <1>1, ExchangeAsMapped
<1>3. \A x \in Chars : f[x] \in Seq(Chars)
  BY <1>1, ExchangeAsMapped
<1> HIDE DEF f
<1>4. t \in Seq(Chars) /\ u \in Seq(Chars)
  BY DEF Texts
<1>5. Mapped(t \o u, f) = Mapped(t, f) \o Mapped(u, f)
  BY <1>3, <1>4, MappedConcat
<1> QED  BY <1>2, <1>5

LEMMA ExchangedOne ==
    ASSUME NEW x \in Chars, NEW map, ToTexts(map)
    PROVE  Exchanged(<<x>>, map) = IF x \in DOMAIN map THEN map[x] ELSE <<x>>
<1>1. <<x>> \in Texts
  BY TextOne
<1> DEFINE f == Exchange(map)
<1>2. Exchanged(<<x>>, map) = Mapped(<<x>>, f) /\ f[x] \in Seq(Chars)
  BY <1>1, ExchangeAsMapped
<1>3. f[x] = IF x \in DOMAIN map THEN map[x] ELSE <<x>>
  BY DEF Exchange
<1> HIDE DEF f
<1>4. Mapped(<<x>>, f) = f[x]
  BY <1>2, MappedOne
<1> QED  BY <1>2, <1>3, <1>4

LEMMA ExchangedSame ==
    ASSUME NEW t \in Texts, NEW map, \A i \in 1 .. Len(t) : t[i] \notin DOMAIN map
    PROVE  Exchanged(t, map) = t
<1>1. DOMAIN t = 1 .. Len(t) /\ t \in Seq(Chars)
  BY DEF Texts
<1>2. [i \in DOMAIN t |-> IF t[i] \in DOMAIN map THEN map[t[i]] ELSE <<t[i]>>]
      = [i \in 1 .. Len(t) |-> <<t[i]>>]
  BY <1>1
<1> QED  BY <1>1, <1>2, FlattenSingletons DEF Exchanged

LEMMA ExchangedLike ==
    ASSUME NEW t \in Texts, NEW map, NEW other,
           \A i \in 1 .. Len(t) : /\ t[i] \in DOMAIN map <=> t[i] \in DOMAIN other
                                  /\ t[i] \in DOMAIN map => map[t[i]] = other[t[i]]
    PROVE  Exchanged(t, map) = Exchanged(t, other)
<1>1. DOMAIN t = 1 .. Len(t)
  BY DEF Texts
<1>2. [i \in DOMAIN t |-> IF t[i] \in DOMAIN map THEN map[t[i]] ELSE <<t[i]>>]
      = [i \in DOMAIN t |-> IF t[i] \in DOMAIN other THEN other[t[i]] ELSE <<t[i]>>]
  BY <1>1
<1> QED  BY <1>2 DEF Exchanged

-----------------------------------------------------------------------------
(* The substitution, from the last token to the first *)

(* What lies behind the tokens still to be substituted is exchanged already.  *)
RestoreInv ==
    /\ status = "refused" => Unknown(response, values) \/ Malformed(response)
    /\ status = "substitute" => \E k \in 0 .. Len(response) :
           /\ spans = {i \in KnownTokens(response, values) : i <= k}
           /\ restored = Slice(response, 0, k) \o Exchanged(Slice(response, k, Len(response)), values)
    /\ status = "restored" => restored = Exchanged(response, values)

LEMMA RestoreInit == TextInit => RestoreInv
BY DEF TextInit, RestoreInv

(* A text around the symbol at j, with what follows it up to k apart. *)
LEMMA TextAround ==
    ASSUME NEW r \in Seq(Chars), NEW i \in Nat, NEW j \in Nat, NEW k \in Nat,
           i < j, j <= i + 1, j <= k, k <= Len(r)
    PROVE  /\ Slice(r, 0, i) \in Texts /\ Slice(r, j, k) \in Texts /\ Slice(r, k, Len(r)) \in Texts
           /\ Len(Slice(r, 0, i)) = i /\ r[j] \in Chars
           /\ Len(Slice(r, j, k)) = k - j /\ \A h \in 1 .. k - j : Slice(r, j, k)[h] = r[j + h]
           /\ Slice(r, 0, k) = (Slice(r, 0, i) \o <<r[j]>>) \o Slice(r, j, k)
<1>0. i <= j /\ i <= k /\ j <= Len(r) /\ i <= Len(r) /\ j \in 1 .. Len(r) /\ j = i + 1
  OBVIOUS
<1>1. Slice(r, 0, i) \in Texts /\ Len(Slice(r, 0, i)) = i
  BY <1>0, SliceCut DEF Texts
<1>2. Slice(r, k, Len(r)) \in Texts
  BY SliceCut DEF Texts
<1>3. Slice(r, j, k) \in Texts
  BY <1>0, SliceLen DEF Texts
<1>4. Len(Slice(r, j, k)) = k - j /\ \A h \in 1 .. k - j : Slice(r, j, k)[h] = r[j + h]
  BY <1>0, SliceLen
<1>5. Slice(r, i, j) = <<r[j]>>
  BY <1>0, SliceOne
<1>9. Slice(r, 0, k) = Slice(r, 0, j) \o Slice(r, j, k)
  BY <1>0, SliceGrow
<1>10. Slice(r, 0, j) = Slice(r, 0, i) \o Slice(r, i, j)
  BY <1>0, SliceGrow
<1>11. Slice(r, 0, k) = (Slice(r, 0, i) \o <<r[j]>>) \o Slice(r, j, k)
  BY <1>5, <1>9, <1>10, Zenon
<1>13. r[j] \in Chars
  BY <1>0
<1> QED  BY <1>1, <1>2, <1>3, <1>4, <1>11, <1>13, Zenon

LEMMA TextBehind ==
    ASSUME NEW r \in Seq(Chars), NEW i \in Nat, NEW j \in Nat, NEW k \in Nat,
           i < j, j <= i + 1, j <= k, k <= Len(r)
    PROVE  Slice(r, i, Len(r)) = <<r[j]>> \o (Slice(r, j, k) \o Slice(r, k, Len(r)))
<1>0. i <= j /\ j <= Len(r) /\ j = i + 1
  OBVIOUS
<1>5. Slice(r, i, j) = <<r[j]>>
  BY <1>0, SliceOne
<1> DEFINE n == Len(r)
<1>6. n \in Nat /\ n <= Len(r) /\ j <= n /\ k <= n
  BY <1>0
<1> HIDE DEF n
<1>7. Slice(r, i, n) = Slice(r, i, j) \o Slice(r, j, n)
  BY <1>0, <1>6, SliceSplit
<1>8. Slice(r, j, n) = Slice(r, j, k) \o Slice(r, k, n)
  BY <1>0, <1>6, SliceSplit
<1> QED  BY <1>5, <1>7, <1>8, Zenon DEF n

(* One substitution: r is the answer, k as far as it is not exchanged yet. *)
LEMMA SubstituteOne ==
    ASSUME NEW r \in Seq(Chars), NEW map, ToTexts(map),
           NEW i \in Nat, NEW j \in Nat, NEW k \in Nat,
           i < j, j <= i + 1, j <= k, k <= Len(r),
           r[j] \in DOMAIN map, \A h \in j + 1 .. k : r[h] \notin DOMAIN map
    PROVE  Splice(Slice(r, 0, k) \o Exchanged(Slice(r, k, Len(r)), map), i, j, map[r[j]])
           = Slice(r, 0, i) \o Exchanged(Slice(r, i, Len(r)), map)
<1> DEFINE a == Slice(r, 0, i)  x == <<r[j]>>  m == Slice(r, j, k)  b == Slice(r, k, Len(r))
           y == map[r[j]]  e == Exchanged(b, map)
<1>1. /\ a \in Texts /\ m \in Texts /\ b \in Texts /\ Len(a) = i /\ r[j] \in Chars
      /\ Len(m) = k - j /\ \A h \in 1 .. k - j : m[h] = r[j + h]
      /\ Slice(r, 0, k) = (a \o x) \o m /\ Slice(r, i, Len(r)) = x \o (m \o b)
  <2>1. a \in Texts /\ m \in Texts /\ b \in Texts /\ Len(a) = i /\ r[j] \in Chars
    BY TextAround
  <2>2. Len(m) = k - j /\ \A h \in 1 .. k - j : m[h] = r[j + h]
    <3>1. Len(Slice(r, j, k)) = k - j
      BY SliceLen
    <3>2. \A h \in 1 .. k - j : Slice(r, j, k)[h] = r[j + h]
      BY SliceLen
    <3> QED  BY <3>1, <3>2, Zenon
  <2>3. Slice(r, 0, k) = (a \o x) \o m
    BY TextAround
  <2>4. Slice(r, i, Len(r)) = x \o (m \o b)
    BY TextBehind
  <2> HIDE DEF a, m, b
  <2> QED  BY <2>1, <2>2, <2>3, <2>4
<1> HIDE DEF a, m, b
<1>2. \A h \in 1 .. Len(m) : m[h] \notin DOMAIN map
  BY <1>1
<1>3. x \in Texts /\ Len(x) = 1 /\ y \in Texts /\ Exchanged(x, map) = y
  BY <1>1, TextOne, ExchangedOne DEF ToTexts
<1> HIDE DEF x, y
<1>4. Exchanged(m, map) = m
  BY <1>1, <1>2, ExchangedSame
<1>5. e \in Texts
  BY <1>1, ExchangeAsMapped
<1> HIDE DEF e
<1>6. m \o b \in Texts /\ m \o e \in Texts /\ a \o x \in Texts
  BY <1>1, <1>3, <1>5, TextConcat, Zenon
<1>7. Exchanged(m \o b, map) = m \o e
  <2>1. Exchanged(m \o b, map) = Exchanged(m, map) \o Exchanged(b, map)
    BY <1>1, ExchangedConcat
  <2> QED  BY <1>4, <2>1, Zenon DEF e
<1>8. Exchanged(x \o (m \o b), map) = y \o (m \o e)
  <2> DEFINE c == m \o b
  <2>1. c \in Texts /\ x \in Texts
    BY <1>3, <1>6
  <2> HIDE DEF c
  <2>2. Exchanged(x \o c, map) = Exchanged(x, map) \o Exchanged(c, map)
    BY <2>1, ExchangedConcat
  <2> QED  BY <1>3, <1>7, <2>2, Zenon DEF c
<1>9. ((a \o x) \o m) \o e = (a \o x) \o (m \o e)
  BY <1>1, <1>5, <1>6, TextAssociative, Zenon
<1>10. Len(a \o x) = j
  <2>1. Len(a \o x) = Len(a) + Len(x)
    BY <1>1, <1>3, TextLen, Zenon
  <2> QED  BY <1>1, <1>3, <2>1
<1>11. Splice((a \o x) \o (m \o e), i, j, y) = a \o (y \o (m \o e))
  <2> DEFINE c == m \o e
  <2>1. c \in Texts /\ a \in Texts /\ x \in Texts /\ y \in Texts
    BY <1>1, <1>3, <1>6
  <2> HIDE DEF c
  <2> DEFINE ax == a \o x  xc == x \o c
  <2>2. ax \in Texts /\ xc \in Texts
    BY <2>1, TextConcat
  <2>3. ax \o c = a \o xc
    BY <2>1, TextAssociative
  <2>4. (a \o y) \o c = a \o (y \o c)
    BY <2>1, TextAssociative
  <2> HIDE DEF ax, xc
  <2>5. Slice(ax \o c, Len(ax), Len(ax \o c)) = c
    BY <2>1, <2>2, TextSlices
  <2>6. Slice(a \o xc, 0, Len(a)) = a
    BY <2>1, <2>2, TextSlices
  <2>7. Len(ax) = j /\ Len(a) = i
    BY <1>1, <1>10 DEF ax
  <2>8. Splice(ax \o c, i, j, y) = (a \o y) \o c
    BY <2>3, <2>5, <2>6, <2>7, Zenon DEF Splice
  <2> QED  BY <2>4, <2>8, Zenon DEF c, ax
<1>12. Splice(Slice(r, 0, k) \o e, i, j, y) = a \o Exchanged(Slice(r, i, Len(r)), map)
  BY <1>1, <1>8, <1>9, <1>11, Zenon
<1> QED  BY <1>12 DEF a, b, e, y

(* No token before k is of the manifest: the exchange is done. *)
LEMMA SubstituteAll ==
    ASSUME NEW r \in Seq(Chars), NEW map, ToTexts(map), NEW k \in Nat, k <= Len(r),
           \A h \in 1 .. k : r[h] \notin DOMAIN map
    PROVE  Slice(r, 0, k) \o Exchanged(Slice(r, k, Len(r)), map) = Exchanged(r, map)
<1> DEFINE a == Slice(r, 0, k)  b == Slice(r, k, Len(r))
<1>1. r = a \o b
  BY SliceCut
<1>2. a \in Texts /\ b \in Texts
  BY SliceCut DEF Texts
<1>3. Len(a) = k /\ \A h \in 1 .. k : a[h] = r[h]
  BY SlicePrefix
<1> HIDE DEF a, b
<1>4. \A h \in 1 .. Len(a) : a[h] \notin DOMAIN map
  BY <1>3
<1>5. Exchanged(a, map) = a
  BY <1>2, <1>4, ExchangedSame
<1>6. Exchanged(a \o b, map) = Exchanged(a, map) \o Exchanged(b, map)
  BY <1>2, ExchangedConcat
<1>7. a \o Exchanged(b, map) = Exchanged(r, map)
  BY <1>1, <1>5, <1>6, Zenon
<1> QED  BY <1>7 DEF a, b

LEMMA SubstituteNone ==
    ASSUME NEW r \in Seq(Chars), NEW map, ToTexts(map)
    PROVE  r = Slice(r, 0, Len(r)) \o Exchanged(Slice(r, Len(r), Len(r)), map)
<1>1. Slice(r, Len(r), Len(r)) = <<>> /\ Slice(r, 0, Len(r)) = r
  BY SliceEmpty, SliceFull
<1>2. Exchanged(<<>>, map) = <<>>
  BY FlattenEmpty DEF Exchanged
<1>3. r \o <<>> = r
  BY ConcatEmptySeq
<1> QED  BY <1>1, <1>2, <1>3, Zenon

LEMMA RestoreStep == TextTypeInv /\ RestoreInv /\ [TextNext]_textVars => RestoreInv'
<1> SUFFICES ASSUME TextTypeInv, RestoreInv, [TextNext]_textVars PROVE RestoreInv'
    OBVIOUS
<1>0. /\ response \in Seq(Chars) /\ Len(response) \in Nat /\ DOMAIN response = 1 .. Len(response)
      /\ ToTexts(values)
  BY SymbolFacts DEF TextTypeInv, TextTypeOK, Chars, Texts, ToTexts
<1>1. ASSUME status' \notin {"refused", "substitute", "restored"} PROVE RestoreInv'
  BY <1>1 DEF RestoreInv
<1>2. CASE Detect
  BY <1>1, <1>2 DEF Detect
<1>3. CASE Resolve
  BY <1>1, <1>3 DEF Resolve
<1>4. CASE Select
  BY <1>1, <1>4 DEF Select
<1>5. CASE Replace
  BY <1>1, <1>5 DEF Replace
<1>6. CASE Conclude
  BY <1>1, <1>6 DEF Conclude, Validate
<1>7. CASE Answer
  BY <1>1, <1>7 DEF Answer
<1>8. ASSUME NEW strict \in BOOLEAN, Classify(strict) PROVE RestoreInv'
  <2>1. response' = response /\ values' = values
    BY <1>8 DEF Classify
  <2>2. CASE strict /\ (Unknown(response, values) \/ Malformed(response))
    <3>1. status' = "refused"
      BY <1>8, <2>2 DEF Classify
    <3>2. Unknown(response', values') \/ Malformed(response')
      BY <2>1, <2>2
    <3> QED  BY <3>1, <3>2 DEF RestoreInv
  <2>3. CASE ~ (strict /\ (Unknown(response, values) \/ Malformed(response)))
    <3>1. status' = "substitute" /\ spans' = KnownTokens(response, values) /\ restored' = response
      BY <1>8, <2>3 DEF Classify
    <3> DEFINE k == Len(response)
    <3>2. k \in 0 .. Len(response)
      BY <1>0
    <3>3. spans' = {i \in KnownTokens(response, values) : i <= k}
      BY <1>0, <3>1 DEF KnownTokens
    <3>4. restored' = Slice(response, 0, k) \o Exchanged(Slice(response, k, Len(response)), values)
      BY <1>0, <3>1, SubstituteNone
    <3> HIDE DEF k
    <3> QED  BY <2>1, <3>1, <3>2, <3>3, <3>4 DEF RestoreInv
  <2> QED  BY <2>2, <2>3
<1>9. CASE Substitute
  <2>1. PICK i \in spans : /\ \A j \in spans : j <= i
                           /\ restored' = Splice(restored, i - 1, i, values[response[i]])
                           /\ spans' = spans \ {i}
    BY <1>9 DEF Substitute
  <2>2. response' = response /\ values' = values /\ status = "substitute" /\ status' = "substitute"
    BY <1>9 DEF Substitute
  <2>3. PICK k \in 0 .. Len(response) :
            /\ spans = {h \in KnownTokens(response, values) : h <= k}
            /\ restored = Slice(response, 0, k) \o Exchanged(Slice(response, k, Len(response)), values)
    BY <2>2 DEF RestoreInv
  <2>4. i \in 1 .. Len(response) /\ i <= k /\ response[i] \in DOMAIN values
    BY <1>0, <2>3 DEF KnownTokens
  <2>5. \A h \in i + 1 .. k : response[h] \notin DOMAIN values
    <3> SUFFICES ASSUME NEW h \in i + 1 .. k, response[h] \in DOMAIN values PROVE FALSE
        OBVIOUS
    <3>1. h \in 1 .. Len(response) /\ h <= k /\ ~ (h <= i)
      BY <1>0, <2>4
    <3>2. h \in spans
      BY <1>0, <2>3, <3>1 DEF KnownTokens
    <3> QED  BY <2>1, <3>1, <3>2
  <2> DEFINE l == i - 1
  <2>6. l \in Nat /\ i \in Nat /\ k \in Nat /\ l < i /\ i <= l + 1 /\ k <= Len(response)
    BY <1>0, <2>4
  <2> HIDE DEF l
  <2>7. Splice(Slice(response, 0, k) \o Exchanged(Slice(response, k, Len(response)), values),
               l, i, values[response[i]])
        = Slice(response, 0, l) \o Exchanged(Slice(response, l, Len(response)), values)
    BY <1>0, <2>4, <2>5, <2>6, SubstituteOne
  <2>8. restored' = Slice(response, 0, l) \o Exchanged(Slice(response, l, Len(response)), values)
    BY <2>1, <2>3, <2>7, Zenon DEF l
  <2>9. spans' = {h \in KnownTokens(response, values) : h <= l}
    <3>1. \A h \in KnownTokens(response, values) : h \in 1 .. Len(response)
      BY <1>0 DEF KnownTokens
    <3>2. \A h \in KnownTokens(response, values) : h <= k /\ h # i => (h <= i <=> h <= l)
      BY <2>6, <3>1 DEF l
    <3>3. \A h \in spans : h <= i
      BY <2>1
    <3>4. ~ (i <= l)
      BY <2>6
    <3>5. \A h \in KnownTokens(response, values) : h <= l => h <= k
      BY <2>4, <2>6, <3>1
    <3> HIDE DEF KnownTokens
    <3> QED  BY <2>1, <2>3, <3>2, <3>3, <3>4, <3>5
  <2>10. l \in 0 .. Len(response)
    BY <1>0, <2>4, <2>6
  <2> QED  BY <2>2, <2>8, <2>9, <2>10 DEF RestoreInv
<1>10. CASE Return
  <2>1. /\ response' = response /\ values' = values /\ restored' = restored
        /\ status = "substitute" /\ status' = "restored" /\ spans = {}
    BY <1>10 DEF Return, answer
  <2>2. PICK k \in 0 .. Len(response) :
            /\ spans = {h \in KnownTokens(response, values) : h <= k}
            /\ restored = Slice(response, 0, k) \o Exchanged(Slice(response, k, Len(response)), values)
    BY <2>1 DEF RestoreInv
  <2>3. \A h \in 1 .. k : response[h] \notin DOMAIN values
    <3> SUFFICES ASSUME NEW h \in 1 .. k, response[h] \in DOMAIN values PROVE FALSE
        OBVIOUS
    <3>1. h \in 1 .. Len(response) /\ h <= k
      BY <1>0
    <3>2. h \in spans
      BY <1>0, <2>2, <3>1 DEF KnownTokens
    <3> QED  BY <2>1, <3>2
  <2>4. k \in Nat /\ k <= Len(response)
    BY <1>0
  <2>5. restored = Exchanged(response, values)
    BY <1>0, <2>2, <2>3, <2>4, SubstituteAll
  <2> QED  BY <2>1, <2>5 DEF RestoreInv
<1>11. CASE UNCHANGED textVars
  BY <1>11 DEF textVars, answer, RestoreInv
<1> QED  BY <1>2, <1>3, <1>4, <1>5, <1>6, <1>7, <1>8, <1>9, <1>10, <1>11 DEF TextNext

LEMMA TokensNameValuesHolds == TextTypeInv /\ SeenInv /\ RestoreInv => TokensNameValues
<1> SUFFICES ASSUME TextTypeInv, SeenInv, RestoreInv PROVE TokensNameValues
    OBVIOUS
<1> USE DEF SeenInv
<1>0. DOMAIN seen \subseteq Seq(Symbols) /\ seen \in [DOMAIN seen -> Token]
  BY DEF TextTypeInv, TextTypeOK
<1>1. CASE status \in Published
  <2>1. values = Manifest /\ masks = {} /\ status \in AfterBlock
    BY <1>1 DEF Published, AfterBlock, Statuses
  <2>2. DOMAIN seen = {Slice(text, e.start, e.end) : e \in Chosen}
    BY <2>1
  <2>3. {values[k] : k \in DOMAIN values} = DOMAIN seen
    BY <1>0, <2>1, ManifestType, ManifestOf
  <2>4. \A k, l \in DOMAIN values : values[k] = values[l] => k = l
    BY <1>0, <2>1, ManifestType
  <2> QED  BY <2>2, <2>3, <2>4 DEF TokensNameValues, RestoreInv
<1>2. CASE status \notin Published
  BY <1>2 DEF TokensNameValues, RestoreInv, Published
<1> QED  BY <1>1, <1>2

TokenInv == TextTypeInv /\ SeenInv /\ RestoreInv

LEMMA TokenInvariant == TextSpec => []TokenInv
BY TypeInit, TypeStep, SeenInit, SeenStep, RestoreInit, RestoreStep, PTL DEF TextSpec, TokenInv

(* TokensNameValues: each value replaced has one token and each token one     *)
(* value, and the restored text is the answer with each token of the manifest *)
(* exchanged, once.                                                           *)
THEOREM OneTokenOneValue == TextSpec => []TokensNameValues
<1>1. TokenInv => TokensNameValues
  BY TokensNameValuesHolds DEF TokenInv
<1> QED  BY <1>1, TokenInvariant, PTL

-----------------------------------------------------------------------------
(* The prompt and the text it was made of *)

Tokenless == ~ (\E i \in DOMAIN text : IsToken(text[i]))

(* At most one of the chosen entities lies past the end of the text. *)
InText == \A d, e \in Chosen : d.end > Len(text) => e.start <= d.start

(* Up to k nothing is replaced yet, and what is to be replaced is there; what *)
(* has been replaced was behind k.                                            *)
Behind(k) ==
    /\ Slice(prompt, 0, k) = Slice(text, 0, k)
    /\ k <= Len(prompt)
    /\ \A d \in masks : d.end <= k
    /\ \A d \in Chosen \ masks : k <= d.start

Shape == (masks = Chosen /\ prompt = text) \/ \E k \in 0 .. Len(text) : Behind(k)

(* A text before, between and behind two positions, which may be past its end. *)
LEMMA CutThree ==
    ASSUME NEW t \in Seq(Chars), NEW i \in Nat, NEW j \in Nat, i < j
    PROVE  /\ Slice(t, 0, i) \in Texts /\ Slice(t, i, j) \in Texts /\ Slice(t, j, Len(t)) \in Texts
           /\ t = (Slice(t, 0, i) \o Slice(t, i, j)) \o Slice(t, j, Len(t))
           /\ i <= Len(t) => Len(Slice(t, 0, i)) = i
           /\ Len(t) <= i => Slice(t, 0, i) = t
<1> DEFINE a == Slice(t, 0, i)  m == Slice(t, i, j)  b == Slice(t, j, Len(t))  n == Len(t)
<1>1. a \in Seq(Chars) /\ m \in Seq(Chars) /\ b \in Seq(Chars) /\ n \in Nat
  BY SliceProperties
<1>2. CASE j <= n
  <2>1. i <= n /\ i <= j
    BY <1>1, <1>2
  <2>2. t = Slice(t, 0, j) \o b /\ Slice(t, 0, j) = a \o m /\ Len(a) = i
    BY <1>2, <2>1, SliceCut, SliceGrow
  <2>3. ~ (n <= i)
    BY <1>1, <1>2
  <2>4. a \in Texts /\ m \in Texts /\ b \in Texts /\ t = (a \o m) \o b
    BY <1>1, <2>2, Zenon DEF Texts
  <2> HIDE DEF a, m, b
  <2> QED  BY <2>2, <2>3, <2>4 DEF a, m, b
<1>3. CASE i <= n /\ n < j
  <2>1. m = Slice(t, i, n)
    BY <1>1, <1>3 DEF Slice
  <2>2. t = a \o Slice(t, i, n) /\ Len(a) = i
    BY <1>3, SliceCut
  <2>3. b = <<>>
    BY <1>1, <1>3, SliceProperties
  <2>4. (a \o m) \o b = a \o m
    <3>1. a \o m \in Seq(Chars)
      BY <1>1, ConcatProperties
    <3> HIDE DEF a, m, b
    <3>2. (a \o m) \o <<>> = a \o m
      BY <3>1, ConcatEmptySeq
    <3> QED  BY <2>3, <3>2
  <2>5. n <= i => a = t
    <3>1. n <= i => i = n
      BY <1>1, <1>3
    <3> QED  BY <3>1, SliceFull
  <2> QED  BY <1>1, <1>3, <2>1, <2>2, <2>4, <2>5 DEF Texts
<1>4. CASE n < i
  <2>1. a = Slice(t, 0, n)
    BY <1>1, <1>4 DEF Slice
  <2>2. a = t
    BY <2>1, SliceFull
  <2>3. n <= i /\ n <= j /\ ~ (i <= n)
    BY <1>1, <1>4
  <2>4. m = <<>> /\ b = <<>>
    BY <1>1, <2>3, SliceProperties
  <2>5. (a \o m) \o b = t
    <3>1. t \o <<>> = t
      BY ConcatEmptySeq
    <3> HIDE DEF a, m, b
    <3> QED  BY <2>2, <2>4, <3>1, Zenon
  <2> QED  BY <1>1, <2>2, <2>3, <2>5 DEF Texts
<1>5. j <= n \/ (i <= n /\ n < j) \/ n < i
  BY <1>1
<1> QED  BY <1>2, <1>3, <1>4, <1>5

(* The last entity still to be replaced starts where the others have ended. *)
LEMMA LastIsApart ==
    ASSUME TextTypeInv, DetectInv, NEW e \in masks, \A d \in masks : d.start <= e.start,
           NEW d \in masks, d # e
    PROVE  d.end <= e.start
<1>1. d \in Chosen /\ e \in Chosen /\ text \in Seq(Symbols) /\ entities \subseteq Candidates(text)
  BY DEF TextTypeInv, TextTypeOK
<1>2. /\ d \in entities /\ d.start \in Nat /\ d.end \in Nat /\ d.start < d.end
      /\ e \in entities /\ e.start \in Nat /\ e.end \in Nat /\ e.start < e.end
  BY <1>1, ChosenFacts
<1>3. ~ Overlap(d, e) /\ d.start <= e.start
  BY <1>2 DEF DetectInv
<1> QED  BY <1>2, <1>3 DEF Overlap

LEMMA ReplaceShape ==
    ASSUME TextTypeInv, DetectInv, InText, Shape,
           NEW e \in masks, \A d \in masks : d.start <= e.start, masks' = masks \ {e},
           NEW token \in Token, Put(token, e), UNCHANGED <<text, config, entities>>
    PROVE  /\ Slice(prompt, e.start, e.end) = Slice(text, e.start, e.end)
           /\ prompt' = (Slice(prompt, 0, e.start) \o <<token>>) \o Slice(prompt, e.end, Len(prompt))
           /\ \E k \in 0 .. Len(text) : /\ k <= e.start /\ Len(Slice(prompt, 0, e.start)) = k
                                        /\ Slice(prompt, 0, e.start) = Slice(text, 0, k)
                                        /\ Behind(k)'
           /\ \/ masks = Chosen /\ prompt = text
              \/ \E k \in 0 .. Len(text) : Behind(k) /\ e.end <= k
<1> DEFINE s == e.start  f == e.end  a == Slice(prompt, 0, s)  b == Slice(prompt, f, Len(prompt))
<1>1. /\ s \in Nat /\ f \in Nat /\ s < f /\ e \in Chosen /\ text \in Seq(Chars) /\ prompt \in Seq(Chars)
      /\ Len(text) \in Nat /\ Len(prompt) \in Nat
  BY ChosenFacts, SymbolFacts DEF TextTypeInv, TextTypeOK, Chars
<1>2. /\ a \in Texts /\ b \in Texts /\ (s <= Len(prompt) => Len(a) = s)
      /\ (Len(prompt) <= s => a = prompt)
  BY <1>1, CutThree
<1>3. \A d \in masks' : d.end <= s
  BY LastIsApart
<1>4. Chosen' = Chosen /\ text' = text
  BY DEF Chosen
<1>5. <<token>> \in Texts /\ <<token>> \o b \in Texts
  BY <1>2, SymbolFacts, TextOne, TextConcat
<1>6. ASSUME ~ PastEnd(e) PROVE prompt' = (a \o <<token>>) \o b /\ prompt' = a \o (<<token>> \o b)
  <2>1. prompt' = (a \o <<token>>) \o b
    BY <1>6 DEF Put, Splice
  <2> HIDE DEF a, b
  <2>2. (a \o <<token>>) \o b = a \o (<<token>> \o b)
    BY <1>2, <1>5, TextAssociative
  <2> QED  BY <2>1, <2>2
<1>7. ASSUME ~ PastEnd(e), NEW k \in 0 .. Len(text), Len(a) = k, a = Slice(text, 0, k), k <= s,
             \A d \in masks' : d.end <= k, \A d \in Chosen \ masks : k <= d.start
      PROVE  Behind(k)'
  <2> DEFINE c == <<token>> \o b
  <2>1. c \in Texts /\ prompt' = a \o c
    BY <1>5, <1>6, <1>7
  <2> HIDE DEF a, c
  <2>2. Slice(a \o c, 0, Len(a)) = a
    BY <1>2, <2>1, TextSlices
  <2>3. Slice(prompt', 0, k) = Slice(text', 0, k)
    BY <1>4, <1>7, <2>1, <2>2, Zenon
  <2>4. Len(a \o c) = Len(a) + Len(c) /\ Len(a) \in Nat /\ Len(c) \in Nat
    BY <1>2, <2>1, TextLen
  <2>5. k <= Len(prompt')
    BY <1>7, <2>1, <2>4
  <2>6. \A d \in Chosen' \ masks' : k <= d.start
    BY <1>4, <1>7
  <2> QED  BY <1>7, <2>3, <2>5, <2>6 DEF Behind
<1>8. CASE masks = Chosen /\ prompt = text
  <2>1. ~ PastEnd(e)
    BY <1>8 DEF PastEnd
  <2>0. PICK k \in 0 .. Len(text) : k = IF s <= Len(text) THEN s ELSE Len(text)
    BY <1>1
  <2>2. k \in 0 .. Len(text) /\ k <= s /\ k \in Nat
    BY <1>1, <2>0
  <2>3. Len(a) = k /\ a = Slice(text, 0, k)
    <3>1. CASE s <= Len(text)
      BY <1>2, <1>8, <2>0, <3>1
    <3>2. CASE ~ (s <= Len(text))
      BY <1>1, <1>2, <1>8, <2>0, <3>2, SliceFull
    <3> QED  BY <3>1, <3>2
  <2>4. ASSUME NEW d \in masks' PROVE d.end <= k
    <3>1. d \in Chosen /\ d # e /\ d.end <= s
      BY <1>3, <1>8
    <3>2. d.start \in Nat /\ d.end \in Nat /\ d.start < d.end
      BY <3>1, ChosenFacts DEF TextTypeInv, TextTypeOK
    <3>3. d.end > Len(text) => s <= d.start
      BY <1>1, <3>1 DEF InText
    <3> QED  BY <1>1, <2>0, <3>1, <3>2, <3>3
  <2>5. \A d \in Chosen \ masks : k <= d.start
    BY <1>8
  <2>6. Behind(k)'
    BY <1>7, <2>1, <2>2, <2>3, <2>4, <2>5
  <2> QED  BY <1>6, <1>8, <2>1, <2>2, <2>3, <2>6
<1>9. CASE \E k \in 0 .. Len(text) : Behind(k)
  <2>1. PICK k \in 0 .. Len(text) : Behind(k)
    BY <1>9
  <2>2. k \in Nat /\ f <= k /\ k <= Len(prompt) /\ k <= Len(text) /\ Slice(prompt, 0, k) = Slice(text, 0, k)
    BY <1>1, <2>1 DEF Behind
  <2>3. s <= k /\ s <= f /\ s <= Len(prompt) /\ s \in 0 .. Len(text) /\ ~ (f > Len(text))
    BY <1>1, <2>2
  <2>4. ~ PastEnd(e)
    BY <2>3 DEF PastEnd
  <2>5. Slice(prompt, s, f) = Slice(text, s, f)
    BY <1>1, <2>2, <2>3, SliceLike
  <2>6. a = Slice(text, 0, s)
    <3> DEFINE z == 0
    <3>1. z \in Nat /\ z <= s
      BY <1>1
    <3> HIDE DEF z
    <3>2. Slice(prompt, z, s) = Slice(text, z, s)
      BY <1>1, <2>2, <2>3, <3>1, SliceLike
    <3> QED  BY <3>2 DEF z
  <2>7. Len(a) = s
    BY <1>2, <2>3
  <2>8. \A d \in Chosen \ masks : s <= d.start
    <3>1. \A d \in Chosen \ masks : k <= d.start /\ d.start \in Nat
      BY <2>1, ChosenFacts DEF Behind, TextTypeInv, TextTypeOK
    <3> QED  BY <1>1, <2>2, <2>3, <3>1
  <2> HIDE DEF a
  <2>9. PICK h \in 0 .. Len(text) : h = s
    BY <2>3
  <2>10. h <= s /\ Len(a) = h /\ a = Slice(text, 0, h)
    BY <1>1, <2>6, <2>7, <2>9
  <2>11. (\A d \in masks' : d.end <= h) /\ \A d \in Chosen \ masks : h <= d.start
    BY <1>3, <2>8, <2>9
  <2>12. Behind(h)'
    BY <1>7, <2>4, <2>10, <2>11
  <2> QED  BY <1>6, <2>1, <2>2, <2>4, <2>5, <2>10, <2>12 DEF a
<1> QED  BY <1>8, <1>9 DEF Shape

(* The tokens of a text are in the domain of a mapping. *)
KnownTo(t, map) == \A i \in 1 .. Len(t) : t[i] \in Token => t[i] \in DOMAIN map

LEMMA KnownConcat ==
    ASSUME NEW t \in Texts, NEW u \in Texts, NEW map
    PROVE  KnownTo(t \o u, map) <=> KnownTo(t, map) /\ KnownTo(u, map)
<1>1. /\ Len(t \o u) = Len(t) + Len(u) /\ Len(t) \in Nat /\ Len(u) \in Nat
      /\ \A i \in 1 .. Len(t) + Len(u) : (t \o u)[i] = IF i <= Len(t) THEN t[i] ELSE u[i - Len(t)]
  BY ConcatProperties DEF Texts
<1> DEFINE v == t \o u
<1> HIDE DEF v
<1>2. ASSUME KnownTo(v, map) PROVE KnownTo(t, map) /\ KnownTo(u, map)
  <2>1. ASSUME NEW i \in 1 .. Len(t), t[i] \in Token PROVE t[i] \in DOMAIN map
    <3>1. i \in 1 .. Len(v) /\ v[i] = t[i]
      BY <1>1 DEF v
    <3> QED  BY <1>2, <2>1, <3>1 DEF KnownTo
  <2>2. ASSUME NEW i \in 1 .. Len(u), u[i] \in Token PROVE u[i] \in DOMAIN map
    <3> DEFINE j == Len(t) + i
    <3>1. j \in 1 .. Len(t) + Len(u) /\ ~ (j <= Len(t)) /\ j - Len(t) = i
      BY <1>1
    <3> HIDE DEF j
    <3>2. j \in 1 .. Len(v) /\ v[j] = u[i]
      BY <1>1, <3>1 DEF v
    <3> QED  BY <1>2, <2>2, <3>2 DEF KnownTo
  <2> QED  BY <2>1, <2>2 DEF KnownTo
<1>3. ASSUME KnownTo(t, map), KnownTo(u, map) PROVE KnownTo(v, map)
  <2>1. ASSUME NEW i \in 1 .. Len(v), v[i] \in Token PROVE v[i] \in DOMAIN map
    <3>1. CASE i <= Len(t)
      <4>1. i \in 1 .. Len(t) /\ v[i] = t[i]
        BY <1>1, <3>1 DEF v
      <4> QED  BY <1>3, <2>1, <4>1 DEF KnownTo
    <3>2. CASE ~ (i <= Len(t))
      <4>1. i - Len(t) \in 1 .. Len(u) /\ v[i] = u[i - Len(t)]
        BY <1>1, <3>2 DEF v
      <4> QED  BY <1>3, <2>1, <4>1 DEF KnownTo
    <3> QED  BY <3>1, <3>2
  <2> QED  BY <2>1 DEF KnownTo
<1> QED  BY <1>2, <1>3 DEF v

(* A larger mapping exchanges the tokens the smaller one knows as it does. *)
LEMMA ExchangedMore ==
    ASSUME NEW t \in Texts, NEW map, NEW more, KnownTo(t, map),
           DOMAIN more \subseteq Token, \A k \in DOMAIN map : k \in DOMAIN more /\ more[k] = map[k]
    PROVE  Exchanged(t, more) = Exchanged(t, map) /\ KnownTo(t, more)
<1>1. \A i \in 1 .. Len(t) : /\ t[i] \in DOMAIN more <=> t[i] \in DOMAIN map
                             /\ t[i] \in DOMAIN more => more[t[i]] = map[t[i]]
  BY DEF KnownTo
<1>2. Exchanged(t, more) = Exchanged(t, map)
  BY <1>1, ExchangedLike
<1> QED  BY <1>2 DEF KnownTo

ThreeTexts(t, u, w) == t \in Texts /\ u \in Texts /\ w \in Texts

LEMMA ExchangedThree ==
    ASSUME NEW t, NEW u, NEW w, ThreeTexts(t, u, w), NEW map, ToTexts(map)
    PROVE  Exchanged((t \o u) \o w, map) = (Exchanged(t, map) \o Exchanged(u, map)) \o Exchanged(w, map)
<1> USE DEF ThreeTexts
<1> DEFINE c == t \o u
<1>1. c \in Texts
  BY TextConcat
<1>2. Exchanged(c, map) = Exchanged(t, map) \o Exchanged(u, map)
  BY ExchangedConcat
<1> HIDE DEF c
<1>3. Exchanged(c \o w, map) = Exchanged(c, map) \o Exchanged(w, map)
  BY <1>1, ExchangedConcat
<1> QED  BY <1>2, <1>3, Zenon DEF c

(* A value is replaced by its token: exchanging the tokens undoes it. *)
LEMMA ReplaceUndone ==
    ASSUME NEW a \in Texts, NEW v \in Texts, NEW b \in Texts, NEW token \in Token,
           NEW map, NEW more, ToTexts(map), ToTexts(more),
           DOMAIN map \subseteq Token, DOMAIN more \subseteq Token,
           \A k \in DOMAIN map : k \in DOMAIN more /\ more[k] = map[k],
           token \in DOMAIN more, more[token] = v, \A i \in 1 .. Len(v) : v[i] \notin Token,
           KnownTo((a \o v) \o b, map)
    PROVE  /\ Exchanged((a \o <<token>>) \o b, more) = Exchanged((a \o v) \o b, map)
           /\ KnownTo((a \o <<token>>) \o b, more)
<1> DEFINE x == <<token>>
<1>1. x \in Texts /\ Exchanged(x, more) = v
  BY SymbolFacts, TextOne, ExchangedOne
<1>2. KnownTo(x, more)
  BY DEF KnownTo
<1> HIDE DEF x
<1>3. a \o v \in Texts /\ a \o x \in Texts
  BY <1>1, TextConcat
<1>4. KnownTo(a \o v, map) /\ KnownTo(b, map)
  BY <1>3, KnownConcat
<1>5. KnownTo(a, map)
  BY <1>4, KnownConcat
<1>6. Exchanged(v, map) = v
  BY ExchangedSame
<1>7. Exchanged(a, more) = Exchanged(a, map) /\ KnownTo(a, more)
  BY <1>5, ExchangedMore
<1>8. Exchanged(b, more) = Exchanged(b, map) /\ KnownTo(b, more)
  BY <1>4, ExchangedMore
<1>9. KnownTo((a \o x) \o b, more)
  <2>1. KnownTo(a \o x, more)
    BY <1>1, <1>2, <1>7, KnownConcat
  <2> QED  BY <1>3, <1>8, <2>1, KnownConcat
<1>10. Exchanged((a \o v) \o b, map) = (Exchanged(a, map) \o Exchanged(v, map)) \o Exchanged(b, map)
  <2>1. ThreeTexts(a, v, b)
    BY DEF ThreeTexts
  <2> QED  BY <2>1, ExchangedThree
<1>11. Exchanged((a \o x) \o b, more) = (Exchanged(a, more) \o Exchanged(x, more)) \o Exchanged(b, more)
  <2>1. ThreeTexts(a, x, b)
    BY <1>1 DEF ThreeTexts
  <2> QED  BY <2>1, ExchangedThree
<1>12. Exchanged((a \o x) \o b, more) = Exchanged((a \o v) \o b, map)
  BY <1>1, <1>6, <1>7, <1>8, <1>10, <1>11, Zenon
<1> QED  BY <1>9, <1>12 DEF x

(* As far as entities lie in the text, the tokens put into the prompt stand   *)
(* for what was there.                                                        *)
TextInv ==
    status \in AfterBlock /\ InText =>
        /\ Shape
        /\ Tokenless => Exchanged(prompt, Manifest) = text /\ KnownTo(prompt, Manifest)

LEMMA TextInvInit == TextInit => TextInv
BY DEF TextInit, TextInv, AfterBlock

LEMMA Unexchanged ==
    ASSUME NEW t \in Texts, NEW map, DOMAIN map \subseteq Token, \A i \in 1 .. Len(t) : t[i] \notin Token
    PROVE  Exchanged(t, map) = t /\ KnownTo(t, map)
<1>1. \A i \in 1 .. Len(t) : t[i] \notin DOMAIN map
  OBVIOUS
<1> QED  BY <1>1, ExchangedSame DEF KnownTo

LEMMA TextInvStep ==
    TextTypeInv /\ TextTypeInv' /\ DetectInv /\ SeenInv /\ SeenInv' /\ TextInv /\ [TextNext]_textVars
        => TextInv'
<1> SUFFICES ASSUME TextTypeInv, TextTypeInv', DetectInv, SeenInv, SeenInv', TextInv, [TextNext]_textVars,
                    status' \in AfterBlock, InText'
             PROVE  Shape' /\ (Tokenless' => Exchanged(prompt, Manifest)' = text' /\ KnownTo(prompt, Manifest)')
    BY DEF TextInv
<1>0. /\ text \in Texts /\ prompt \in Texts
      /\ DOMAIN seen \subseteq Seq(Symbols) /\ seen \in [DOMAIN seen -> Token]
      /\ DOMAIN seen' \subseteq Seq(Symbols) /\ seen' \in [DOMAIN seen' -> Token]
  BY SymbolFacts DEF TextTypeInv, TextTypeOK, Chars, Texts
<1>1. CASE Detect
  BY <1>1 DEF Detect, AfterBlock
<1>2. CASE Resolve
  BY <1>2 DEF Resolve, AfterBlock
<1>3. CASE Select
  <2>1. /\ status' = "tokenize" /\ masks' = Chosen /\ prompt' = text /\ text' = text /\ seen' = seen
        /\ Chosen' = Chosen
    BY <1>3 DEF Select, AfterBlock, input, detector, Chosen
  <2>2. Shape'
    BY <2>1 DEF Shape
  <2>3. ASSUME Tokenless PROVE Exchanged(text, Manifest) = text /\ KnownTo(text, Manifest)
    <3>1. \A i \in 1 .. Len(text) : text[i] \notin Token
      BY <1>0, <2>3 DEF Tokenless, IsToken, Texts
    <3> QED  BY <1>0, <3>1, ManifestType, Unexchanged
  <2>4. Manifest' = Manifest /\ (Tokenless' => Tokenless)
    BY <2>1 DEF Manifest, Tokenless
  <2> QED  BY <2>1, <2>2, <2>3, <2>4 DEF KnownTo, Exchanged
<1>4. CASE Replace
  <2>1. PICK e \in masks :
            /\ \A d \in masks : d.start <= e.start
            /\ Assign(e.type, Slice(text, e.start, e.end))
            /\ Put(seen'[Slice(text, e.start, e.end)], e)
            /\ masks' = masks \ {e}
    BY <1>4 DEF Replace
  <2>2. /\ UNCHANGED <<text, config, entities>> /\ status = "tokenize" /\ status' = "tokenize"
        /\ InText /\ Shape
    BY <1>4 DEF Replace, input, detector, InText, Chosen, TextInv, AfterBlock, Statuses
  <2> DEFINE v == Slice(text, e.start, e.end)  a == Slice(prompt, 0, e.start)
             b == Slice(prompt, e.end, Len(prompt))
  <2>3. /\ e.start \in Nat /\ e.end \in Nat /\ e.start < e.end /\ e.type \in Types
        /\ v \in Seq(Symbols) /\ v \in Texts /\ TextTypeOK
    BY ChosenFacts, SymbolFacts DEF TextTypeInv, TextTypeOK, Texts
  <2>4. /\ seen'[v] \in Token /\ v \in DOMAIN seen'
        /\ \A w \in DOMAIN seen : w \in DOMAIN seen' /\ seen'[w] = seen[w]
    <3>1. Assign(e.type, v)
      BY <2>1
    <3> HIDE DEF v
    <3> QED  BY <2>3, <3>1, AssignType
  <2>5. PICK token \in Token : token = seen'[v]
    BY <2>4
  <2>6. Put(token, e)
    BY <2>1, <2>5
  <2>7. /\ Slice(prompt, e.start, e.end) = v
        /\ prompt' = (a \o <<token>>) \o b
        /\ \E k \in 0 .. Len(text) : Behind(k)'
    BY <2>1, <2>2, <2>6, ReplaceShape
  <2>8. Shape'
    BY <2>2, <2>7 DEF Shape
  <2>9. ASSUME Tokenless'
        PROVE  Exchanged(prompt', Manifest') = text' /\ KnownTo(prompt', Manifest')
    <3>1. Tokenless
      BY <2>2, <2>9 DEF Tokenless
    <3>2. Exchanged(prompt, Manifest) = text /\ KnownTo(prompt, Manifest)
      BY <2>2, <3>1 DEF TextInv, AfterBlock, Statuses
    <3>3. /\ a \in Texts /\ b \in Texts /\ prompt = (a \o v) \o b
      <4> DEFINE c == Slice(prompt, e.start, e.end)
      <4>1. prompt \in Seq(Chars)
        BY <1>0 DEF Texts
      <4>2. a \in Texts /\ b \in Texts /\ prompt = (a \o c) \o b
        BY <2>3, <4>1, CutThree
      <4>3. c = v
        BY <2>7
      <4> HIDE DEF a, b, c, v
      <4> QED  BY <4>2, <4>3
    <3>4. \A i \in 1 .. Len(v) : v[i] \notin Token
      <4>1. \A i \in 1 .. Len(text) : text[i] \notin Token
        BY <1>0, <3>1 DEF Tokenless, IsToken, Texts
      <4>2. ASSUME NEW i \in 1 .. Len(v) PROVE v[i] \notin Token
        <5>1. v[i] = text[e.start + i] /\ e.start + i \in 1 .. Len(text)
          BY <1>0, <2>3, SliceWithin DEF Texts
        <5> QED  BY <4>1, <5>1
      <4> QED  BY <4>2
    <3> DEFINE map == Manifest  more == Manifest'
    <3>5. /\ DOMAIN map \subseteq Token /\ ToTexts(map)
          /\ \A k \in DOMAIN map : map[k] \in DOMAIN seen /\ seen[map[k]] = k
      BY <1>0, ManifestType, SymbolFacts DEF ToTexts, Texts
    <3>6. /\ DOMAIN more \subseteq Token /\ ToTexts(more)
          /\ \A w \in DOMAIN seen' : seen'[w] \in DOMAIN more /\ more[seen'[w]] = w
      <4>1. \A w \in DOMAIN seen' : seen'[w] \in DOMAIN more /\ more[seen'[w]] = w
        BY DEF Manifest, SeenInv
      <4>2. DOMAIN more = {seen'[w] : w \in DOMAIN seen'}
        BY DEF Manifest
      <4>3. DOMAIN more \subseteq Token
        BY <1>0, <4>2
      <4>4. ToTexts(more)
        <5>1. \A w \in DOMAIN seen' : w \in Texts
          BY <1>0, SymbolFacts DEF Texts
        <5> HIDE DEF more
        <5>2. \A k \in DOMAIN more : more[k] \in Texts
          BY <4>1, <4>2, <5>1
        <5> QED  BY <5>2 DEF ToTexts
      <4> QED  BY <4>1, <4>3, <4>4
    <3> HIDE DEF map, more, a, b, v
    <3>7. \A k \in DOMAIN map : k \in DOMAIN more /\ more[k] = map[k]
      BY <2>4, <3>5, <3>6
    <3>8. token \in DOMAIN more /\ more[token] = v
      BY <2>4, <2>5, <3>6
    <3>9. KnownTo((a \o v) \o b, map)
      BY <3>2, <3>3 DEF map
    <3>10. /\ Exchanged((a \o <<token>>) \o b, more) = Exchanged((a \o v) \o b, map)
           /\ KnownTo((a \o <<token>>) \o b, more)
      BY <2>3, <3>3, <3>4, <3>5, <3>6, <3>7, <3>8, <3>9, ReplaceUndone
    <3>11. Exchanged((a \o v) \o b, map) = text
      BY <3>2, <3>3 DEF map
    <3>12. Exchanged(prompt', more) = text' /\ KnownTo(prompt', more)
      BY <2>2, <2>7, <3>10, <3>11
    <3> QED  BY <3>12 DEF more
  <2> QED  BY <2>8, <2>9 DEF Exchanged, KnownTo
<1>5. ASSUME UNCHANGED <<text, config, entities, masks, seen, prompt>>, status \in AfterBlock
      PROVE  Shape' /\ (Tokenless' => Exchanged(prompt, Manifest)' = text' /\ KnownTo(prompt, Manifest)')
  <2>1. Chosen' = Chosen /\ Manifest' = Manifest /\ (Tokenless' <=> Tokenless) /\ InText
    BY <1>5 DEF Chosen, Manifest, Tokenless, InText
  <2>2. Shape /\ (Tokenless => Exchanged(prompt, Manifest) = text /\ KnownTo(prompt, Manifest))
    BY <1>5, <2>1 DEF TextInv
  <2>3. Shape'
    BY <1>5, <2>1, <2>2 DEF Shape, Behind
  <2> QED  BY <1>5, <2>1, <2>2, <2>3 DEF Exchanged, KnownTo
<1>6. CASE Conclude
  BY <1>5, <1>6 DEF Conclude, input, detector, tokenizer, AfterBlock, Statuses, Published
<1>7. CASE Answer
  BY <1>5, <1>7 DEF Answer, input, detector, tokenizer, AfterBlock, Statuses, Published
<1>8. ASSUME NEW strict \in BOOLEAN, Classify(strict)
      PROVE  Shape' /\ (Tokenless' => Exchanged(prompt, Manifest)' = text' /\ KnownTo(prompt, Manifest)')
  BY <1>5, <1>8 DEF Classify, input, detector, tokenizer, AfterBlock, Statuses, Published
<1>9. CASE Substitute
  BY <1>5, <1>9 DEF Substitute, input, detector, tokenizer
<1>10. CASE Return
  BY <1>5, <1>10 DEF Return, input, detector, tokenizer, AfterBlock, Statuses, Published
<1>11. CASE UNCHANGED textVars
  BY <1>5, <1>11 DEF textVars, input, detector, tokenizer
<1> QED  BY <1>1, <1>2, <1>3, <1>4, <1>6, <1>7, <1>8, <1>9, <1>10, <1>11 DEF TextNext

(* Nothing in a prompt that passed is unknown or malformed, and exchanging    *)
(* its tokens gives the text.                                                 *)
LEMMA RoundTripHolds ==
    TextTypeInv /\ SeenInv /\ RestoreInv /\ TextInv => RoundTripWithinText
<1> SUFFICES ASSUME TextTypeInv, SeenInv, RestoreInv, TextInv, InText,
                    status \in {"refused", "restored"}, response = prompt, Tokenless
             PROVE  status = "restored" /\ restored = text
    BY DEF RoundTripWithinText, RoundTrip, InText, Tokenless
<1>1. status \in Published /\ status \in AfterBlock
  BY DEF Published, AfterBlock, Statuses
<1>2. values = Manifest /\ Validate(prompt) = "OK"
  BY <1>1 DEF SeenInv
<1>3. Exchanged(prompt, Manifest) = text /\ KnownTo(prompt, Manifest)
  BY <1>1 DEF TextInv
<1>4. prompt \in Seq(Symbols \cup Token) /\ DOMAIN prompt = 1 .. Len(prompt)
  BY DEF TextTypeInv, TextTypeOK
<1>5. \A i \in DOMAIN prompt : IsToken(prompt[i]) => prompt[i] \in DOMAIN Manifest
  BY <1>3, <1>4 DEF KnownTo, IsToken
<1>6. ~ Unknown(prompt, Manifest)
  BY <1>5 DEF Unknown
<1>7. \A k \in DOMAIN Manifest : k.num # 0
  <2>1. ASSUME NEW k \in DOMAIN Manifest PROVE k.num # 0
    <3>1. PICK v \in DOMAIN seen : k = seen[v]
      BY DEF Manifest
    <3>2. k.num \in 1 .. counters[k.type]
      BY <3>1 DEF SeenInv
    <3> QED  BY <3>2
  <2> QED  BY <2>1
<1>8. ~ \E i, j \in DOMAIN prompt : Group(prompt, i, j)
  BY <1>2 DEF Validate
<1>9. ~ Malformed(prompt)
  BY <1>5, <1>7, <1>8 DEF Malformed
<1> QED  BY <1>2, <1>3, <1>6, <1>9 DEF RestoreInv

PassageInv == TextTypeInv /\ DetectInv /\ SeenInv /\ RestoreInv /\ TextInv

LEMMA PassageInvariant == TextSpec => []PassageInv
<1>1. TextInit => PassageInv
  BY TypeInit, DetectInit, SeenInit, RestoreInit, TextInvInit DEF PassageInv
<1>2. PassageInv /\ [TextNext]_textVars => PassageInv'
  BY TypeStep, DetectStep, SeenStep, RestoreStep, TextInvStep DEF PassageInv
<1> QED  BY <1>1, <1>2, PTL DEF TextSpec

(* RoundTripWithinText: as far as the chosen entities lie in the text, the    *)
(* prompt given back is not refused, and its restoration is the text.         *)
THEOREM RestoredToTheLetter == TextSpec => []RoundTripWithinText
<1>1. PassageInv => RoundTripWithinText
  BY RoundTripHolds DEF PassageInv
<1> QED  BY <1>1, PassageInvariant, PTL

-----------------------------------------------------------------------------
(* Names in texts whose letters have one lower case, of one letter *)

AtLength ==
    \A i \in DOMAIN text : text[i] \in Letters =>
        Len(Lower[text[i]]) = 1 /\ FinalLower[text[i]] = Lower[text[i]]

LetterRun(i, n) == i + n <= Len(prompt) /\ \A h \in 1 .. n : prompt[i + h] \in Letters

(* The n symbols of the prompt after position i are those of the text after   *)
(* position o, where no entity has been replaced.                             *)
CopyOf(i, n, o) ==
    /\ o + n <= Len(text)
    /\ \A h \in 1 .. n : text[o + h] = prompt[i + h]
    /\ \A d \in Chosen \ masks : d.end <= o \/ o + n <= d.start

(* Behind k no letters have come together that were not together in the text. *)
Clean(k) ==
    /\ k < Len(prompt) => prompt[k + 1] \notin Letters
    /\ \A i, n \in Nat : k <= i /\ 0 < n /\ LetterRun(i, n) =>
           \E o \in Nat : k <= o /\ CopyOf(i, n, o)

NameInv ==
    status \in AfterBlock /\ AtLength => \E k \in 0 .. Len(text) : Behind(k) /\ Clean(k)

(* Positions in the lower-case text are positions in the text. *)
LEMMA AtLengthInText ==
    ASSUME TextTypeInv, AtLength, NEW e \in Chosen
    PROVE  e.start \in Nat /\ e.end \in Nat /\ e.start < e.end /\ e.end <= Len(text)
<1>1. text \in Seq(Chars) /\ e \in Candidates(text)
  BY SymbolFacts DEF TextTypeInv, TextTypeOK, Chosen
<1>2. Len(LowerText(text)) = Len(text)
  BY <1>1, LowerAtLength DEF AtLength, Steady
<1> QED  BY <1>1, <1>2, CandidateFacts

LEMMA RunCopied ==
    ASSUME TextTypeInv, NEW k \in 0 .. Len(text), Behind(k), Clean(k),
           NEW i \in Nat, NEW n \in Nat, 0 < n, LetterRun(i, n)
    PROVE  \E o \in Nat : (o = i \/ k <= o) /\ CopyOf(i, n, o)
<1>1. /\ text \in Seq(Chars) /\ prompt \in Seq(Chars) /\ k \in Nat /\ k <= Len(text) /\ k <= Len(prompt)
      /\ Len(text) \in Nat /\ Len(prompt) \in Nat
  BY SymbolFacts DEF TextTypeInv, TextTypeOK, Chars, Behind
<1>2. CASE k <= i
  BY <1>2 DEF Clean
<1>3. CASE i + n <= k
  <2>1. \A h \in 1 .. k : text[h] = prompt[h]
    <3>1. /\ \A h \in 1 .. k : Slice(text, 0, k)[h] = text[h]
          /\ \A h \in 1 .. k : Slice(prompt, 0, k)[h] = prompt[h]
      BY <1>1, SlicePrefix
    <3>2. Slice(prompt, 0, k) = Slice(text, 0, k)
      BY DEF Behind
    <3> QED  BY <3>1, <3>2
  <2>2. \A h \in 1 .. n : i + h \in 1 .. k
    BY <1>1, <1>3
  <2>3. \A d \in Chosen \ masks : i + n <= d.start
    <3>1. \A d \in Chosen \ masks : k <= d.start /\ d.start \in Nat
      BY ChosenFacts DEF Behind, TextTypeInv, TextTypeOK
    <3> QED  BY <1>1, <1>3, <3>1
  <2>4. i + n <= Len(text)
    BY <1>1, <1>3
  <2>5. CopyOf(i, n, i)
    BY <2>1, <2>2, <2>3, <2>4 DEF CopyOf
  <2> QED  BY <2>5
<1>4. CASE i < k /\ k < i + n
  <2> DEFINE g == k + 1 - i
  <2>1. g \in 1 .. n /\ i + g = k + 1 /\ k < Len(prompt)
    BY <1>1, <1>4 DEF LetterRun
  <2> HIDE DEF g
  <2>2. prompt[i + g] \in Letters
    BY <2>1 DEF LetterRun
  <2> QED  BY <2>1, <2>2 DEF Clean
<1> QED  BY <1>1, <1>2, <1>3, <1>4

(* Where things are in a text after a replacement. *)
Replaced(t, x, s, f, u) == u = (Slice(t, 0, s) \o <<x>>) \o Slice(t, f, Len(t))

LEMMA ReplacedPlaces ==
    ASSUME NEW t \in Seq(Chars), NEW x \in Chars, NEW s \in Nat, NEW f \in Nat, s < f, f <= Len(t),
           NEW u, Replaced(t, x, s, f, u)
    PROVE  /\ Len(u) = s + 1 + (Len(t) - f) /\ u[s + 1] = x
           /\ \A h \in 1 .. Len(t) - f : u[(s + 1) + h] = t[f + h]
<1> DEFINE a == Slice(t, 0, s)  b == Slice(t, f, Len(t))  y == <<x>>
<1>1. s <= Len(t) /\ Len(t) \in Nat /\ Len(t) <= Len(t)
  OBVIOUS
<1>2. a \in Seq(Chars) /\ Len(a) = s
  BY <1>1, SlicePrefix
<1>3. b \in Seq(Chars) /\ Len(b) = Len(t) - f /\ \A h \in 1 .. Len(t) - f : b[h] = t[f + h]
  BY <1>1, SliceLen
<1>4. y \in Seq(Chars) /\ Len(y) = 1 /\ y[1] = x
  OBVIOUS
<1>5. u = (a \o y) \o b
  BY DEF Replaced
<1> HIDE DEF a, b, y
<1> DEFINE c == a \o y
<1>6. /\ c \in Seq(Chars) /\ Len(c) = s + 1
      /\ \A h \in 1 .. s + 1 : c[h] = IF h <= s THEN a[h] ELSE y[h - s]
  <2>1. c \in Seq(Chars) /\ Len(c) = Len(a) + Len(y)
    BY <1>2, <1>4, ConcatProperties
  <2>2. \A h \in 1 .. Len(a) + Len(y) : c[h] = IF h <= Len(a) THEN a[h] ELSE y[h - Len(a)]
    BY <1>2, <1>4, ConcatProperties
  <2> HIDE DEF c
  <2> QED  BY <1>2, <1>4, <2>1, <2>2
<1>7. c[s + 1] = x
  <2>1. s + 1 \in 1 .. s + 1 /\ ~ (s + 1 <= s) /\ s + 1 - s = 1
    OBVIOUS
  <2> HIDE DEF c
  <2> QED  BY <1>4, <1>6, <2>1
<1>8. u = c \o b
  BY <1>5
<1> HIDE DEF c
<1>9. Len(c \o b) = Len(c) + Len(b)
      /\ \A h \in 1 .. Len(c) + Len(b) : (c \o b)[h] = IF h <= Len(c) THEN c[h] ELSE b[h - Len(c)]
  BY <1>3, <1>6, ConcatProperties
<1>10. Len(u) = s + 1 + (Len(t) - f)
  BY <1>3, <1>6, <1>8, <1>9
<1>11. u[s + 1] = x
  <2>1. s + 1 \in 1 .. Len(c) + Len(b) /\ s + 1 <= Len(c)
    BY <1>1, <1>3, <1>6
  <2> QED  BY <1>7, <1>8, <1>9, <2>1
<1>12. ASSUME NEW h \in 1 .. Len(t) - f PROVE u[(s + 1) + h] = t[f + h]
  <2> DEFINE g == (s + 1) + h
  <2>1. g \in 1 .. Len(c) + Len(b) /\ ~ (g <= Len(c)) /\ g - Len(c) = h
    BY <1>1, <1>3, <1>6
  <2> HIDE DEF g
  <2>2. (c \o b)[g] = b[h]
    BY <1>9, <2>1
  <2> QED  BY <1>3, <1>8, <2>2 DEF g
<1> QED  BY <1>10, <1>11, <1>12

LEMMA ReplaceClean ==
    ASSUME TextTypeInv, DetectInv, AtLength, NEW k \in 0 .. Len(text), Behind(k), Clean(k),
           NEW e \in masks, \A d \in masks : d.start <= e.start, masks' = masks \ {e},
           NEW token \in Token, Put(token, e), UNCHANGED <<text, config, entities>>
    PROVE  \E h \in 0 .. Len(text) : Behind(h)' /\ Clean(h)'
<1> DEFINE s == e.start  f == e.end
<1>1. /\ text \in Seq(Chars) /\ prompt \in Seq(Chars) /\ Len(text) \in Nat /\ Len(prompt) \in Nat
      /\ k \in Nat /\ k <= Len(text) /\ k <= Len(prompt) /\ e \in Chosen
  BY SymbolFacts DEF TextTypeInv, TextTypeOK, Chars, Behind
<1>2. s \in Nat /\ f \in Nat /\ s < f /\ f <= k /\ f <= Len(prompt) /\ s \in 0 .. Len(text)
  <2>1. s \in Nat /\ f \in Nat /\ s < f /\ f <= k
    BY <1>1, AtLengthInText DEF Behind
  <2> QED  BY <1>1, <2>1
<1>3. InText /\ Shape
  <2>1. \A d \in Chosen : d.end \in Nat /\ d.end <= Len(text)
    BY AtLengthInText
  <2>2. ~ \E d \in Chosen : d.end > Len(text)
    BY <1>1, <2>1
  <2> QED  BY <2>2 DEF InText, Shape
<1>4. /\ prompt' = (Slice(prompt, 0, s) \o <<token>>) \o Slice(prompt, f, Len(prompt))
      /\ \E h \in 0 .. Len(text) : Len(Slice(prompt, 0, s)) = h /\ Behind(h)'
  BY <1>3, ReplaceShape
<1> HIDE DEF s, f
<1>5. Len(Slice(prompt, 0, s)) = s
  <2>1. s <= Len(prompt)
    BY <1>1, <1>2
  <2> QED  BY <1>1, <1>2, <2>1, SlicePrefix
<1>6. PICK m \in 0 .. Len(text) : m = s /\ Behind(m)'
  BY <1>4, <1>5
<1>7. /\ Len(prompt') = s + 1 + (Len(prompt) - f) /\ prompt'[s + 1] = token
      /\ \A h \in 1 .. Len(prompt) - f : prompt'[(s + 1) + h] = prompt[f + h]
  <2> DEFINE u == prompt'
  <2>1. token \in Chars /\ Replaced(prompt, token, s, f, u)
    BY <1>4, SymbolFacts DEF Replaced
  <2> HIDE DEF u
  <2>2. Len(u) = s + 1 + (Len(prompt) - f) /\ u[s + 1] = token
    BY <1>1, <1>2, <2>1, ReplacedPlaces
  <2>3. \A h \in 1 .. Len(prompt) - f : u[(s + 1) + h] = prompt[f + h]
    BY <1>1, <1>2, <2>1, ReplacedPlaces
  <2> QED  BY <2>2, <2>3 DEF u
<1>8. token \notin Letters
  BY SymbolFacts
<1>9. Chosen' = Chosen /\ text' = text
  BY DEF Chosen
<1>10. ASSUME NEW i \in Nat, NEW n \in Nat, m <= i, 0 < n, LetterRun(i, n)'
       PROVE  \E o \in Nat : m <= o /\ CopyOf(i, n, o)'
  <2>1. i + n <= Len(prompt') /\ \A h \in 1 .. n : prompt'[i + h] \in Letters
    BY <1>10 DEF LetterRun
  <2>2. i # s
    <3>1. 1 \in 1 .. n
      BY <1>10
    <3> QED  BY <1>7, <1>8, <2>1, <3>1
  <2>3. s < i
    BY <1>2, <1>6, <1>10, <2>2
  <2> DEFINE j == (i - (s + 1)) + f
  <2>4. j \in Nat /\ f <= j /\ j + n <= Len(prompt)
    BY <1>1, <1>2, <1>7, <2>1, <2>3
  <2>5. ASSUME NEW h \in 1 .. n PROVE prompt'[i + h] = prompt[j + h]
    <3> DEFINE g == (i - (s + 1)) + h
    <3>1. g \in 1 .. Len(prompt) - f /\ (s + 1) + g = i + h /\ f + g = j + h
      BY <1>1, <1>2, <2>3, <2>4
    <3> HIDE DEF g, j
    <3> QED  BY <1>7, <3>1
  <2> HIDE DEF j
  <2>6. LetterRun(j, n)
    BY <2>1, <2>4, <2>5 DEF LetterRun
  <2>7. PICK o \in Nat : (o = j \/ k <= o) /\ CopyOf(j, n, o)
    BY <1>10, <2>4, <2>6, RunCopied
  <2>8. f <= o /\ m <= o
    BY <1>1, <1>2, <1>6, <2>4, <2>7
  <2>9. \A h \in 1 .. n : text'[o + h] = prompt'[i + h]
    BY <1>9, <2>5, <2>7 DEF CopyOf
  <2>10. \A d \in Chosen' \ masks' : d.end <= o \/ o + n <= d.start
    <3>1. Chosen' \ masks' \subseteq (Chosen \ masks) \cup {e}
      BY <1>9
    <3>2. \A d \in Chosen \ masks : d.end <= o \/ o + n <= d.start
      BY <2>7 DEF CopyOf
    <3> QED  BY <2>8, <3>1, <3>2 DEF f
  <2>11. CopyOf(i, n, o)'
    BY <1>9, <2>7, <2>9, <2>10 DEF CopyOf
  <2> QED  BY <2>8, <2>11
<1>11. Clean(m)'
  BY <1>6, <1>7, <1>8, <1>10 DEF Clean
<1> QED  BY <1>6, <1>11

LEMMA NameInit == TextInit => NameInv
BY DEF TextInit, NameInv, AfterBlock

LEMMA NameStep == TextTypeInv /\ TextTypeInv' /\ DetectInv /\ NameInv /\ [TextNext]_textVars => NameInv'
<1> SUFFICES ASSUME TextTypeInv, TextTypeInv', DetectInv, NameInv, [TextNext]_textVars,
                    status' \in AfterBlock, AtLength'
             PROVE  \E k \in 0 .. Len(text') : Behind(k)' /\ Clean(k)'
    BY DEF NameInv
<1>0. UNCHANGED <<text, config>>
  BY DEF TextNext, Detect, Resolve, Select, Replace, Conclude, Answer, Classify, Substitute, Return,
         textVars, input
<1>1. AtLength
  BY <1>0 DEF AtLength
<1>2. CASE Select
  <2>1. masks' = Chosen /\ prompt' = text /\ Chosen' = Chosen
    BY <1>2 DEF Select, AfterBlock, input, detector, Chosen
  <2>2. /\ text \in Seq(Chars) /\ Len(text) \in Nat
    BY SymbolFacts DEF TextTypeInv, TextTypeOK
  <2>3. PICK k \in 0 .. Len(text) : k = Len(text)
    BY <2>2
  <2>4. \A d \in Chosen : d.end <= k
    BY <1>1, <2>3, AtLengthInText
  <2>5. Behind(k)'
    BY <1>0, <2>1, <2>2, <2>3, <2>4 DEF Behind
  <2>6. ASSUME NEW i \in Nat, NEW n \in Nat, k <= i, 0 < n, LetterRun(i, n)' PROVE FALSE
    BY <2>1, <2>2, <2>3, <2>6 DEF LetterRun
  <2>7. Clean(k)'
    BY <2>1, <2>2, <2>3, <2>6 DEF Clean
  <2> QED  BY <1>0, <2>5, <2>7
<1>3. CASE Replace
  <2>1. PICK e \in masks :
            /\ \A d \in masks : d.start <= e.start
            /\ Assign(e.type, Slice(text, e.start, e.end))
            /\ Put(seen'[Slice(text, e.start, e.end)], e)
            /\ masks' = masks \ {e}
    BY <1>3 DEF Replace
  <2>2. UNCHANGED <<text, config, entities>> /\ status \in AfterBlock
    BY <1>3 DEF Replace, input, detector, AfterBlock, Statuses
  <2> DEFINE v == Slice(text, e.start, e.end)
  <2>3. /\ e.type \in Types /\ v \in Seq(Symbols) /\ TextTypeOK
    BY ChosenFacts DEF TextTypeInv, TextTypeOK
  <2>4. PICK token \in Token : token = seen'[v]
    <3>1. Assign(e.type, v)
      BY <2>1
    <3> HIDE DEF v
    <3> QED  BY <2>3, <3>1, AssignType
  <2>5. Put(token, e)
    BY <2>1, <2>4
  <2>6. PICK k \in 0 .. Len(text) : Behind(k) /\ Clean(k)
    BY <1>1, <2>2 DEF NameInv
  <2> QED  BY <1>1, <2>1, <2>2, <2>5, <2>6, ReplaceClean
<1>4. ASSUME UNCHANGED <<text, config, entities, masks, prompt>>, status \in AfterBlock
      PROVE  \E k \in 0 .. Len(text') : Behind(k)' /\ Clean(k)'
  <2>1. PICK k \in 0 .. Len(text) : Behind(k) /\ Clean(k)
    BY <1>1, <1>4 DEF NameInv
  <2>2. Behind(k)' /\ Clean(k)'
    BY <1>4, <2>1 DEF Behind, Clean, LetterRun, CopyOf, Chosen
  <2> QED  BY <1>4, <2>2
<1>5. CASE Detect
  BY <1>5 DEF Detect, AfterBlock
<1>6. CASE Resolve
  BY <1>6 DEF Resolve, AfterBlock
<1>7. CASE Conclude
  BY <1>4, <1>7 DEF Conclude, input, detector, tokenizer, AfterBlock, Statuses, Published
<1>8. CASE Answer
  BY <1>4, <1>8 DEF Answer, input, detector, tokenizer, AfterBlock, Statuses, Published
<1>9. ASSUME NEW strict \in BOOLEAN, Classify(strict)
      PROVE  \E k \in 0 .. Len(text') : Behind(k)' /\ Clean(k)'
  BY <1>4, <1>9 DEF Classify, input, detector, tokenizer, AfterBlock, Statuses, Published
<1>10. CASE Substitute
  BY <1>4, <1>10 DEF Substitute, input, detector, tokenizer
<1>11. CASE Return
  BY <1>4, <1>11 DEF Return, input, detector, tokenizer, AfterBlock, Statuses, Published
<1>12. CASE UNCHANGED textVars
  BY <1>4, <1>12 DEF textVars, input, detector, tokenizer
<1> QED  BY <1>2, <1>3, <1>5, <1>6, <1>7, <1>8, <1>9, <1>10, <1>11, <1>12 DEF TextNext

(* What has the lower case of a name is a run of letters. *)
LEMMA OccurrenceIsRun ==
    ASSUME TextTypeInv, NEW v \in Seq(Letters), v # <<>>,
           NEW i \in 0 .. Len(prompt), NEW j \in i .. Len(prompt),
           LowerText(Slice(prompt, i, j)) = LowerText(v)
    PROVE  i \in Nat /\ j - i \in Nat /\ 0 < j - i /\ LetterRun(i, j - i)
<1> DEFINE s == Slice(prompt, i, j)  n == j - i
<1>1. prompt \in Seq(Chars) /\ Len(prompt) \in Nat /\ i \in Nat /\ j \in Nat /\ i <= j /\ j <= Len(prompt)
  BY DEF TextTypeInv, TextTypeOK, Chars
<1>2. s \in Seq(Chars) /\ Len(s) = n /\ \A h \in 1 .. n : s[h] = prompt[i + h]
  BY <1>1, SliceLen
<1>3. n \in Nat /\ i + n = j
  BY <1>1
<1>4. LowerText(s) \in Seq(Letters) /\ Len(v) <= Len(LowerText(s)) /\ Len(v) \in Nat /\ Len(v) # 0
  BY LowerLetters, EmptySeq
<1> HIDE DEF s, n
<1>5. \A h \in 1 .. Len(s) : s[h] \in Letters
  BY <1>2, <1>4, LowerOnlyLetters
<1>6. n # 0
  <2>1. ASSUME n = 0 PROVE s = <<>>
    BY <1>2, <2>1, EmptySeq
  <2>2. LowerText(<<>>) = <<>> /\ Len(<<>>) = 0
    BY FlattenEmpty DEF LowerText
  <2> QED  BY <1>4, <2>1, <2>2
<1>7. LetterRun(i, n)
  BY <1>1, <1>2, <1>3, <1>5 DEF LetterRun
<1> QED  BY <1>1, <1>3, <1>6, <1>7 DEF n

(* A copy of it in the text is found: there is a candidate that begins there *)
(* and ends there, or before.                                                *)
LEMMA CopyIsCandidate ==
    ASSUME TextTypeInv, AtLength, NEW m \in DOMAIN Dictionary,
           NEW i \in 0 .. Len(prompt), NEW j \in i .. Len(prompt),
           LowerText(Slice(prompt, i, j)) = LowerText(Dictionary[m].value),
           NEW o \in Nat, CopyOf(i, j - i, o)
    PROVE  \E c \in Candidates(text) : /\ c.start = o /\ c.end \in Nat
                                       /\ o < c.end /\ c.end <= o + (j - i)
<1> DEFINE v == Dictionary[m].value  n == j - i  k == o + n  l == LowerText(v)  w == LowerText(text)
           c == Candidate(Dictionary[m].type, o, Len(v), FALSE, Len(Patterns) + m)
<1>1. v \in Seq(Letters) /\ v # <<>>
  BY EntryFacts
<1>2. /\ text \in Seq(Chars) /\ prompt \in Seq(Chars) /\ Len(text) \in Nat /\ Len(prompt) \in Nat
      /\ i \in Nat /\ j \in Nat /\ i <= j /\ j <= Len(prompt)
  BY SymbolFacts DEF TextTypeInv, TextTypeOK, Chars
<1>3. n \in Nat /\ k \in Nat /\ o <= k /\ k - o = n /\ k <= Len(text)
  BY <1>2 DEF CopyOf
<1>4. /\ v \in Seq(Chars) /\ l \in Seq(Letters) /\ Len(v) <= Len(l)
      /\ Len(v) \in Nat /\ Len(v) # 0 /\ Len(l) \in Nat
  BY <1>1, SymbolFacts, LowerLetters, EmptySeq
<1>5. Slice(text, o, k) = Slice(prompt, i, j)
  <2>1. /\ Slice(prompt, i, j) \in Seq(Chars) /\ Len(Slice(prompt, i, j)) = n
        /\ \A h \in 1 .. n : Slice(prompt, i, j)[h] = prompt[i + h]
    BY <1>2, SliceLen
  <2>2. \A h \in 1 .. n : text[o + h] = prompt[i + h]
    BY DEF CopyOf
  <2> HIDE DEF k
  <2>3. /\ Slice(text, o, k) \in Seq(Chars) /\ Len(Slice(text, o, k)) = k - o
        /\ \A h \in 1 .. k - o : Slice(text, o, k)[h] = text[o + h]
    <3>1. text \in Seq(Chars) /\ o \in Nat /\ k \in Nat /\ o <= k /\ k <= Len(text)
      BY <1>2, <1>3
    <3> QED  BY <3>1, SliceLen
  <2> DEFINE x == Slice(text, o, k)  y == Slice(prompt, i, j)
  <2>5. x \in Seq(Chars) /\ y \in Seq(Chars) /\ Len(x) = Len(y) /\ \A h \in 1 .. Len(x) : x[h] = y[h]
    BY <1>3, <2>1, <2>2, <2>3
  <2> HIDE DEF x, y
  <2>6. x = y
    BY <2>5, SeqEqual
  <2> QED  BY <2>6 DEF x, y
<1>6. Steady(text)
  BY <1>2 DEF AtLength, Steady
<1>7. LowerText(Slice(text, o, k)) = Slice(w, o, k)
  <2> HIDE DEF k
  <2> QED  BY <1>2, <1>3, <1>6, LowerSlice
<1>8. w \in Seq(Chars) /\ Len(w) = Len(text)
  BY <1>2, <1>6, LowerAtLength, LowerAsMapped
<1>9. Slice(w, o, k) = l
  BY <1>5, <1>7
<1> HIDE DEF w, l, k, n
<1>10. Len(l) = n /\ k = o + Len(l)
  <2>1. Len(Slice(w, o, k)) = k - o
    <3>1. k <= Len(w)
      BY <1>3, <1>8
    <3> QED  BY <1>3, <1>8, <3>1, SliceLen, Zenon
  <2>2. o + n = k
    BY DEF k
  <2> QED  BY <1>3, <1>9, <2>1, <2>2
<1>11. o \in Starts(l, w)
  <2>1. o \in 0 .. Len(w) /\ o + Len(l) <= Len(w)
    BY <1>2, <1>3, <1>8, <1>10
  <2> QED  BY <1>9, <1>10, <2>1 DEF Starts
<1>12. c \in Candidates(text)
  <2>1. c \in {Candidate(Dictionary[m].type, h, Len(v), FALSE, Len(Patterns) + m) : h \in Starts(l, w)}
    BY <1>11
  <2> HIDE DEF c
  <2>2. c \in DictionaryCandidates(text)
    BY <2>1 DEF DictionaryCandidates, l, w
  <2> QED  BY <2>2 DEF Candidates
<1>13. c.start = o /\ c.end = o + Len(v)
  BY DEF Candidate
<1> HIDE DEF c, v
<1>14. c.end \in Nat /\ o < c.end /\ c.end <= o + n
  BY <1>3, <1>4, <1>10, <1>13
<1> QED  BY <1>12, <1>13, <1>14 DEF n

LEMMA NamesMaskedHolds ==
    TextTypeInv /\ DetectInv /\ SeenInv /\ NameInv => NamesAreMaskedAtLength
<1> SUFFICES ASSUME TextTypeInv, DetectInv, SeenInv, NameInv, AtLength,
                    status = "OK", config.tokenize = Types,
                    NEW m \in DOMAIN Dictionary,
                    NEW i \in 0 .. Len(prompt), NEW j \in i .. Len(prompt),
                    LowerText(Slice(prompt, i, j)) = LowerText(Dictionary[m].value)
             PROVE  FALSE
    BY DEF NamesAreMaskedAtLength, NamesAreMasked, AtLength, Occurs
<1>1. status \in AfterBlock /\ status \in Published /\ masks = {} /\ candidates = {}
  BY DEF AfterBlock, Statuses, Published, SeenInv, DetectInv
<1>2. PICK k \in 0 .. Len(text) : Behind(k) /\ Clean(k)
  BY <1>1 DEF NameInv
<1> DEFINE n == j - i
<1>3. i \in Nat /\ n \in Nat /\ 0 < n /\ LetterRun(i, n)
  BY EntryFacts, OccurrenceIsRun
<1>4. PICK o \in Nat : CopyOf(i, n, o)
  <2> HIDE DEF n
  <2> QED  BY <1>2, <1>3, RunCopied
<1>5. PICK c \in Candidates(text) : c.start = o /\ c.end \in Nat /\ o < c.end /\ c.end <= o + n
  BY <1>4, CopyIsCandidate
<1>6. PICK e \in entities : Overlap(e, c)
  <2>1. CASE c \in entities
    BY <1>5, <2>1 DEF Overlap
  <2>2. CASE c \notin entities
    BY <1>1, <1>5, <2>2 DEF DetectInv, AfterBlock
  <2> QED  BY <2>1, <2>2
<1>7. text \in Seq(Chars) /\ e \in Candidates(text)
  BY SymbolFacts DEF TextTypeInv, TextTypeOK
<1>8. e.type \in Types /\ e.start \in Nat /\ e.end \in Nat
  BY <1>7, CandidateFacts
<1>9. e \in Chosen \ masks
  BY <1>1, <1>8 DEF Chosen
<1>10. e.end <= o \/ o + n <= e.start
  BY <1>4, <1>9 DEF CopyOf
<1> HIDE DEF n
<1> QED  BY <1>3, <1>5, <1>6, <1>8, <1>10 DEF Overlap

NamesInv == TextTypeInv /\ DetectInv /\ SeenInv /\ NameInv

LEMMA NamesInvariant == TextSpec => []NamesInv
<1>1. TextInit => NamesInv
  BY TypeInit, DetectInit, SeenInit, NameInit DEF NamesInv
<1>2. NamesInv /\ [TextNext]_textVars => NamesInv'
  BY TypeStep, DetectStep, SeenStep, NameStep DEF NamesInv
<1> QED  BY <1>1, <1>2, PTL DEF TextSpec

(* NamesAreMaskedAtLength: when every type is tokenised and no letter of the  *)
(* text is longer in lower case or has another one at the end of a word, no   *)
(* entry of the dictionary is left in the prompt, in whatever case it was     *)
(* written and whatever letters the entries themselves have.                  *)
THEOREM NoNameIsLeft == TextSpec => []NamesAreMaskedAtLength
<1>1. NamesInv => NamesAreMaskedAtLength
  BY NamesMaskedHolds DEF NamesInv
<1> QED  BY <1>1, NamesInvariant, PTL

-----------------------------------------------------------------------------
(* The workspace *)

(* What prepare() has done by each of its steps. *)
PrepareInv ==
    /\ prep # "ready" =>
           /\ \A d \in Discards : pc[d] = "idle" /\ at[d] = Absent
           /\ at[Home] \in {Own, Absent}
           /\ moves = 0 /\ ~displaced
    /\ prep = "create" => at[Home] = Absent /\ gone = {} /\ files[Own] = {}
    /\ prep \in {"manifest", "prompt", "route", "marker", "remove"} =>
           at[Home] = Own
    /\ prep = "manifest" => files[Own] = {}
    /\ prep = "prompt" => files[Own] = {"manifest"}
    /\ prep = "route" => files[Own] = {"manifest", "prompt"}
    /\ prep = "marker" => files[Own] = {"manifest", "prompt", "route"}

(* Only the workspace ever has the marker. *)
MarkerInv ==
    /\ \A o \in Decoys : files[o] \subseteq {"other"}
    /\ files[Own] \subseteq Whole
    /\ \A d \in Discards : Is(d, "marker") => fd[d] \in Dirs

(* A quarantine name is free until it is used. *)
FreshInv == \A d \in Discards : pc[d] \in BeforeDetach => at[d] = Absent

(* Past its checks a discard has the workspace under its quarantine name. *)
Holding == {"recheck"} \cup Emptying
Passed == Emptying \cup Ended
AwayInv ==
    prep = "ready" /\ ~displaced =>
        /\ \A d \in Discards : pc[d] \in Holding => at[d] = Own \/ Own \in gone
        /\ \/ files[Own] = Whole
           \/ Own \in gone
           \/ \E d \in Discards : at[d] = Own /\ pc[d] \in Passed

IInv == TypeOK /\ PrepareInv /\ MarkerInv /\ FreshInv /\ AwayInv

USE WorkspaceAssumption

(* The part of TypeOK about names and removed directories. *)
Placed ==
    /\ at \in [Names -> Dirs \cup {Absent}]
    /\ \A m, n \in Names : at[m] = at[n] /\ at[m] # Absent => m = n
    /\ gone \subseteq Dirs
    /\ \A o \in gone : files[o] = {} /\ \A n \in Names : at[n] # o

Typed ==
    /\ files \in [Dirs -> SUBSET (Whole \cup {"other"})]
    /\ prep \in PrepareSteps
    /\ pc \in [Discards -> DiscardSteps]
    /\ fd \in [Discards -> Dirs \cup {Absent}]
    /\ \A d \in Discards :
           pc[d] \in {"detach", "identity", "recheck"} \cup Emptying => fd[d] = Own
    /\ moves \in 0 .. MaxMoves
    /\ displaced \in BOOLEAN
    /\ failed \subseteq {"verify", "remove"}

LEMMA TypeParts == TypeOK <=> Placed /\ Typed
BY DEF TypeOK, Placed, Typed
LEMMA TypePartsNext == TypeOK' <=> Placed' /\ Typed'
BY DEF TypeOK, Placed, Typed

(* One name is given up, and possibly another, free one taken. *)
LEMMA PlacedRename ==
    ASSUME TypeOK, files' = files, NEW m \in Names, NEW n \in Names, m # n,
           at[m] # Absent, at' = [at EXCEPT ![n] = at[m], ![m] = Absent],
           gone' = gone \cup ({at[n]} \ {Absent}), at[n] = Absent \/ files[at[n]] = {}
    PROVE  Placed'
<1>1. at'[n] = at[m] /\ at'[m] = Absent /\ \A k \in Names \ {m, n} : at'[k] = at[k]
    BY DEF TypeOK
<1>2. at' \in [Names -> Dirs \cup {Absent}] /\ gone' \subseteq Dirs
    BY DEF TypeOK
<1>3. ASSUME NEW j \in Names, NEW k \in Names, at'[j] = at'[k], at'[j] # Absent PROVE j = k
    BY <1>1, <1>3 DEF TypeOK
<1>4. ASSUME NEW o \in gone' PROVE files'[o] = {} /\ \A k \in Names : at'[k] # o
  <2>1. at[m] \notin gone /\ o # Absent /\ files[o] = {}
    BY <1>2, <1>4 DEF TypeOK, Dirs
  <2>2. CASE o \in gone
    BY <1>1, <2>1, <2>2 DEF TypeOK
  <2>3. CASE o = at[n]
    BY <1>1, <2>1, <2>3 DEF TypeOK
  <2> QED
    BY <1>4, <2>2, <2>3
<1> QED
    BY <1>2, <1>3, <1>4 DEF Placed

LEMMA PlacedFreed ==
    ASSUME TypeOK, files' = files, NEW m \in Names, at' = [at EXCEPT ![m] = Absent],
           \/ gone' = gone
           \/ at[m] # Absent /\ files[at[m]] = {} /\ gone' = gone \cup {at[m]}
    PROVE  Placed'
<1>1. at'[m] = Absent /\ \A k \in Names \ {m} : at'[k] = at[k]
    BY DEF TypeOK
<1>2. at' \in [Names -> Dirs \cup {Absent}] /\ gone' \subseteq Dirs
    BY DEF TypeOK
<1>3. ASSUME NEW j \in Names, NEW k \in Names, at'[j] = at'[k], at'[j] # Absent PROVE j = k
    BY <1>1, <1>3 DEF TypeOK
<1>4. ASSUME NEW o \in gone' PROVE files'[o] = {} /\ \A k \in Names : at'[k] # o
    BY <1>1, <1>2, <1>4 DEF TypeOK, Dirs
<1> QED
    BY <1>2, <1>3, <1>4 DEF Placed

LEMMA AfterValues ==
    /\ DOMAIN After = {"manifest", "prompt", "route", "marker"}
    /\ After["manifest"] = "prompt" /\ After["prompt"] = "route"
    /\ After["route"] = "marker" /\ After["marker"] = "ready"
BY DEF After

LEMMA InitIInv == Init => IInv
<1> SUFFICES ASSUME Init PROVE IInv
    OBVIOUS
<1>1. TypeOK
  <2>1. /\ at \in [Names -> Dirs \cup {Absent}]
        /\ \A m, n \in Names : at[m] = at[n] /\ at[m] # Absent => m = n
    BY DEF Init
  <2>4. gone = {} /\ prep \in PrepareSteps /\ moves \in 0 .. MaxMoves
    BY DEF Init, PrepareSteps
  <2>5. displaced \in BOOLEAN /\ failed \subseteq {"verify", "remove"}
    BY DEF Init
  <2>2. files \in [Dirs -> SUBSET (Whole \cup {"other"})]
    BY DEF Init
  <2>3. /\ pc \in [Discards -> DiscardSteps] /\ fd \in [Discards -> Dirs \cup {Absent}]
        /\ \A d \in Discards : pc[d] = "idle"
    BY DEF Init, DiscardSteps, BeforeDetach
  <2> QED
    BY <2>1, <2>2, <2>3, <2>4, <2>5 DEF TypeOK, Emptying
<1>2. PrepareInv
    BY DEF Init, PrepareInv, Names
<1>3. MarkerInv
    BY DEF Init, MarkerInv, Dirs, Is
<1>4. AwayInv /\ FreshInv
    BY DEF Init, AwayInv, FreshInv, Names
<1> QED
    BY <1>1, <1>2, <1>3, <1>4 DEF IInv

(* The steps of prepare(). *)
LEMMA StepPrepare == IInv /\ Prepare => IInv'
<1> SUFFICES ASSUME IInv, Prepare PROVE IInv'
    OBVIOUS
<1> USE DEF IInv, others, Names
<1>1. prep # "ready" /\ \A d \in Discards : pc[d] = "idle"
    BY AfterValues DEF Prepare, Create, Write, GiveUp, Raise, RemoveWorkspace, RemoveFails,
       PrepareDies, PrepareInv
<1>2. CASE Create
    BY <1>1, <1>2 DEF Create, TypeOK, PrepareInv, MarkerInv, FreshInv, AwayInv, Is, Dirs, Whole, Artifacts,
       PrepareSteps, Holding, Emptying
<1>3. CASE Write
  <2>1. prep \in {"manifest", "prompt", "route", "marker"} /\ Own \notin gone
    BY <1>3, AfterValues DEF Write, PrepareInv, TypeOK
  <2>2. /\ files' = [files EXCEPT ![Own] = @ \cup {prep}]
        /\ files'[Own] = files[Own] \cup {prep}
        /\ \A o \in Decoys : files'[o] = files[o]
    BY <1>3 DEF Write, TypeOK, Dirs
  <2>3. TypeOK'
    BY <1>1, <1>3, <2>1, <2>2, AfterValues DEF Write, TypeOK, Dirs, Whole, Artifacts, PrepareSteps
  <2>4. PrepareInv' /\ MarkerInv' /\ FreshInv'
    BY <1>1, <1>3, <2>1, <2>2, AfterValues DEF Write, PrepareInv, MarkerInv, FreshInv, Whole, Artifacts, Is
  <2>5. prep' = "ready" => files'[Own] = Whole
    BY <1>3, <2>1, <2>2, AfterValues DEF Write, PrepareInv, Whole, Artifacts
  <2>6. AwayInv'
    BY <1>1, <1>3, <2>5 DEF Write, AwayInv, Holding, Emptying
  <2> QED
    BY <2>3, <2>4, <2>6
<1>4. CASE GiveUp \/ Raise \/ RemoveFails \/ PrepareDies
  <2>1. /\ UNCHANGED <<at, files, gone, pc, fd, moves, displaced>>
        /\ prep' \in {"remove", "raised", "refused", "dead"}
        /\ prep \in {"manifest", "prompt", "route", "marker", "remove"}
        /\ failed' \subseteq failed \cup {"remove"}
    BY <1>4, AfterValues DEF GiveUp, Raise, RemoveFails, PrepareDies, disk
  <2>2. TypeOK'
    BY <2>1 DEF TypeOK, PrepareSteps
  <2> QED
    BY <1>1, <2>1, <2>2 DEF PrepareInv, MarkerInv, FreshInv, AwayInv, Is
<1>5. CASE RemoveWorkspace
  <2>1. CASE files[Own] # {}
    <3>1. PICK f \in files[Own] : files' = [files EXCEPT ![Own] = @ \ {f}]
        BY <1>5, <2>1 DEF RemoveWorkspace
    <3>2. files'[Own] = files[Own] \ {f} /\ \A o \in Decoys : files'[o] = files[o]
        BY <3>1 DEF TypeOK, Dirs
    <3>3. Own \notin gone
        BY <2>1 DEF TypeOK
    <3>4. TypeOK'
        BY <1>1, <1>5, <2>1, <3>1, <3>2, <3>3 DEF RemoveWorkspace, TypeOK, Dirs
    <3> QED
        BY <1>1, <1>5, <2>1, <3>2, <3>4 DEF RemoveWorkspace, PrepareInv, MarkerInv, FreshInv, AwayInv, Is
  <2>2. CASE files[Own] = {}
    <3>1. /\ at' = [at EXCEPT ![Home] = Absent] /\ gone' = gone \cup {Own}
          /\ prep' = "refused" /\ UNCHANGED <<files, pc, fd, moves, displaced, failed>>
          /\ at[Home] = Own
        BY <1>5, <2>2 DEF RemoveWorkspace, PrepareInv
    <3>2. \A n \in Names : at'[n] # Own
        BY <3>1 DEF TypeOK, Dirs
    <3>3. TypeOK'
        BY <1>1, <2>2, <3>1, <3>2 DEF TypeOK, Dirs, PrepareSteps
    <3> QED
        BY <1>1, <2>2, <3>1, <3>3 DEF TypeOK, PrepareInv, MarkerInv, FreshInv, AwayInv, Is
  <2> QED
    BY <2>1, <2>2
<1> QED
    BY <1>2, <1>3, <1>4, <1>5 DEF Prepare

(* What a step comes to when the system refuses its call. *)
LEMMA FailureValues ==
    ASSUME IInv, NEW d \in Discards, SystemFails(d)
    PROVE  /\ prep = "ready" /\ UNCHANGED <<at, files, gone, prep, fd, moves, displaced>>
           /\ \/ pc[d] \in Emptying /\ failed' = failed \cup {"remove"}
              \/ pc[d] \notin Emptying /\ failed' = failed \cup {"verify"}
           /\ pc[d] \notin Ended
           /\ \E s \in {"done", "refused", "refuse", "put_back", "check"} :
                 /\ pc' = [pc EXCEPT ![d] = s] /\ pc'[d] = s
                 /\ \A e \in Discards \ {d} : pc'[e] = pc[e]
                 /\ pc[d] \in Emptying => s \in {"done", "refused", "check"}
                 /\ s = "check" => pc[d] = "unlink"
<1>1. /\ pc[d] \in DOMAIN OnFailure
      /\ DOMAIN OnFailure = BeforeDetach \cup {"identity", "recheck", "refuse", "put_back",
                                               "unlink", "check", "rmdir"}
      /\ OnFailure[pc[d]] \subseteq {"done", "refused", "refuse", "put_back", "check"}
      /\ pc[d] \in Emptying => OnFailure[pc[d]] \subseteq {"done", "refused", "check"}
      /\ "check" \in OnFailure[pc[d]] => pc[d] = "unlink"
  BY DEF SystemFails, OnFailure, BeforeDetach, Emptying
<1>2. PICK s \in OnFailure[pc[d]] : pc' = [pc EXCEPT ![d] = s]
  BY DEF SystemFails, Goto
<1>3. pc'[d] = s /\ \A e \in Discards \ {d} : pc'[e] = pc[e]
  BY <1>2 DEF IInv, TypeOK
<1>4. pc[d] \notin Ended
  BY <1>1 DEF Ended, BeforeDetach
<1> QED
  BY <1>1, <1>2, <1>3, <1>4 DEF SystemFails, disk

(* A step of a discard that only moves on, with its checks. *)
LEMMA StepQuiet ==
    ASSUME IInv, NEW d \in Discards,
           Look(d) \/ ReadSecret(d) \/ Open(d) \/ RequireMarker(d) \/ CheckIdentity(d)
               \/ RequireMarkerAgain(d) \/ LookHome(d) \/ CheckQuarantine(d)
               \/ SystemFails(d) \/ DiscardDies(d)
    PROVE  IInv'
<1> USE DEF IInv, others, disk, Names, Goto, Is
<1>1. /\ prep = "ready" /\ UNCHANGED <<at, files, gone, prep, moves, displaced>>
      /\ failed' \subseteq {"verify", "remove"}
    BY FailureValues DEF TypeOK, PrepareInv, Look, ReadSecret, Open, RequireMarker, CheckIdentity,
       RequireMarkerAgain, LookHome, CheckQuarantine, DiscardDies, Ended
<1>2. pc' = [pc EXCEPT ![d] = pc'[d]] /\ pc'[d] \in DiscardSteps
    BY FailureValues DEF TypeOK, DiscardSteps, BeforeDetach, Refusing, Emptying, Ended, Look, ReadSecret,
       Open, RequireMarker, CheckIdentity, RequireMarkerAgain, LookHome, CheckQuarantine, DiscardDies
<1>3. \A e \in Discards \ {d} : pc'[e] = pc[e] /\ fd'[e] = fd[e]
    BY FailureValues DEF TypeOK, Look, ReadSecret, Open, RequireMarker, CheckIdentity,
       RequireMarkerAgain, LookHome, CheckQuarantine, DiscardDies
<1>4. fd' \in [Discards -> Dirs \cup {Absent}]
    BY FailureValues DEF TypeOK, Look, ReadSecret, Open, RequireMarker, CheckIdentity,
       RequireMarkerAgain, LookHome, CheckQuarantine, DiscardDies
<1>5. pc'[d] = "marker" => fd'[d] \in Dirs
    BY FailureValues DEF TypeOK, Look, ReadSecret, Open, RequireMarker, CheckIdentity,
       RequireMarkerAgain, LookHome, CheckQuarantine, DiscardDies
<1>6. pc'[d] \in {"detach", "identity", "recheck"} \cup Emptying => fd'[d] = Own
  <2>1. CASE RequireMarker(d)
    BY <2>1 DEF RequireMarker, TypeOK, MarkerInv, Dirs, Emptying
  <2> QED
    BY <2>1, FailureValues DEF TypeOK, Emptying, Look, ReadSecret, Open, CheckIdentity,
       RequireMarkerAgain, LookHome, CheckQuarantine, DiscardDies
<1>7. TypeOK'
    BY <1>1, <1>2, <1>3, <1>4, <1>6 DEF TypeOK
<1>8. PrepareInv' /\ MarkerInv'
    BY <1>1, <1>3, <1>5 DEF PrepareInv, MarkerInv
<1>9. FreshInv'
  <2>1. pc'[d] \in BeforeDetach => pc[d] \in BeforeDetach
    BY FailureValues DEF TypeOK, BeforeDetach, Look, ReadSecret, Open, RequireMarker,
       CheckIdentity, RequireMarkerAgain, LookHome, CheckQuarantine, DiscardDies
  <2> QED
    BY <1>1, <1>3, <2>1 DEF FreshInv
<1>10. AwayInv'
  <2> SUFFICES ASSUME ~displaced
                PROVE  /\ \A e \in Discards : pc'[e] \in Holding => at[e] = Own \/ Own \in gone
                       /\ \/ files[Own] = Whole \/ Own \in gone
                          \/ \E e \in Discards : at[e] = Own /\ pc'[e] \in Passed
    BY <1>1, FailureValues DEF AwayInv
  <2>1. pc'[d] \in Holding => at[d] = Own \/ Own \in gone
    BY <1>1, FailureValues DEF AwayInv, TypeOK, Holding, Emptying, Look, ReadSecret, Open, RequireMarker,
       CheckIdentity, RequireMarkerAgain, LookHome, CheckQuarantine, DiscardDies
  <2>2. pc[d] \in Passed => pc'[d] \in Passed
    BY FailureValues DEF TypeOK, Passed, Emptying, Ended, Look, ReadSecret, Open, RequireMarker,
       CheckIdentity, RequireMarkerAgain, LookHome, CheckQuarantine, DiscardDies
  <2> QED
    BY <1>1, <1>3, <2>1, <2>2 DEF AwayInv
<1> QED
    BY <1>7, <1>8, <1>9, <1>10

(* _detach_pinned(). *)
LEMMA StepDetach == ASSUME IInv, NEW d \in Discards, Detach(d) PROVE IInv'
<1> USE DEF IInv, others, Names, Goto, Is
<1>1. CASE at[Home] = Absent
  <2>1. /\ pc' = [pc EXCEPT ![d] = "refused"] /\ pc[d] = "detach" /\ prep = "ready"
        /\ UNCHANGED <<at, files, gone, prep, fd, moves, displaced, failed>>
    BY <1>1 DEF Detach, PrepareInv
  <2>2. TypeOK' /\ PrepareInv' /\ MarkerInv' /\ FreshInv'
    BY <2>1 DEF TypeOK, PrepareInv, MarkerInv, FreshInv, BeforeDetach, DiscardSteps, Ended, Emptying
  <2> QED
    BY <2>1, <2>2 DEF TypeOK, AwayInv, Holding, Passed, Emptying, Ended
<1>2. CASE at[Home] # Absent
  <2>1. /\ pc' = [pc EXCEPT ![d] = "identity"] /\ pc[d] = "detach" /\ prep = "ready"
        /\ at' = [at EXCEPT ![d] = at[Home], ![Home] = Absent]
        /\ UNCHANGED <<files, gone, prep, fd, moves, displaced, failed>>
    BY <1>2 DEF Detach, RenameTo, PrepareInv
  <2>2. /\ at'[d] = at[Home] /\ at'[Home] = Absent
        /\ \A e \in Discards \ {d} : at'[e] = at[e] /\ pc'[e] = pc[e]
        /\ pc'[d] = "identity"
    BY <2>1 DEF TypeOK
  <2>3. TypeOK'
    <3>1. Placed'
        BY <1>2, <2>1, PlacedRename DEF FreshInv, BeforeDetach
    <3>2. Typed'
        BY <2>1 DEF TypeOK, Typed, DiscardSteps, Emptying
    <3> QED
        BY <3>1, <3>2, TypePartsNext
  <2>4. PrepareInv' /\ MarkerInv' /\ FreshInv'
    BY <2>1, <2>2 DEF PrepareInv, MarkerInv, FreshInv, BeforeDetach
  <2>5. AwayInv'
    BY <2>1, <2>2 DEF AwayInv, Holding, Passed, Emptying, Ended
  <2> QED
    BY <2>3, <2>4, <2>5
<1> QED
    BY <1>1, <1>2

(* _restore_pinned_quietly(), the rename: what a discard puts back is whole,  *)
(* or not the workspace.                                                     *)
LEMMA StepPutBack == ASSUME IInv, NEW d \in Discards, PutBack(d) PROVE IInv'
<1> USE DEF IInv, others, Names, Goto, Is
<1>1. /\ pc' = [pc EXCEPT ![d] = "refused"] /\ pc[d] = "put_back" /\ prep = "ready"
      /\ UNCHANGED <<files, prep, fd, moves, displaced, failed>>
      /\ pc'[d] = "refused" /\ \A e \in Discards \ {d} : pc'[e] = pc[e]
    BY DEF PutBack, PrepareInv, TypeOK
<1>2. PrepareInv' /\ MarkerInv'
    BY <1>1 DEF PrepareInv, MarkerInv
<1>3. FreshInv'
  <2>1. \A e \in Discards \ {d} : at'[e] = at[e]
    BY DEF PutBack, Rmdir, RenameTo, TypeOK
  <2> QED
    BY <1>1, <2>1 DEF FreshInv, BeforeDetach
<1>4. CASE UNCHANGED <<at, gone>>
  <2>1. TypeOK'
    BY <1>1, <1>4 DEF TypeOK, DiscardSteps, Ended, Emptying
  <2> QED
    BY <1>1, <1>2, <1>4, <1>3, <2>1 DEF AwayInv, Holding, Passed, Emptying, Ended
<1>5. CASE /\ at[d] # Absent /\ (at[Home] = Absent \/ files[at[Home]] = {})
           /\ at' = [at EXCEPT ![Home] = at[d], ![d] = Absent]
           /\ gone' = gone \cup ({at[Home]} \ {Absent})
  <2>1. /\ at'[Home] = at[d] /\ at'[d] = Absent
        /\ \A e \in Discards \ {d} : at'[e] = at[e]
    BY <1>5 DEF TypeOK
  <2>2. Placed'
    BY <1>1, <1>5, PlacedRename DEF TypeOK
  <2>3. TypeOK'
    <3>1. Typed'
        BY <1>1 DEF TypeOK, Typed, DiscardSteps, Ended, Emptying
    <3> QED
        BY <2>2, <3>1, TypePartsNext
  <2>4. AwayInv'
    BY <1>1, <1>5, <2>1 DEF AwayInv, TypeOK, Holding, Passed, Emptying, Ended
  <2> QED
    BY <1>2, <1>3, <2>3, <2>4
<1> QED
    BY <1>4, <1>5, <1>3 DEF PutBack, RenameTo

(* _unlink_tree_pinned(): one entry of the workspace, or its end. *)
LEMMA StepUnlink == ASSUME IInv, NEW d \in Discards, Unlink(d) PROVE IInv'
<1> USE DEF IInv, others, Names, Goto, Is
<1>1. /\ pc[d] = "unlink" /\ fd[d] = Own /\ prep = "ready"
      /\ UNCHANGED <<at, gone, prep, fd, moves, displaced, failed>>
    BY DEF Unlink, TypeOK, PrepareInv, Emptying
<1>2. CASE files[Own] # {}
  <2>1. PICK f \in files[Own] : files' = [files EXCEPT ![Own] = @ \ {f}] /\ UNCHANGED pc
    BY <1>1, <1>2 DEF Unlink
  <2>2. /\ files'[Own] = files[Own] \ {f} /\ \A o \in Decoys : files'[o] = files[o]
        /\ Own \notin gone
    BY <1>2, <2>1 DEF TypeOK, Dirs
  <2>3. TypeOK'
    BY <1>1, <2>1, <2>2 DEF TypeOK, Dirs
  <2>4. PrepareInv' /\ MarkerInv' /\ FreshInv'
    BY <1>1, <2>1, <2>2 DEF PrepareInv, MarkerInv, FreshInv, BeforeDetach
  <2>5. AwayInv'
    BY <1>1, <2>1, <2>2 DEF AwayInv, Holding, Passed, Emptying, Ended
  <2> QED
    BY <2>3, <2>4, <2>5
<1>3. CASE files[Own] = {}
  <2>1. pc' = [pc EXCEPT ![d] = "check"] /\ UNCHANGED files
    BY <1>1, <1>3 DEF Unlink
  <2>2. TypeOK' /\ PrepareInv' /\ MarkerInv' /\ FreshInv'
    BY <1>1, <2>1 DEF TypeOK, PrepareInv, MarkerInv, FreshInv, BeforeDetach, DiscardSteps, Emptying
  <2> QED
    BY <1>1, <2>1, <2>2 DEF TypeOK, AwayInv, Holding, Passed, Emptying, Ended
<1> QED
    BY <1>2, <1>3

(* _rmdir_verified(), the rmdir. *)
LEMMA StepRmdir == ASSUME IInv, NEW d \in Discards, Rmdir(d) PROVE IInv'
<1> USE DEF IInv, others, Names, Goto, Is
<1>1. /\ pc' = [pc EXCEPT ![d] = "done"] /\ pc[d] = "rmdir" /\ prep = "ready"
      /\ UNCHANGED <<files, prep, fd, moves, displaced, failed>>
      /\ pc'[d] = "done" /\ \A e \in Discards \ {d} : pc'[e] = pc[e]
    BY DEF Rmdir, PrepareInv, TypeOK
<1>2. PrepareInv' /\ MarkerInv'
    BY <1>1 DEF PrepareInv, MarkerInv
<1>3. FreshInv'
  <2>1. \A e \in Discards \ {d} : at'[e] = at[e]
    BY DEF PutBack, Rmdir, RenameTo, TypeOK
  <2> QED
    BY <1>1, <2>1 DEF FreshInv, BeforeDetach
<1>4. CASE UNCHANGED <<at, gone>>
  <2>1. TypeOK'
    BY <1>1, <1>4 DEF TypeOK, DiscardSteps, Ended, Emptying
  <2> QED
    BY <1>1, <1>2, <1>4, <1>3, <2>1 DEF AwayInv, Holding, Passed, Emptying, Ended
<1>5. CASE /\ at[d] # Absent /\ files[at[d]] = {}
           /\ gone' = gone \cup {at[d]} /\ at' = [at EXCEPT ![d] = Absent]
  <2>1. at'[d] = Absent /\ \A n \in Names \ {d} : at'[n] = at[n]
    BY <1>5 DEF TypeOK
  <2>2. TypeOK'
    <3>1. Placed'
        BY <1>1, <1>5, PlacedFreed
    <3>2. Typed'
        BY <1>1 DEF TypeOK, Typed, DiscardSteps, Ended, Emptying
    <3> QED
        BY <3>1, <3>2, TypePartsNext
  <2>3. AwayInv'
    BY <1>1, <1>5, <2>1 DEF AwayInv, TypeOK, Holding, Passed, Emptying, Ended
  <2> QED
    BY <1>2, <1>3, <2>2, <2>3
<1> QED
    BY <1>4, <1>5 DEF Rmdir

(* Other processes. *)
LEMMA StepMove ==
    ASSUME IInv, NEW n \in Names, TakeAway(n) \/ \E o \in Dirs : PutAt(o, n)
    PROVE  IInv'
<1> USE DEF IInv
<1>1. /\ prep = "ready" /\ moves' = moves + 1 /\ moves < MaxMoves
      /\ UNCHANGED <<files, gone, prep, pc, fd, failed>>
    BY DEF TakeAway, PutAt, Move
<1>2. moves' \in 0 .. MaxMoves
    BY <1>1 DEF TypeOK
<1>3. PrepareInv' /\ MarkerInv'
    BY <1>1 DEF PrepareInv, MarkerInv, Is
<1>4. FreshInv'
  <2>1. \A d \in Discards : pc[d] \in BeforeDetach => at'[d] = Absent
    BY DEF TakeAway, PutAt, Known, TypeOK, FreshInv, Names
  <2> QED
    BY <1>1, <2>1 DEF FreshInv
<1>5. CASE TakeAway(n)
  <2>1. /\ at' = [at EXCEPT ![n] = Absent] /\ displaced' = (displaced \/ at[n] = Own)
        /\ at'[n] = Absent /\ \A m \in Names \ {n} : at'[m] = at[m]
    BY <1>5 DEF TakeAway, TypeOK
  <2>2. TypeOK'
    <3>1. Placed'
        BY <1>1, <2>1, PlacedFreed
    <3>2. displaced' \in BOOLEAN
        BY <2>1 DEF TypeOK
    <3>3. Typed'
        BY <1>1, <1>2, <3>2 DEF TypeOK, Typed
    <3> QED
        BY <3>1, <3>3, TypePartsNext
  <2>3. AwayInv'
    BY <1>1, <2>1 DEF AwayInv, Names
  <2> QED
    BY <1>3, <1>4, <2>2, <2>3
<1>6. ASSUME NEW o \in Dirs, PutAt(o, n) PROVE IInv'
  <2>1. /\ at' = [at EXCEPT ![n] = o] /\ displaced' = displaced /\ at[n] = Absent
        /\ o \notin gone /\ \A m \in Names : at[m] # o
        /\ at'[n] = o /\ \A m \in Names \ {n} : at'[m] = at[m]
    BY <1>6 DEF PutAt, TypeOK
  <2>2. TypeOK'
    BY <1>1, <1>2, <2>1 DEF TypeOK
  <2>3. AwayInv'
    BY <1>1, <2>1 DEF AwayInv, Names
  <2> QED
    BY <1>3, <1>4, <2>2, <2>3
<1> QED
    BY <1>5, <1>6

LEMMA NextIInv == IInv /\ [Next]_vars => IInv'
<1> SUFFICES ASSUME IInv, [Next]_vars PROVE IInv'
    OBVIOUS
<1>1. CASE UNCHANGED vars
    BY <1>1 DEF vars, IInv, TypeOK, PrepareInv, MarkerInv, FreshInv, AwayInv, Is
<1>2. CASE Prepare
    BY <1>2, StepPrepare
<1>3. ASSUME NEW d \in Discards, Discard(d) \/ SystemFails(d) \/ DiscardDies(d) PROVE IInv'
    BY <1>3, StepQuiet, StepDetach, StepPutBack, StepUnlink, StepRmdir DEF Discard
<1>4. ASSUME NEW n \in Names, TakeAway(n) \/ \E o \in Dirs : PutAt(o, n) PROVE IInv'
    BY <1>4, StepMove
<1> QED
    BY <1>1, <1>2, <1>3, <1>4 DEF Next

LEMMA Invariance == Spec => []IInv
<1> QED
    BY InitIInv, NextIInv, PTL DEF Spec

-----------------------------------------------------------------------------
(* No directory ever has two names, a removed one has none and is empty, and *)
(* a discard past its marker check holds the workspace.                      *)
THEOREM TypeCorrect == Spec => []TypeOK
<1>1. IInv => TypeOK
    BY DEF IInv
<1> QED
    BY <1>1, Invariance, PTL

(* Under its own name the workspace is complete or absent, unless another    *)
(* process has renamed it.                                                   *)
THEOREM Undivided == Spec => []WholeOrAway
<1>1. IInv => WholeOrAway
    BY DEF IInv, TypeOK, AwayInv, WholeOrAway, Names
<1> QED
    BY <1>1, Invariance, PTL

(* Discards never remove an entry of another directory, nor such a directory *)
(* that has entries, whatever is renamed under them.                         *)
THEOREM OthersKept == Spec => OnlyOwnEmptied
<1> DEFINE Kept == \A o \in Decoys : files'[o] = files[o] /\ (files[o] # {} => o \notin gone')
<1>1. IInv /\ [Next]_vars => [Kept]_vars
  <2> SUFFICES ASSUME IInv, IInv', Next, NEW o \in Decoys
                PROVE  files'[o] = files[o] /\ (files[o] # {} => o \notin gone')
    BY NextIInv
  <2>1. files'[o] = files[o]
    <3>1. CASE Prepare
        BY <3>1 DEF Prepare, Create, Write, GiveUp, Raise, RemoveWorkspace, RemoveFails,
              PrepareDies, disk, IInv, TypeOK, Dirs
    <3>2. CASE \E d \in Discards : Unlink(d)
        BY <3>2 DEF Unlink, Is, IInv, TypeOK, Dirs, Emptying
    <3>3. CASE \E d \in Discards : (Discard(d) /\ ~Unlink(d)) \/ SystemFails(d) \/ DiscardDies(d)
        BY <3>3 DEF Discard, DiscardDies, SystemFails, Look, ReadSecret, Open, RequireMarker, Detach,
           CheckIdentity, RequireMarkerAgain, LookHome, PutBack, CheckQuarantine, Rmdir, disk
    <3>4. CASE \E n \in Names : TakeAway(n) \/ \E p \in Dirs : PutAt(p, n)
        BY <3>4 DEF TakeAway, PutAt
    <3> QED
        BY <3>1, <3>2, <3>3, <3>4 DEF Next
  <2> QED
    BY <2>1 DEF IInv, TypeOK
<1> QED
    BY <1>1, Invariance, PTL DEF Spec, OnlyOwnEmptied

-----------------------------------------------------------------------------
(* Concurrent discards *)

(* While nobody else renames anything and the system refuses no check: a     *)
(* discard that has renamed the workspace has it, whole until it empties it; *)
(* and until the workspace is removed it stands under its own name, where    *)
(* every discard is still on its way to it, or at the quarantine name of one *)
(* that will remove it, died or was refused its removal.                     *)
LeftBy == IF "remove" \in failed THEN {"done", "refused"} ELSE {}
Calm == prep = "ready" /\ moves = 0 /\ "verify" \notin failed
Renamed == {"identity", "recheck"} \cup Emptying
WinInv ==
    Calm =>
        /\ \A n \in Names : at[n] \in {Own, Absent}
        /\ \A d \in Discards :
              /\ pc[d] \notin Refusing
              /\ pc[d] = "marker" => fd[d] = Own
              /\ pc[d] \in Renamed => at[d] = Own
              /\ pc[d] \in {"identity", "recheck"} => files[Own] = Whole
              /\ pc[d] \in {"check", "rmdir"} => files[Own] = {} \/ "remove" \in failed
        /\ at[Home] = Own =>
              files[Own] = Whole /\ \A d \in Discards : pc[d] \in BeforeDetach \cup {"dead"}
        /\ \/ Own \in gone \/ at[Home] = Own
           \/ \E d \in Discards : at[d] = Own /\ pc[d] \in Renamed \cup LeftBy \cup {"dead"}

(* A discard that has the workspace is the only one, and it has no other name.*)
LEMMA OneHolder ==
    ASSUME IInv, WinInv, Calm, NEW d \in Discards, at[d] = Own
    PROVE  /\ \A e \in Discards \ {d} : pc[e] \notin Renamed /\ at[e] # Own
           /\ at[Home] # Own /\ Own \notin gone
<1>1. TypeOK /\ d \in Names /\ Home \in Names /\ Home # d /\ Discards \subseteq Names
  BY DEF IInv, Names
<1>2. \A n \in Names : at[n] = Own => n = d
  BY <1>1 DEF TypeOK, Dirs
<1> QED  BY <1>1, <1>2 DEF TypeOK, WinInv

(* The steps that change no name and no directory. *)
LEMMA WinQuiet ==
    ASSUME IInv, WinInv, NEW d \in Discards, UNCHANGED <<disk, prep, moves>>,
           failed \subseteq failed',
           \A e \in Discards \ {d} : pc'[e] = pc[e] /\ fd'[e] = fd[e],
           Calm /\ Calm' =>
              /\ pc'[d] \notin Refusing
              /\ pc'[d] = "marker" => fd'[d] = Own
              /\ pc'[d] \in Renamed => at[d] = Own
              /\ pc'[d] \in {"identity", "recheck"} => files[Own] = Whole
              /\ pc'[d] \in {"check", "rmdir"} => files[Own] = {} \/ "remove" \in failed'
              /\ at[Home] = Own => pc'[d] \in BeforeDetach \cup {"dead"}
              /\ at[d] = Own => pc'[d] \in Renamed \cup LeftBy' \cup {"dead"}
    PROVE  WinInv'
<1> SUFFICES ASSUME Calm, Calm'
             PROVE  WinInv'
  BY DEF WinInv, Calm, others
<1>1. UNCHANGED <<at, files, gone, moves>>
  BY DEF disk
<1>2. \/ Own \in gone \/ at[Home] = Own
      \/ \E e \in Discards : at[e] = Own /\ pc'[e] \in Renamed \cup LeftBy' \cup {"dead"}
  BY DEF WinInv, LeftBy
<1>3. \A e \in Discards :
              /\ pc'[e] \notin Refusing
              /\ pc'[e] = "marker" => fd'[e] = Own
              /\ pc'[e] \in Renamed => at[e] = Own
              /\ pc'[e] \in {"identity", "recheck"} => files[Own] = Whole
              /\ pc'[e] \in {"check", "rmdir"} => files[Own] = {} \/ "remove" \in failed'
              /\ at[Home] = Own => pc'[e] \in BeforeDetach \cup {"dead"}
  BY DEF WinInv
<1> QED  BY <1>1, <1>2, <1>3 DEF WinInv, LeftBy

LEMMA WinDiscard ==
    ASSUME IInv, IInv', WinInv, NEW d \in Discards, Discard(d) \/ SystemFails(d) \/ DiscardDies(d)
    PROVE  WinInv'
<1> SUFFICES ASSUME Calm, Calm' PROVE WinInv'
  BY FailureValues DEF WinInv, Calm, Discard, DiscardDies, Look, ReadSecret, Open, RequireMarker, Detach,
     CheckIdentity, RequireMarkerAgain, LookHome, PutBack, Unlink, CheckQuarantine,
     Rmdir, others
<1>1. /\ pc \in [Discards -> DiscardSteps] /\ fd \in [Discards -> Dirs \cup {Absent}]
      /\ at \in [Names -> Dirs \cup {Absent}] /\ Home \in Names /\ d \in Names /\ d # Home
      /\ Discards \subseteq Names /\ files \in [Dirs -> SUBSET (Whole \cup {"other"})]
      /\ Own \in Dirs /\ Absent \notin Dirs
  BY DEF IInv, TypeOK, Names, Dirs
<1>2. /\ \A n \in Names : at[n] \in {Own, Absent}
      /\ pc[d] \notin Refusing /\ (pc[d] = "marker" => fd[d] = Own)
      /\ pc[d] \in Renamed => at[d] = Own
      /\ pc[d] \in {"detach"} \cup Renamed => pc[d] = "detach" \/ fd[d] = Own
      /\ pc[d] \in {"identity", "recheck"} => files[Own] = Whole
      /\ pc[d] \in {"check", "rmdir"} => files[Own] = {} \/ "remove" \in failed
      /\ (at[Home] = Own => files[Own] = Whole /\ pc[d] \in BeforeDetach \cup {"dead"})
      /\ pc[d] \in BeforeDetach => at[d] = Absent
      /\ at[d] = Own => at[Home] # Own
  <2>1. pc[d] \in {"identity", "recheck"} \cup Emptying => fd[d] = Own
    BY DEF IInv, TypeOK
  <2>2. pc[d] \in BeforeDetach => at[d] = Absent
    BY DEF IInv, FreshInv
  <2>3. at[d] = Own => at[Home] # Own
    BY OneHolder
  <2> QED  BY <1>1, <2>1, <2>2, <2>3 DEF WinInv, Renamed
<1> DEFINE Then(s) == UNCHANGED <<disk, prep, others>> /\ pc' = [pc EXCEPT ![d] = s]
<1>3. CASE DiscardDies(d)
  <2>1. Then("dead") /\ fd' = fd
    BY <1>3 DEF DiscardDies, Goto
  <2> QED  BY <1>1, <2>1, WinQuiet DEF others, Refusing, Renamed, Emptying
<1>4. CASE Look(d) \/ ReadSecret(d) \/ RequireMarker(d)
  <2>1. fd' = fd /\ \E s \in {"done", "secret", "open", "refused", "detach"} :
           Then(s) /\ (at[Home] = Own => s \in {"secret", "open", "detach"})
    BY <1>1, <1>2, <1>4 DEF Look, ReadSecret, RequireMarker, Is, Goto, Whole
  <2>2. at[d] # Own
    BY <1>1, <1>2, <1>4 DEF Look, ReadSecret, RequireMarker, Is, BeforeDetach
  <2> QED  BY <1>1, <2>1, <2>2, WinQuiet DEF others, Refusing, Renamed, Emptying, BeforeDetach
<1>5. CASE Open(d)
  <2>1. /\ fd' = [fd EXCEPT ![d] = at[Home]] /\ at[d] # Own
        /\ \E s \in {"refused", "marker"} :
              Then(s) /\ (at[Home] = Own <=> s = "marker")
    BY <1>1, <1>2, <1>5 DEF Open, Is, Goto, BeforeDetach
  <2> QED  BY <1>1, <2>1, WinQuiet DEF others, Refusing, Renamed, Emptying, BeforeDetach
<1>6. CASE CheckIdentity(d) \/ RequireMarkerAgain(d) \/ CheckQuarantine(d)
  <2>1. fd' = fd /\ \E s \in {"recheck", "unlink", "rmdir"} :
           /\ Then(s) /\ pc[d] \in {"identity", "recheck", "check"} /\ at[d] = Own
           /\ s = "recheck" => files[Own] = Whole
           /\ s = "rmdir" => files[Own] = {} \/ "remove" \in failed
    BY <1>1, <1>2, <1>6 DEF CheckIdentity, RequireMarkerAgain, CheckQuarantine, Is, Goto,
       Whole, Renamed, Emptying
  <2> QED  BY <1>1, <1>2, <2>1, WinQuiet DEF others, Refusing, Renamed, Emptying, BeforeDetach
<1>7. CASE Unlink(d)
  <2>1. /\ pc[d] = "unlink" /\ at[d] = Own /\ fd[d] = Own
        /\ UNCHANGED <<at, gone, prep, fd, others>>
        /\ \/ pc' = pc
           \/ pc' = [pc EXCEPT ![d] = "check"] /\ files' = files /\ files[Own] = {}
    BY <1>1, <1>2, <1>7 DEF Unlink, Is, Goto, Renamed, Emptying
  <2>2. \A e \in Discards \ {d} : pc[e] \notin Renamed
    BY <2>1, OneHolder
  <2>3. at[Home] # Own /\ Own \notin gone
    BY <2>1, OneHolder
  <2>4. /\ pc'[d] \in {"unlink", "check"} /\ (pc'[d] = "check" => files'[Own] = {})
        /\ \A e \in Discards \ {d} : pc'[e] = pc[e]
    BY <1>1, <2>1
  <2>5. moves' = moves
    BY <2>1 DEF others
  <2> QED  BY <1>1, <1>2, <2>1, <2>2, <2>3, <2>4, <2>5 DEF WinInv, Renamed, Emptying, Refusing
<1>8. CASE Rmdir(d)
  <2>1. /\ pc[d] = "rmdir" /\ at[d] = Own
        /\ UNCHANGED <<files, prep, fd, others>> /\ pc' = [pc EXCEPT ![d] = "done"]
        /\ \/ files[Own] = {} /\ gone' = gone \cup {Own} /\ at' = [at EXCEPT ![d] = Absent]
           \/ "remove" \in failed /\ UNCHANGED <<at, gone>>
    BY <1>1, <1>2, <1>8 DEF Rmdir, Is, Goto, Renamed, Emptying
  <2>2. \A e \in Discards \ {d} : pc[e] \notin Renamed
    BY <2>1, OneHolder
  <2>3. at[Home] # Own
    BY <2>1, OneHolder
  <2>4. /\ pc'[d] = "done" /\ \A e \in Discards \ {d} : pc'[e] = pc[e]
        /\ \A n \in Names : at'[n] \in {Own, Absent}
        /\ at'[Home] # Own /\ moves' = moves /\ failed' = failed
        /\ \/ Own \in gone'
           \/ at'[d] = Own /\ "remove" \in failed'
    BY <1>1, <1>2, <2>1, <2>3 DEF others
  <2> QED  BY <1>1, <1>2, <2>1, <2>2, <2>4 DEF WinInv, LeftBy, Renamed, Emptying, Refusing
<1>9. CASE Detach(d) /\ at[Home] = Absent
  <2>1. Then("refused") /\ fd' = fd /\ at[d] # Own
    BY <1>1, <1>2, <1>9 DEF Detach, Is, Goto, disk, BeforeDetach
  <2> QED  BY <1>1, <1>2, <1>9, <2>1, WinQuiet DEF others, Refusing, Renamed, Emptying
<1>10. CASE Detach(d) /\ at[Home] # Absent
  <2>1. /\ at[Home] = Own /\ files[Own] = Whole
        /\ UNCHANGED <<files, gone, prep, fd, others>>
        /\ pc' = [pc EXCEPT ![d] = "identity"]
        /\ at' = [at EXCEPT ![d] = Own, ![Home] = Absent]
    BY <1>1, <1>2, <1>10 DEF Detach, Is, Goto, RenameTo
  <2>2. \A e \in Discards : pc[e] \in BeforeDetach \cup {"dead"}
    BY <2>1 DEF WinInv
  <2>3. /\ pc'[d] = "identity" /\ \A e \in Discards \ {d} : pc'[e] = pc[e]
        /\ at'[d] = Own /\ at'[Home] = Absent /\ moves' = moves
        /\ \A n \in Names : at'[n] \in {Own, Absent}
    BY <1>1, <1>2, <2>1 DEF others
  <2>4. \A e \in Discards :
              /\ pc'[e] \notin Refusing
              /\ pc'[e] = "marker" => fd'[e] = Own
              /\ pc'[e] \in Renamed => at'[e] = Own
              /\ pc'[e] \notin {"check", "rmdir"}
    BY <2>1, <2>2, <2>3 DEF WinInv, Refusing, Renamed, Emptying, BeforeDetach
  <2> QED  BY <1>1, <2>1, <2>3, <2>4 DEF WinInv, Renamed
<1>12. CASE SystemFails(d)
  <2>1. /\ UNCHANGED <<disk, prep, moves, fd>> /\ pc[d] \in Emptying /\ "remove" \in failed'
        /\ failed \subseteq failed'
    BY <1>12, FailureValues DEF Calm, disk
  <2>2. /\ at[d] = Own /\ at[Home] # Own
        /\ pc'[d] \in {"done", "refused", "check"}
        /\ \A e \in Discards \ {d} : pc'[e] = pc[e]
    BY <1>2, <1>12, <2>1, FailureValues DEF Renamed
  <2> QED  BY <2>1, <2>2, WinQuiet DEF others, Refusing, Renamed, Emptying, LeftBy
<1>11. ~LookHome(d) /\ ~PutBack(d)
  BY <1>2 DEF LookHome, PutBack, Is, Refusing
<1> QED  BY <1>3, <1>4, <1>5, <1>6, <1>7, <1>8, <1>9, <1>10, <1>11, <1>12 DEF Discard

LEMMA NextWins ==
    ASSUME IInv, IInv', WinInv, [Next]_vars
    PROVE  WinInv'
<1>1. CASE UNCHANGED vars
  BY <1>1 DEF vars, WinInv, Calm, LeftBy
<1>2. CASE Prepare
  <2> SUFFICES ASSUME prep' = "ready" PROVE WinInv'
    BY DEF WinInv, Calm
  <2>1. /\ prep = "marker" /\ files' = [files EXCEPT ![Own] = files[Own] \cup {"marker"}]
        /\ UNCHANGED <<at, gone, pc, fd, others>>
    BY <1>2 DEF Prepare, Create, Write, GiveUp, Raise, RemoveWorkspace, RemoveFails,
       PrepareDies, After
  <2>2. /\ files[Own] = {"manifest", "prompt", "route"} /\ at[Home] = Own
        /\ \A d \in Discards : pc[d] = "idle" /\ at[d] = Absent
    BY <2>1 DEF IInv, PrepareInv
  <2>3. files'[Own] = Whole
    BY <2>1, <2>2 DEF IInv, TypeOK, Dirs, Whole, Artifacts
  <2>4. \A n \in Names : at[n] \in {Own, Absent}
    BY <2>2 DEF Names
  <2> QED  BY <2>1, <2>2, <2>3, <2>4 DEF WinInv, Refusing, Renamed, Emptying, BeforeDetach
<1>3. ASSUME NEW n \in Names, TakeAway(n) \/ \E o \in Dirs : PutAt(o, n)
      PROVE  WinInv'
  <2>1. moves' = moves + 1 /\ moves \in Nat
    BY <1>3 DEF TakeAway, PutAt, Move, IInv, TypeOK
  <2> QED  BY <2>1 DEF WinInv, Calm
<1> QED  BY <1>1, <1>2, <1>3, WinDiscard DEF Next

(* SomeDiscardWins: discards of one workspace, however many and however they *)
(* interleave, do not refuse each other into leaving it: once all ended, and *)
(* none died, nobody else renamed anything and the system refused no check,  *)
(* it is away from its name, and removed unless the system refused that.     *)
THEOREM ADiscardWins == Spec => []SomeDiscardWins
<1>1. Init => WinInv
  BY DEF Init, WinInv, Calm
<1>2. IInv /\ IInv' /\ WinInv /\ [Next]_vars => WinInv'
  BY NextWins
<1>3. IInv /\ WinInv => SomeDiscardWins
  BY DEF WinInv, Calm, LeftBy, SomeDiscardWins, Renamed, Emptying, BeforeDetach
<1> QED
  BY <1>1, <1>2, <1>3, Invariance, PTL DEF Spec
=============================================================================

-------------------------- MODULE OrchestratorProofs --------------------------
(***************************************************************************)
(* Theorems about Orchestrator, for any number of calls, versions of the   *)
(* tree, checks, faults and changes from outside.                          *)
(***************************************************************************)
EXTENDS Orchestrator, TLAPS

-----------------------------------------------------------------------------
(* The invariant *)

Recording == {"record", "line", "save"}
Closing   == {"returning", "publish"}

(* What a call knows at each of its places: a snapshot that passed the gate   *)
(* has no failing check, a reviewed one is in scope besides, and an accepted  *)
(* outcome or a captured review is of such a version.                        *)
Sound(r) ==
    /\ r.at \in Working => r.id \in Calls
    /\ r.at \in {"bind", "diff", "review"} => r.snap \in Trees /\ Broken[r.snap] = {}
    /\ r.at \in {"diff", "review"} => InScope(r.snap)
    /\ r.at = "review" => r.read \in Trees
    /\ r.at = "idle" => r.captured = None /\ r.out = "FAIL" /\ r.repairs = 0
    /\ r.at \in Recording /\ r.out \in Accepted
          => \E t \in Trees : Verified(r.id, t)
    /\ r.captured # None => r.captured \in Trees /\ Verified(r.id, r.captured)
    /\ r.at = "publish" => r.captured # None

(* The executor ran at most once for each round a call has begun: n calls    *)
(* under the id of call c, whose locals are r.                               *)
Counted(r, c, n) ==
    /\ r.at = "idle" => n = 0
    /\ r.at \in {"preflight", "execute", "repair"} => r.id = c /\ n <= r.repairs
    /\ r.at \in {"scope", "gate", "bind", "diff", "review"} => r.id = c /\ n <= r.repairs + 1
    /\ n <= MaxRepairs + 1

(* Under the supervisor: what a call has recorded when it goes on.           *)
Ordered(r) ==
    /\ r.at \in Working \ Closing => state.kind # "terminal"
    /\ r.at = "diff" /\ edits = 0 => tree = r.snap
    /\ r.at = "review" /\ edits = 0 => r.read = r.snap
    /\ r.at = "line" => ~torn /\ \A m \in memory : m.id # r.id
    /\ r.at = "save" /\ r.out \in Accepted
          => \/ \E m \in memory : m.id = r.id /\ m.out = r.out
             \/ r.id \in lost /\ torn
    /\ r.at \in Closing /\ r.captured # None
          => state.kind = "terminal" /\ state.id = r.id /\ state.out = r.out
    /\ r.at = "publish" => r.out \in Accepted

Others(c) == \A d \in Calls \ {c} : run[d].at \notin Working

LocalInv == \A c \in Calls : Sound(run[c])
CountInv == \A c \in Calls : Counted(run[c], c, ran[c])
EpicInv ==
    mode = "epic" =>
        /\ \A c \in Calls : run[c].at \in Working => Others(c)
        /\ \A c \in Calls : Ordered(run[c])

StateInv == state.kind # "none" => state.id \in Calls

IInv ==
    /\ TypeOK
    /\ LocalInv
    /\ CountInv
    /\ EpicInv
    /\ StateInv
    /\ PassIsVerified
    /\ ReportedIsRecorded

-----------------------------------------------------------------------------
(* Lemmas for every step *)

(* What a review found stays: approvals are only added, and a tree that was   *)
(* touched once stays touched.                                               *)
LEMMA SoundGrows ==
    ASSUME NEW r \in Local, Sound(r), approved \subseteq approved',
           Undisturbed' => Undisturbed
    PROVE  Sound(r)'
BY DEF Sound, Verified, InScope

LEMMA AcceptedGrows ==
    ASSUME PassIsVerified, approved \subseteq approved',
           Undisturbed' => Undisturbed,
           UNCHANGED <<memory, state, artifact>>
    PROVE  PassIsVerified'
BY DEF PassIsVerified, Verified, InScope

(* A step of call c that gives it the locals v.                              *)
LEMMA Moves ==
    ASSUME IInv, NEW c \in Calls, NEW v \in Local,
           run' = [run EXCEPT ![c] = v],
           UNCHANGED <<mode, edits>>, approved \subseteq approved', Sound(v)',
           ran' \in [Calls -> 0 .. Cap],
           \A d \in Calls \ {c} : ran'[d] = ran[d],
           Counted(v, c, ran'[c]),
           mode = "epic" => Others(c),
           mode = "epic" => Ordered(v)'
    PROVE  run' \in [Calls -> Local] /\ LocalInv' /\ CountInv' /\ EpicInv'
<1>1. run \in [Calls -> Local]
  BY DEF IInv, TypeOK
<1>2. run' \in [Calls -> Local] /\ run'[c] = v
      /\ \A d \in Calls \ {c} : run'[d] = run[d]
  BY <1>1
<1>3. LocalInv'
  <2>1. ASSUME NEW d \in Calls \ {c} PROVE Sound(run[d])'
    <3>1. run[d] \in Local /\ Sound(run[d])
      BY <1>1 DEF IInv, LocalInv
    <3>2. PICK r \in Local : r = run[d] /\ Sound(r)
      BY <3>1
    <3>3. Sound(r)'
      BY <3>2, SoundGrows DEF Undisturbed
    <3>4. run'[d] = r
      BY <1>2, <3>2
    <3> QED  BY <3>3, <3>4
  <2> QED  BY <1>2, <2>1 DEF LocalInv
<1>4. CountInv'
  BY <1>2 DEF CountInv, IInv
<1>5. EpicInv'
  <2> SUFFICES ASSUME mode = "epic" PROVE EpicInv'
    BY DEF EpicInv
  <2>1. \A d \in Calls \ {c} : run'[d].at \notin Working
    BY <1>2 DEF Others
  <2>2. \A d \in Calls \ {c} : Ordered(run[d])'
    BY <2>1 DEF Ordered, Working, Closing
  <2>3. Ordered(run[c])'
    BY <1>2
  <2> QED  BY <2>1, <2>2, <2>3 DEF EpicInv, Others
<1> QED  BY <1>2, <1>3, <1>4, <1>5

(* A step that leaves the state file, the memory and the artifact alone.     *)
LEMMA QuietMoves ==
    ASSUME IInv, NEW c \in Calls, NEW v \in Local,
           run' = [run EXCEPT ![c] = v],
           UNCHANGED <<outside, shared>>, tree' \in Trees,
           approved \subseteq approved', approved' \subseteq Calls \X Trees \X Trees,
           faults' \in 0 .. MaxFaults[mode], UNCHANGED edits,
           v.at # "diff" \/ UNCHANGED tree,
           ran' \in [Calls -> 0 .. Cap],
           \A d \in Calls \ {c} : ran'[d] = ran[d],
           Counted(v, c, ran'[c]), Sound(v)',
           mode = "epic" => Others(c),
           mode = "epic" => Ordered(v)
    PROVE  IInv'
<1>1. UNCHANGED <<mode, delivery, state, memory, unended, torn, lost, artifact, edits>>
  BY DEF outside, shared
<1>2. mode = "epic" => Ordered(v)'
  BY <1>1 DEF Ordered
<1>3. run' \in [Calls -> Local] /\ LocalInv' /\ CountInv' /\ EpicInv'
  BY <1>1, <1>2, Moves
<1>4. TypeOK'
  BY <1>1, <1>3 DEF IInv, TypeOK
<1>5. PassIsVerified'
  BY <1>1, AcceptedGrows DEF IInv, Undisturbed
<1>6. ReportedIsRecorded' /\ StateInv'
  BY <1>1 DEF IInv, ReportedIsRecorded, StateInv
<1> QED  BY <1>3, <1>4, <1>5, <1>6 DEF IInv

LEMMA PlainMoves ==
    ASSUME IInv, NEW c \in Calls, NEW v \in Local,
           run' = [run EXCEPT ![c] = v],
           UNCHANGED <<outside, shared, history>>,
           tree' \in Trees, faults' \in 0 .. MaxFaults[mode],
           v.at # "diff" \/ UNCHANGED tree,
           Counted(v, c, ran[c]), Sound(v),
           mode = "epic" => Others(c),
           mode = "epic" => Ordered(v)
    PROVE  IInv'
<1>1. UNCHANGED <<ran, approved, edits>>
  BY DEF history
<1>2. Sound(v)'
  BY <1>1, SoundGrows DEF Undisturbed, outside
<1>3. ran \in [Calls -> 0 .. Cap] /\ approved \subseteq Calls \X Trees \X Trees
  BY DEF IInv, TypeOK
<1> QED  BY <1>1, <1>2, <1>3, QuietMoves

(* What a working call has to begin with.                                    *)
LEMMA WorkingFacts ==
    ASSUME IInv, NEW c \in Calls, run[c].at \in Working
    PROVE  /\ run[c] \in Local /\ run[c].id \in Calls
           /\ Sound(run[c]) /\ Counted(run[c], c, ran[c])
           /\ ran[c] \in 0 .. Cap
           /\ mode = "epic" => Others(c) /\ Ordered(run[c])
BY DEF IInv, TypeOK, LocalInv, CountInv, EpicInv, Sound

LEMMA RepairsNat == MaxRepairs \in Nat /\ Cap \in Nat /\ MaxRepairs + 1 <= Cap
BY OrchestratorAssumption DEF Cap

(* A call goes on with the locals it has. *)
LEMMA GoFacts ==
    ASSUME NEW r \in Local, NEW p \in Working \cup Over
    PROVE  LET v == [r EXCEPT !.at = p] IN
           /\ v \in Local /\ v.at = p /\ v.id = r.id /\ v.repairs = r.repairs
           /\ v.snap = r.snap /\ v.captured = r.captured /\ v.out = r.out
           /\ v.again = r.again
BY DEF Local

(* A call that is gone keeps nothing. *)
LEMMA EndFacts ==
    ASSUME IInv, NEW c \in Calls, NEW p \in Over
    PROVE  /\ [Blank EXCEPT !.at = p] \in Local
           /\ Sound([Blank EXCEPT !.at = p])
           /\ Counted([Blank EXCEPT !.at = p], c, ran[c])
           /\ Ordered([Blank EXCEPT !.at = p])
<1> DEFINE v == [Blank EXCEPT !.at = p]
<1>1. Blank \in Local /\ Blank.captured = None
  <2>1. 0 \in 0 .. MaxRepairs
    BY RepairsNat
  <2> QED  BY <2>1 DEF Blank, Local, Outcomes
<1>2. v.at = p /\ v.captured = None /\ v \in Local
  BY <1>1, GoFacts
<1>3. ran[c] <= MaxRepairs + 1
  BY DEF IInv, CountInv, Counted
<1> HIDE DEF v
<1>4. Sound(v) /\ Counted(v, c, ran[c]) /\ Ordered(v)
  BY <1>2, <1>3 DEF Sound, Counted, Ordered, Over, Working, Recording, Closing
<1> QED  BY <1>2, <1>4 DEF v

(* A failed run goes to its record.                                          *)
LEMMA ClosedFacts ==
    ASSUME NEW r \in Local, NEW o \in Outcomes, NEW b \in BOOLEAN
    PROVE  /\ LET v == Closed(r, o) IN
              /\ v \in Local /\ v.at = "record" /\ v.out = o /\ v.id = r.id
              /\ v.repairs = r.repairs /\ v.captured = r.captured
           /\ LET v == [Closed(r, o) EXCEPT !.again = b] IN
              /\ v \in Local /\ v.at = "record" /\ v.out = o /\ v.id = r.id
              /\ v.repairs = r.repairs /\ v.captured = r.captured
<1>1. 0 \in 0 .. MaxRepairs
  BY RepairsNat
<1> QED  BY <1>1 DEF Closed, Local, Working

LEMMA FinishFacts ==
    ASSUME IInv, NEW c \in Calls, run[c].at \in Working \ Closing,
           Finish(c) \/ Raise(c)
    PROVE  \E v \in Local :
              /\ run' = [run EXCEPT ![c] = v]
              /\ v.at = "record" /\ v.out = "FAIL" /\ v.id = run[c].id
              /\ v.repairs = run[c].repairs /\ v.captured = run[c].captured
              /\ Sound(v) /\ Counted(v, c, ran[c])
              /\ mode = "epic" => Ordered(v)
<1>1. run[c] \in Local /\ run[c].id \in Calls /\ Sound(run[c])
      /\ Counted(run[c], c, ran[c]) /\ (mode = "epic" => Ordered(run[c]))
  BY WorkingFacts
<1>2. "FAIL" \in Outcomes /\ TRUE \in BOOLEAN
  BY DEF Outcomes
<1>3. PICK v \in Local :
        /\ run' = [run EXCEPT ![c] = v]
        /\ v.at = "record" /\ v.out = "FAIL" /\ v.id = run[c].id
        /\ v.repairs = run[c].repairs /\ v.captured = run[c].captured
  <2> DEFINE f == Closed(run[c], "FAIL")
             g == [Closed(run[c], "FAIL") EXCEPT !.again = TRUE]
  <2>1. /\ f \in Local /\ f.at = "record" /\ f.out = "FAIL" /\ f.id = run[c].id
        /\ f.repairs = run[c].repairs /\ f.captured = run[c].captured
    BY <1>1, <1>2, ClosedFacts
  <2>2. /\ g \in Local /\ g.at = "record" /\ g.out = "FAIL" /\ g.id = run[c].id
        /\ g.repairs = run[c].repairs /\ g.captured = run[c].captured
    BY <1>1, <1>2, ClosedFacts
  <2>3. run' = [run EXCEPT ![c] = f] \/ run' = [run EXCEPT ![c] = g]
    BY DEF Finish, Raise
  <2> HIDE DEF f, g
  <2> QED  BY <2>1, <2>2, <2>3
<1>4. Sound(v)
  BY <1>1, <1>3 DEF Sound, Recording, Accepted
<1>5. Counted(v, c, ran[c])
  BY <1>1, <1>3 DEF Counted
<1>6. mode = "epic" => Ordered(v)
  BY <1>1, <1>3 DEF Ordered, Closing
<1> QED  BY <1>3, <1>4, <1>5, <1>6

-----------------------------------------------------------------------------
(* Every action preserves the invariant *)

LEMMA BeginFacts ==
    ASSUME IInv, NEW c \in Calls, At(c, "idle")
    PROVE  /\ Begin(c) \in Local /\ Sound(Begin(c)) /\ Counted(Begin(c), c, ran[c])
           /\ Ordered(Begin(c))
<1> DEFINE v == Begin(c)
<1>1. run[c] \in Local /\ run[c].captured = None /\ run[c].out = "FAIL"
      /\ run[c].repairs = 0 /\ ran[c] = 0
  BY DEF At, IInv, TypeOK, LocalInv, CountInv, Sound, Counted
<1>2. state.kind \in {"none", "running", "terminal"} /\ state.id \in Calls \cup {None}
      /\ state.repairs \in 0 .. MaxRepairs /\ state.out \in Outcomes
      /\ (state.kind # "none" => state.id \in Calls)
  BY DEF IInv, TypeOK, StateInv
<1>3. CASE state.kind = "terminal"
  <2>1. v = [run[c] EXCEPT !.at = "returning", !.id = state.id,
                           !.repairs = state.repairs, !.out = state.out]
    BY <1>3 DEF Begin
  <2>2. v \in Local /\ v.at = "returning" /\ v.id \in Calls /\ v.captured = None
    BY <1>1, <1>2, <1>3, <2>1 DEF Local, Working
  <2> HIDE DEF v
  <2>3. Sound(v) /\ Counted(v, c, ran[c]) /\ Ordered(v)
    BY <1>1, <2>2, RepairsNat DEF Sound, Counted, Ordered, Recording, Closing
  <2> QED  BY <2>2, <2>3 DEF v
<1>4. CASE state.kind = "running"
  <2>1. v = [run[c] EXCEPT !.at = "record", !.id = state.id,
                           !.repairs = state.repairs, !.again = TRUE]
    BY <1>4 DEF Begin
  <2>2. v \in Local /\ v.at = "record" /\ v.id \in Calls /\ v.captured = None
        /\ v.out = "FAIL"
    BY <1>1, <1>2, <1>4, <2>1 DEF Local, Working
  <2> HIDE DEF v
  <2>3. Sound(v) /\ Counted(v, c, ran[c]) /\ Ordered(v)
    BY <1>1, <1>4, <2>2, RepairsNat
       DEF Sound, Counted, Ordered, Recording, Closing, Accepted
  <2> QED  BY <2>2, <2>3 DEF v
<1>5. CASE state.kind = "none"
  <2>1. v = [run[c] EXCEPT !.at = "preflight", !.id = c]
    BY <1>5 DEF Begin
  <2>2. v \in Local /\ v.at = "preflight" /\ v.id = c /\ v.captured = None
        /\ v.repairs = 0
    BY <1>1, <2>1 DEF Local, Working
  <2> HIDE DEF v
  <2>3. Sound(v) /\ Counted(v, c, ran[c]) /\ Ordered(v)
    BY <1>1, <1>5, <2>2, RepairsNat DEF Sound, Counted, Ordered, Recording, Closing
  <2> QED  BY <2>2, <2>3 DEF v
<1> QED  BY <1>2, <1>3, <1>4, <1>5

LEMMA FaultFacts ==
    ASSUME IInv, UNCHANGED outside
    PROVE  /\ tree \in Trees /\ faults \in 0 .. MaxFaults[mode]
           /\ Fault => faults' \in 0 .. MaxFaults[mode]
BY OrchestratorAssumption DEF IInv, TypeOK, Fault, outside

LEMMA StepStart ==
    ASSUME IInv, NEW c \in Calls, Start(c)
    PROVE  IInv'
<1>1. At(c, "idle") /\ UNCHANGED <<tree, faults, outside, shared, history>>
      /\ (mode = "epic" => Others(c))
  BY DEF Start, Others
<1>2. tree' \in Trees /\ faults' \in 0 .. MaxFaults[mode]
  BY <1>1, FaultFacts
<1>3. ASSUME NEW p \in Over, End(c, p) PROVE IInv'
  BY <1>1, <1>2, <1>3, EndFacts, PlainMoves DEF End
<1>4. ASSUME run' = [run EXCEPT ![c] = Begin(c)] PROVE IInv'
  BY <1>1, <1>2, <1>4, BeginFacts, PlainMoves
<1> QED  BY <1>3, <1>4 DEF Start, Refuse, Over

(* An early end of a run, at any of its places.                              *)
LEMMA FinishMoves ==
    ASSUME IInv, NEW c \in Calls, run[c].at \in Working \ Closing,
           Finish(c) \/ Raise(c), UNCHANGED <<outside, shared, history>>,
           tree' \in Trees, faults' \in 0 .. MaxFaults[mode]
    PROVE  IInv'
<1>1. PICK v \in Local :
        /\ run' = [run EXCEPT ![c] = v] /\ v.at = "record"
        /\ Sound(v) /\ Counted(v, c, ran[c])
        /\ mode = "epic" => Ordered(v)
  BY FinishFacts
<1>2. mode = "epic" => Others(c)
  BY WorkingFacts
<1> QED  BY <1>1, <1>2, PlainMoves

LEMMA StepPreflight ==
    ASSUME IInv, NEW c \in Calls, Preflight(c) \/ Scope(c)
    PROVE  IInv'
<1>1. run[c].at \in {"preflight", "scope"}
      /\ UNCHANGED <<tree, faults, outside, shared, history>>
  BY DEF Preflight, Scope, At
<1>2. tree' \in Trees /\ faults' \in 0 .. MaxFaults[mode]
      /\ run[c].at \in Working \ Closing
  BY <1>1, FaultFacts DEF Working, Closing
<1>3. CASE Raise(c)
  BY <1>1, <1>2, <1>3, FinishMoves
<1>4. ASSUME NEW p \in {"execute", "gate"}, Go(c, p),
             p = "gate" <=> run[c].at = "scope"
      PROVE  IInv'
  <2> DEFINE v == [run[c] EXCEPT !.at = p]
  <2>1. run[c] \in Local /\ run[c].id \in Calls /\ Sound(run[c])
        /\ Counted(run[c], c, ran[c]) /\ (mode = "epic" => Others(c) /\ Ordered(run[c]))
    BY <1>2, WorkingFacts
  <2>2. v \in Local /\ v.at = p /\ v.id = run[c].id /\ v.repairs = run[c].repairs
        /\ v.captured = run[c].captured
    BY <2>1, <1>4, GoFacts DEF Working
  <2>3. run' = [run EXCEPT ![c] = v]
    BY <1>4 DEF Go
  <2> HIDE DEF v
  <2>4. Sound(v) /\ Counted(v, c, ran[c])
    BY <1>1, <1>4, <2>1, <2>2 DEF Sound, Counted, Recording
  <2>5. mode = "epic" => Ordered(v)
    BY <1>1, <1>2, <1>4, <2>1, <2>2 DEF Ordered, Closing, Working
  <2> QED  BY <1>1, <1>2, <2>1, <2>2, <2>3, <2>4, <2>5, PlainMoves
<1>5. Raise(c) \/ (run[c].at = "preflight" /\ Go(c, "execute"))
      \/ (run[c].at = "scope" /\ Go(c, "gate"))
  BY DEF Preflight, Scope, At
<1> QED  BY <1>3, <1>4, <1>5

LEMMA StepExecute ==
    ASSUME IInv, NEW c \in Calls, Execute(c)
    PROVE  IInv'
<1>1. run[c].at = "execute" /\ UNCHANGED <<faults, outside, shared, approved, edits>>
      /\ run[c].at \in Working \ Closing
  BY DEF Execute, At, Working, Closing
<1>2. run[c] \in Local /\ run[c].id = c /\ Sound(run[c])
      /\ ran[c] \in Nat /\ ran[c] <= run[c].repairs /\ run[c].repairs \in 0 .. MaxRepairs
      /\ (mode = "epic" => Others(c) /\ Ordered(run[c]))
  BY <1>1, WorkingFacts, RepairsNat DEF Counted, Local
<1>3. CASE Finish(c) /\ UNCHANGED <<tree, ran>>
  <2>1. UNCHANGED <<outside, shared, history>> /\ tree' \in Trees
        /\ faults' \in 0 .. MaxFaults[mode]
    BY <1>1, <1>3, FaultFacts DEF history
  <2> QED  BY <1>1, <1>3, <2>1, FinishMoves
<1>4. CASE /\ ran' = [ran EXCEPT ![run[c].id] = IF @ < Cap THEN @ + 1 ELSE @]
           /\ tree' \in Trees
           /\ Answered(c, "scope") \/ Finish(c)
  <2>1. ran \in [Calls -> 0 .. Cap] /\ ran[c] < Cap
    BY <1>2, RepairsNat DEF IInv, TypeOK
  <2>2. ran' \in [Calls -> 0 .. Cap] /\ ran'[c] = ran[c] + 1
        /\ \A d \in Calls \ {c} : ran'[d] = ran[d]
    BY <1>2, <1>4, <2>1, RepairsNat
  <2>3. faults' \in 0 .. MaxFaults[mode] /\ approved' \subseteq Calls \X Trees \X Trees
        /\ UNCHANGED edits /\ approved \subseteq approved'
        /\ UNCHANGED <<outside, shared>>
    BY <1>1 DEF IInv, TypeOK, outside
  <2>4. ASSUME NEW v \in Local, run' = [run EXCEPT ![c] = v],
               v.at = "scope" \/ (v.at = "record" /\ v.out = "FAIL"),
               v.id = c, v.repairs = run[c].repairs, v.captured = run[c].captured
        PROVE  IInv'
    <3>1. Sound(v)
      BY <1>1, <1>2, <2>4 DEF Sound, Recording, Accepted
    <3>2. Counted(v, c, ran'[c])
      BY <1>2, <2>2, <2>4, RepairsNat DEF Counted
    <3>3. mode = "epic" => Ordered(v)
      BY <1>1, <1>2, <2>4 DEF Ordered, Closing
    <3>4. Sound(v)'
      BY <2>3, <3>1, SoundGrows DEF Undisturbed, outside
    <3> QED  BY <1>2, <1>4, <2>2, <2>3, <2>4, <3>2, <3>3, <3>4, QuietMoves
  <2>5. CASE Finish(c) \/ Raise(c)
    <3>1. PICK v \in Local :
            /\ run' = [run EXCEPT ![c] = v]
            /\ v.at = "record" /\ v.out = "FAIL" /\ v.id = run[c].id
            /\ v.repairs = run[c].repairs /\ v.captured = run[c].captured
      BY <1>1, <2>5, FinishFacts
    <3> QED  BY <1>2, <2>4, <3>1
  <2>6. CASE Go(c, "scope")
    <3> DEFINE v == [run[c] EXCEPT !.at = "scope"]
    <3>1. run' = [run EXCEPT ![c] = v]
      BY <2>6 DEF Go
    <3>2. v \in Local /\ v.at = "scope" /\ v.id = c /\ v.repairs = run[c].repairs
          /\ v.captured = run[c].captured
      BY <1>2, GoFacts DEF Working
    <3> HIDE DEF v
    <3> QED  BY <2>4, <3>1, <3>2
  <2> QED  BY <1>4, <2>5, <2>6 DEF Answered
<1> QED  BY <1>3, <1>4 DEF Execute

(* The locals of a call that starts another round, or of one that may not.   *)
LEMMA RepairFacts ==
    ASSUME IInv, NEW c \in Calls, run[c].at \in {"gate", "review"},
           NEW r \in Local, r.id = c, r.repairs = run[c].repairs,
           r.captured \in {None, run[c].captured}, Repair(c, r)
    PROVE  \E v \in Local :
              /\ run' = [run EXCEPT ![c] = v]
              /\ Sound(v) /\ Counted(v, c, ran[c])
              /\ mode = "epic" => Ordered(v)
<1>1. Sound(run[c]) /\ ran[c] <= run[c].repairs + 1 /\ ran[c] \in Nat
      /\ run[c].repairs \in 0 .. MaxRepairs /\ (mode = "epic" => Ordered(run[c]))
      /\ ran[c] <= MaxRepairs + 1 /\ run[c].id = c
  BY WorkingFacts, RepairsNat DEF Working, Counted, Local
<1> DEFINE w == Closed(r, "FAIL")
           u == [r EXCEPT !.at = "repair", !.repairs = @ + 1]
<1>2. w \in Local /\ w.at = "record" /\ w.out = "FAIL" /\ w.id = c
      /\ w.captured = r.captured
  BY ClosedFacts DEF Outcomes
<1>3. Sound(w) /\ Counted(w, c, ran[c]) /\ (mode = "epic" => Ordered(w))
  <2> HIDE DEF w
  <2> QED  BY <1>1, <1>2
           DEF Sound, Counted, Ordered, Recording, Accepted, Closing, Working
<1>4. ASSUME ~(r.repairs >= MaxRepairs)
      PROVE  u \in Local /\ u.at = "repair" /\ u.id = c
             /\ u.repairs = run[c].repairs + 1 /\ u.captured = r.captured
  <2>1. r.repairs + 1 \in 0 .. MaxRepairs
    BY <1>1, <1>4, RepairsNat
  <2> QED  BY <2>1 DEF Local, Working
<1>5. ASSUME ~(r.repairs >= MaxRepairs)
      PROVE  Sound(u) /\ Counted(u, c, ran[c]) /\ (mode = "epic" => Ordered(u))
  <2>1. u \in Local /\ u.at = "repair" /\ u.id = c
        /\ u.repairs = run[c].repairs + 1 /\ u.captured = r.captured
    BY <1>4, <1>5
  <2> HIDE DEF u
  <2> QED  BY <1>1, <2>1 DEF Sound, Counted, Ordered, Recording, Closing, Working
<1>6. run' = [run EXCEPT ![c] = IF r.repairs >= MaxRepairs THEN w ELSE u]
  BY DEF Repair
<1> HIDE DEF w, u
<1>7. CASE r.repairs >= MaxRepairs
  BY <1>2, <1>3, <1>6, <1>7
<1>8. CASE ~(r.repairs >= MaxRepairs)
  BY <1>4, <1>5, <1>6, <1>8
<1> QED  BY <1>7, <1>8

LEMMA StepGate ==
    ASSUME IInv, NEW c \in Calls, Gate(c)
    PROVE  IInv'
<1>1. run[c].at = "gate" /\ UNCHANGED <<tree, faults, outside, shared, history>>
      /\ run[c].at \in Working \ Closing
  BY DEF Gate, At, Working, Closing
<1>2. tree' \in Trees /\ faults' \in 0 .. MaxFaults[mode] /\ tree \in Trees
  BY <1>1, FaultFacts
<1>3. run[c] \in Local /\ run[c].id = c /\ Sound(run[c]) /\ Counted(run[c], c, ran[c])
      /\ (mode = "epic" => Others(c) /\ Ordered(run[c]))
  BY <1>1, WorkingFacts DEF Counted
<1>4. CASE Raise(c)
  BY <1>1, <1>2, <1>4, FinishMoves
<1>5. ASSUME NEW r \in Results(tree), GatePassing(Evidence(r)),
             run' = [run EXCEPT ![c].at = "bind", ![c].snap = tree]
      PROVE  IInv'
  <2>1. \A k \in Checks : r[k] = "passed" => k \notin Broken[tree]
    BY <1>5 DEF Results
  <2>2. \A k \in Checks : r[k] = "passed"
    BY <1>5 DEF GatePassing, Evidence
  <2>3. Broken[tree] = {}
    BY <1>2, <2>1, <2>2, OrchestratorAssumption
  <2> DEFINE v == [run[c] EXCEPT !.at = "bind", !.snap = tree]
  <2>4. run' = [run EXCEPT ![c] = v]
    BY <1>5
  <2>5. v \in Local /\ v.at = "bind" /\ v.snap = tree /\ v.id = c
        /\ v.repairs = run[c].repairs /\ v.captured = run[c].captured
    BY <1>2, <1>3 DEF Local, Working
  <2> HIDE DEF v
  <2>6. Sound(v) /\ Counted(v, c, ran[c]) /\ (mode = "epic" => Ordered(v))
    BY <1>1, <1>2, <1>3, <2>3, <2>5
       DEF Sound, Counted, Ordered, Recording, Closing, Working
  <2> QED  BY <1>1, <1>2, <1>3, <2>4, <2>5, <2>6, PlainMoves
<1>6. CASE Repair(c, run[c])
  BY <1>1, <1>2, <1>3, <1>6, RepairFacts, PlainMoves
<1> QED  BY <1>4, <1>5, <1>6 DEF Gate

LEMMA StepBind ==
    ASSUME IInv, NEW c \in Calls, Bind(c)
    PROVE  IInv'
<1>1. run[c].at = "bind" /\ UNCHANGED <<tree, faults, outside, shared, history>>
      /\ run[c].at \in Working \ Closing
  BY DEF Bind, At, Working, Closing
<1>2. tree' \in Trees /\ faults' \in 0 .. MaxFaults[mode]
  BY <1>1, FaultFacts
<1>3. run[c] \in Local /\ run[c].id = c /\ Sound(run[c]) /\ Counted(run[c], c, ran[c])
      /\ (mode = "epic" => Others(c) /\ Ordered(run[c]))
  BY <1>1, WorkingFacts DEF Counted
<1>4. CASE Raise(c)
  BY <1>1, <1>2, <1>4, FinishMoves
<1>5. CASE SameTree(c) /\ Go(c, "diff")
  <2> DEFINE v == [run[c] EXCEPT !.at = "diff"]
  <2>1. run' = [run EXCEPT ![c] = v]
    BY <1>5 DEF Go
  <2>2. v \in Local /\ v.at = "diff" /\ v.snap = run[c].snap /\ v.id = c
        /\ v.repairs = run[c].repairs /\ v.captured = run[c].captured
    BY <1>3, GoFacts DEF Working
  <2>3. InScope(run[c].snap) /\ tree = run[c].snap
    BY <1>5 DEF SameTree
  <2> HIDE DEF v
  <2>4. Sound(v) /\ Counted(v, c, ran[c]) /\ (mode = "epic" => Ordered(v))
    BY <1>1, <1>3, <2>2, <2>3
       DEF Sound, Counted, Ordered, Recording, Closing, Working
  <2> QED  BY <1>1, <1>2, <1>3, <2>1, <2>2, <2>4, PlainMoves
<1> QED  BY <1>4, <1>5 DEF Bind

LEMMA StepDiff ==
    ASSUME IInv, NEW c \in Calls, Diff(c)
    PROVE  IInv'
<1>1. run[c].at = "diff" /\ UNCHANGED <<tree, faults, outside, shared, history>>
      /\ run[c].at \in Working \ Closing
  BY DEF Diff, At, Working, Closing
<1>2. tree' \in Trees /\ tree \in Trees /\ faults' \in 0 .. MaxFaults[mode]
  BY <1>1, FaultFacts
<1>3. run[c] \in Local /\ run[c].id = c /\ Sound(run[c]) /\ Counted(run[c], c, ran[c])
      /\ (mode = "epic" => Others(c) /\ Ordered(run[c]))
  BY <1>1, WorkingFacts DEF Counted
<1>4. CASE Raise(c)
  BY <1>1, <1>2, <1>4, FinishMoves
<1>5. CASE run' = [run EXCEPT ![c].at = "review", ![c].read = tree]
  <2> DEFINE v == [run[c] EXCEPT !.at = "review", !.read = tree]
  <2>1. run' = [run EXCEPT ![c] = v]
    BY <1>5
  <2>2. v \in Local /\ v.at = "review" /\ v.read = tree /\ v.snap = run[c].snap
        /\ v.id = c /\ v.repairs = run[c].repairs /\ v.captured = run[c].captured
    BY <1>2, <1>3 DEF Local, Working
  <2> HIDE DEF v
  <2>3. Sound(v) /\ Counted(v, c, ran[c]) /\ (mode = "epic" => Ordered(v))
    BY <1>1, <1>2, <1>3, <2>2
       DEF Sound, Counted, Ordered, Recording, Closing, Working
  <2> QED  BY <1>1, <1>2, <1>3, <2>1, <2>2, <2>3, PlainMoves
<1> QED  BY <1>4, <1>5 DEF Diff

LEMMA NotedFacts ==
    ASSUME NEW r \in Local, NEW n \in 0 .. MaxRepairs, NEW b \in BOOLEAN
    PROVE  LET v == Noted(r, n, b) IN
           /\ v \in Local /\ v.at = r.at /\ v.id = r.id /\ v.repairs = r.repairs
           /\ v.captured = r.captured /\ v.out = r.out
<1>1. r.last \in Nat /\ n \in Nat /\ r.storable \in BOOLEAN
  BY RepairsNat DEF Local
<1>2. (r.storable /\ b /\ n >= r.last) \in BOOLEAN
  OBVIOUS
<1> QED  BY <1>1, <1>2 DEF Noted, Local

LEMMA StepReview ==
    ASSUME IInv, NEW c \in Calls, Review(c)
    PROVE  IInv'
<1>1. run[c].at = "review" /\ UNCHANGED <<tree, faults, outside, shared, ran, edits>>
      /\ run[c].at \in Working \ Closing
  BY DEF Review, At, Working, Closing
<1>2. tree' \in Trees /\ faults' \in 0 .. MaxFaults[mode] /\ UNCHANGED <<mode, delivery>>
  BY <1>1, FaultFacts DEF outside
<1>3. run[c] \in Local /\ run[c].id = c /\ Sound(run[c]) /\ Counted(run[c], c, ran[c])
      /\ ran[c] <= MaxRepairs + 1
      /\ (mode = "epic" => Others(c) /\ Ordered(run[c]))
  BY <1>1, WorkingFacts DEF Counted
<1>4. CASE Raise(c) /\ UNCHANGED approved
  BY <1>1, <1>2, <1>4, FinishMoves DEF history
<1>5. ASSUME NEW n \in 0 .. MaxRepairs,
             approved' = approved \cup {<<run[c].id, run[c].snap, run[c].read>>},
             run' = [run EXCEPT ![c] =
               [Closed(Noted(run[c], n, TRUE),
                       IF delivery THEN "PENDING" ELSE "PASS")
                  EXCEPT !.captured = Capture(c)]]
      PROVE  IInv'
  <2> DEFINE r == Noted(run[c], n, TRUE)
             cap == Capture(c)
             out == IF delivery THEN "PENDING" ELSE "PASS"
             w == [Closed(r, out) EXCEPT !.captured = cap]
  <2>1. run' = [run EXCEPT ![c] = w]
    BY <1>5
  <2>2. r \in Local /\ r.id = c /\ r.repairs = run[c].repairs
    BY <1>3, NotedFacts
  <2>3. cap \in {None, run[c].snap} /\ cap \in Trees \cup {None} /\ out \in Outcomes
    BY <1>1, <1>3 DEF Sound, Outcomes, Capture
  <2> HIDE DEF r, cap, out
  <2>w. w \in Local /\ w.at = "record" /\ w.id = c /\ w.repairs = run[c].repairs
        /\ w.captured = cap
    <3>1. Closed(r, out) \in Local /\ Closed(r, out).at = "record"
          /\ Closed(r, out).id = c /\ Closed(r, out).repairs = run[c].repairs
      BY <2>2, <2>3, ClosedFacts
    <3> QED  BY <2>3, <3>1 DEF Local
  <2>5. PICK s \in Trees : s = run[c].snap /\ Broken[s] = {} /\ InScope(s)
    BY <1>1, <1>3 DEF Sound
  <2>6. Verified(c, s)'
    <3>1. run[c].read \in Trees /\ (Undisturbed' => run[c].read = s)
      BY <1>1, <1>2, <1>3, <2>5 DEF Sound, Ordered, Undisturbed
    <3> QED  BY <1>3, <1>5, <2>5, <3>1 DEF Verified, InScope
  <2> HIDE DEF w
  <2>4. PICK v \in Local :
          /\ run' = [run EXCEPT ![c] = v]
          /\ v.at = "record" /\ v.id = c /\ v.repairs = run[c].repairs
          /\ v.captured \in {None, s}
    BY <2>1, <2>3, <2>5, <2>w
  <2>7. Sound(v)'
    BY <1>3, <2>4, <2>5, <2>6 DEF Sound, Recording
  <2>8. Counted(v, c, ran'[c]) /\ (mode = "epic" => Ordered(v))
    BY <1>1, <1>3, <2>4 DEF Counted, Ordered, Closing, Working
  <2>9. approved' \subseteq Calls \X Trees \X Trees /\ approved \subseteq approved'
        /\ ran' \in [Calls -> 0 .. Cap] /\ UNCHANGED edits
        /\ \A d \in Calls \ {c} : ran'[d] = ran[d]
    BY <1>1, <1>2, <1>3, <1>5, <2>5 DEF IInv, TypeOK, Sound
  <2>10. UNCHANGED <<outside, shared>>
    BY <1>1
  <2> QED  BY <1>2, <1>3, <2>4, <2>7, <2>8, <2>9, <2>10, QuietMoves
<1>6. ASSUME NEW n \in 0 .. MaxRepairs, NEW text \in Texts, UNCHANGED approved,
             LET r == [Noted(run[c], n, Storable(text)) EXCEPT !.captured = None] IN
             \/ Repair(c, r)
             \/ run' = [run EXCEPT ![c] = Closed(r, "FAIL")]
      PROVE  IInv'
  <2> DEFINE w == Noted(run[c], n, Storable(text))
             r == [w EXCEPT !.captured = None]
             v == Closed(r, "FAIL")
  <2>1. UNCHANGED <<outside, shared, history>>
    BY <1>1, <1>6 DEF history
  <2>2. w \in Local /\ w.id = c /\ w.repairs = run[c].repairs
    <3>1. Storable(text) \in BOOLEAN
      BY DEF Storable
    <3> QED  BY <1>3, <3>1, NotedFacts
  <2>3. Repair(c, r) \/ run' = [run EXCEPT ![c] = v]
    BY <1>6
  <2> HIDE DEF w
  <2>4. r \in Local /\ r.id = c /\ r.repairs = run[c].repairs /\ r.captured = None
    BY <2>2 DEF Local
  <2> HIDE DEF r
  <2>5. CASE Repair(c, r)
    BY <1>1, <1>2, <1>3, <2>1, <2>4, <2>5, RepairFacts, PlainMoves
  <2>6. CASE run' = [run EXCEPT ![c] = v]
    <3>1. v \in Local /\ v.at = "record" /\ v.out = "FAIL" /\ v.id = c
          /\ v.captured = None
      BY <2>4, ClosedFacts DEF Outcomes
    <3> HIDE DEF v
    <3>2. Sound(v) /\ Counted(v, c, ran[c]) /\ (mode = "epic" => Ordered(v))
      BY <1>1, <1>3, <3>1
         DEF Sound, Counted, Ordered, Recording, Accepted, Closing, Working
    <3> QED  BY <1>2, <1>3, <2>1, <2>6, <3>1, <3>2, PlainMoves
  <2> QED  BY <2>3, <2>5, <2>6
<1> QED  BY <1>4, <1>5, <1>6 DEF Review

LEMMA StepSaveRunning ==
    ASSUME IInv, NEW c \in Calls, SaveRunning(c)
    PROVE  IInv'
<1>1. run[c].at = "repair" /\ UNCHANGED <<tree, outside, memory, unended, torn, lost, artifact, history>>
      /\ run[c].at \in Working \ Closing /\ UNCHANGED <<mode, delivery>>
      /\ UNCHANGED <<ran, approved, edits>>
  BY DEF SaveRunning, At, Working, Closing, outside, history
<1>2. tree' \in Trees /\ faults \in 0 .. MaxFaults[mode]
      /\ (Fault => faults' \in 0 .. MaxFaults[mode])
  BY <1>1, FaultFacts
<1>3. run[c] \in Local /\ run[c].id = c /\ Sound(run[c]) /\ Counted(run[c], c, ran[c])
      /\ (mode = "epic" => Others(c) /\ Ordered(run[c]))
  BY <1>1, WorkingFacts DEF Counted
<1>4. CASE Fault /\ Raise(c) /\ UNCHANGED state
  BY <1>1, <1>2, <1>4, FinishMoves DEF shared
<1>5. CASE /\ state' = [kind |-> "running", id |-> run[c].id,
                        repairs |-> run[c].repairs, out |-> "FAIL"]
           /\ Go(c, "execute")
           /\ UNCHANGED faults
  <2> DEFINE w == [run[c] EXCEPT !.at = "execute"]
  <2>1. run' = [run EXCEPT ![c] = w]
    BY <1>5 DEF Go
  <2>w. w \in Local /\ w.at = "execute" /\ w.id = c
        /\ w.repairs = run[c].repairs /\ w.captured = run[c].captured
    BY <1>3, GoFacts DEF Working
  <2> HIDE DEF w
  <2>2. PICK v \in Local :
          /\ run' = [run EXCEPT ![c] = v]
          /\ v.at = "execute" /\ v.id = c
          /\ v.repairs = run[c].repairs /\ v.captured = run[c].captured
    BY <2>1, <2>w
  <2>3. Sound(v) /\ Counted(v, c, ran'[c])
    BY <1>1, <1>3, <2>2 DEF Sound, Counted, Recording
  <2>4. state'.kind = "running" /\ state'.id = c /\ state'.repairs \in 0 .. MaxRepairs
        /\ state' \in [kind: {"none", "running", "terminal"}, id: Calls \cup {None},
                       repairs: 0..MaxRepairs, out: Outcomes]
    <3>1. run[c].repairs \in 0 .. MaxRepairs
      BY <1>3 DEF Local
    <3> QED  BY <1>3, <1>5, <3>1 DEF Outcomes
  <2>5. mode = "epic" => Ordered(v)'
    BY <1>1, <2>2, <2>4 DEF Ordered, Closing, Working
  <2>6. Sound(v)' /\ approved \subseteq approved'
    BY <1>1, <2>2, <2>3, SoundGrows DEF Undisturbed
  <2>7. ran' \in [Calls -> 0 .. Cap] /\ \A d \in Calls \ {c} : ran'[d] = ran[d]
    BY <1>1 DEF IInv, TypeOK
  <2>8. run' \in [Calls -> Local] /\ LocalInv' /\ CountInv' /\ EpicInv'
    BY <1>1, <1>3, <2>1, <2>2, <2>3, <2>5, <2>6, <2>7, Moves
  <2>9. TypeOK'
    BY <1>1, <1>2, <1>5, <2>4, <2>7, <2>8 DEF IInv, TypeOK
  <2>10. PassIsVerified' /\ StateInv'
    BY <1>1, <2>4 DEF IInv, PassIsVerified, StateInv, Verified, InScope, Undisturbed
  <2>11. ReportedIsRecorded'
    BY <1>1, <1>3, <2>4
       DEF IInv, ReportedIsRecorded, Ordered, Working, Closing
  <2> QED  BY <2>8, <2>9, <2>10, <2>11 DEF IInv
<1> QED  BY <1>4, <1>5 DEF SaveRunning

LEMMA StepRecord ==
    ASSUME IInv, NEW c \in Calls, Record(c)
    PROVE  IInv'
<1>1. run[c].at = "record" /\ UNCHANGED <<tree, faults, outside, shared, history>>
      /\ run[c].at \in Working \ Closing
  BY DEF Record, At, Working, Closing
<1>2. tree' \in Trees /\ faults' \in 0 .. MaxFaults[mode]
  BY <1>1, FaultFacts
<1>3. run[c] \in Local /\ Sound(run[c]) /\ Counted(run[c], c, ran[c])
      /\ (mode = "epic" => Others(c) /\ Ordered(run[c]))
  BY <1>1, WorkingFacts
<1>4. CASE run' = [run EXCEPT ![c].at = "save", ![c].out = "FAIL"]
  <2> DEFINE v == [run[c] EXCEPT !.at = "save", !.out = "FAIL"]
  <2>1. run' = [run EXCEPT ![c] = v]
    BY <1>4
  <2>2. v \in Local /\ v.at = "save" /\ v.out = "FAIL" /\ v.id = run[c].id
        /\ v.captured = run[c].captured
    BY <1>3 DEF Local, Outcomes, Working
  <2> HIDE DEF v
  <2>3. Sound(v) /\ Counted(v, c, ran[c]) /\ (mode = "epic" => Ordered(v))
    BY <1>1, <1>3, <2>2
       DEF Sound, Counted, Ordered, Recording, Accepted, Closing, Working
  <2> QED  BY <1>1, <1>2, <1>3, <2>1, <2>2, <2>3, PlainMoves
<1>5. CASE Go(c, "line") /\ ~torn /\ \A m \in memory : m.id # run[c].id
  <2> DEFINE v == [run[c] EXCEPT !.at = "line"]
  <2>1. run' = [run EXCEPT ![c] = v]
    BY <1>5 DEF Go
  <2>2. v \in Local /\ v.at = "line" /\ v.out = run[c].out /\ v.id = run[c].id
        /\ v.captured = run[c].captured
    BY <1>3, GoFacts DEF Working
  <2> HIDE DEF v
  <2>3. Sound(v) /\ Counted(v, c, ran[c]) /\ (mode = "epic" => Ordered(v))
    BY <1>1, <1>3, <1>5, <2>2
       DEF Sound, Counted, Ordered, Recording, Closing, Working
  <2> QED  BY <1>1, <1>2, <1>3, <2>1, <2>2, <2>3, PlainMoves
<1> QED  BY <1>4, <1>5 DEF Record

(* A step that leaves the calls' history and the tree alone and changes what  *)
(* the calls share, in a way that keeps the three promises about that.       *)
LEMMA SharedMoves ==
    ASSUME IInv, NEW c \in Calls, run[c].at \in Working,
           NEW v \in Local, run' = [run EXCEPT ![c] = v],
           UNCHANGED <<tree, outside, history>>, faults' \in 0 .. MaxFaults[mode],
           state' \in [kind: {"none", "running", "terminal"}, id: Calls \cup {None},
                       repairs: 0..MaxRepairs, out: Outcomes],
           memory' \subseteq [id: Calls, out: Outcomes, by: Calls],
           unended' \subseteq memory', torn' \in BOOLEAN, lost' \subseteq Calls,
           artifact' \in [id: Calls, tree: Trees] \cup {None},
           Sound(v), Counted(v, c, ran[c]), mode = "epic" => Ordered(v)',
           StateInv', PassIsVerified', ReportedIsRecorded'
    PROVE  IInv'
<1>1. UNCHANGED <<tree, mode, delivery, ran, approved, edits>>
  BY DEF outside, history
<1>2. Sound(v)' /\ approved \subseteq approved'
  BY <1>1, SoundGrows DEF Undisturbed
<1>3. mode = "epic" => Others(c)
  BY WorkingFacts
<1>4. ran' \in [Calls -> 0 .. Cap] /\ (\A d \in Calls \ {c} : ran'[d] = ran[d])
      /\ Counted(v, c, ran'[c])
  BY <1>1 DEF IInv, TypeOK
<1>5. run' \in [Calls -> Local] /\ LocalInv' /\ CountInv' /\ EpicInv'
  BY <1>1, <1>2, <1>3, <1>4, Moves
<1>6. TypeOK'
  BY <1>1, <1>5 DEF IInv, TypeOK
<1> QED  BY <1>5, <1>6 DEF IInv

(* What an append leaves in the file: the readable records, at most one of    *)
(* them new, without part of a line, or a file nothing reads again.          *)
LEMMA PutFacts ==
    ASSUME IInv, NEW c \in Calls, NEW part \in Parts, Put(c, part),
           run[c].id \in Calls, run[c].out \in Outcomes
    PROVE  /\ Entry(c) \in [id: Calls, out: Outcomes, by: Calls]
           /\ Entry(c).id = run[c].id /\ Entry(c).out = run[c].out
           /\ memory' \subseteq memory \cup {Entry(c)}
           /\ memory' \subseteq [id: Calls, out: Outcomes, by: Calls]
           /\ unended' \subseteq memory' /\ torn' \in BOOLEAN
           /\ part # "none" => Entry(c) \in memory' \/ torn'
<1>1. /\ Entry(c) \in [id: Calls, out: Outcomes, by: Calls]
      /\ Entry(c).id = run[c].id /\ Entry(c).out = run[c].out
  BY DEF Entry
<1>2. /\ memory \subseteq [id: Calls, out: Outcomes, by: Calls]
      /\ unended \subseteq memory /\ torn \in BOOLEAN
  BY DEF IInv, TypeOK
<1>3. PICK e \in [id: Calls, out: Outcomes, by: Calls] : e = Entry(c)
  BY <1>1
<1>4. CASE part = "none" /\ UNCHANGED <<memory, unended, torn>>
  BY <1>1, <1>2, <1>4
<1>5. CASE /\ memory' = memory \cup {e}
           /\ unended' \in {{e}, {}} /\ UNCHANGED torn
  BY <1>1, <1>2, <1>3, <1>5
<1>6. CASE memory' = memory \ unended /\ unended' = {} /\ torn' = TRUE
  BY <1>1, <1>2, <1>6
<1> QED  BY <1>3, <1>4, <1>5, <1>6 DEF Put

(* An append that is over, of a call or of one that dies in it: whatever is   *)
(* in the file, an accepted record is of a verified version, no run has two   *)
(* records, and nothing was reported yet.                                    *)
LEMMA PutKeeps ==
    ASSUME IInv, NEW c \in Calls, At(c, "line"), NEW part \in Parts, Put(c, part),
           UNCHANGED <<mode, state, artifact, approved, edits>>
    PROVE  PassIsVerified' /\ ReportedIsRecorded' /\ StateInv'
<1>1. run[c].at = "line" /\ run[c].at \in Working \ Closing
  BY DEF At, Working, Closing
<1>2. run[c] \in Local /\ run[c].id \in Calls /\ run[c].out \in Outcomes
      /\ Sound(run[c]) /\ (mode = "epic" => Ordered(run[c]))
  BY <1>1, WorkingFacts DEF Local
<1>3. PICK n \in [id: Calls, out: Outcomes, by: Calls] :
        /\ n.id = run[c].id /\ n.out = run[c].out /\ memory' \subseteq memory \cup {n}
  BY <1>2, PutFacts
<1>4. n.out \in Accepted => \E t \in Trees : Verified(n.id, t)
  BY <1>1, <1>2, <1>3 DEF Sound, Recording
<1>5. PassIsVerified'
  BY <1>3, <1>4 DEF IInv, PassIsVerified, Verified, InScope, Undisturbed
<1>6. ReportedIsRecorded'
  <2> SUFFICES ASSUME mode = "epic" PROVE ReportedIsRecorded'
    BY DEF ReportedIsRecorded
  <2>1. \A m \in memory : m.id # n.id
    BY <1>1, <1>2, <1>3 DEF Ordered
  <2>2. state.kind # "terminal" /\ artifact = None
    BY <1>1, <1>2 DEF Ordered, IInv, ReportedIsRecorded
  <2> QED  BY <1>3, <2>1, <2>2 DEF IInv, ReportedIsRecorded
<1>7. StateInv'
  BY DEF IInv, StateInv
<1> QED  BY <1>5, <1>6, <1>7

LEMMA StepLine ==
    ASSUME IInv, NEW c \in Calls, Line(c)
    PROVE  IInv'
<1>1. run[c].at = "line" /\ run[c].at \in Working \ Closing
      /\ UNCHANGED <<tree, outside, state, artifact, history>>
      /\ UNCHANGED <<mode, state, artifact, approved, edits>>
  BY DEF Line, At, Working, Closing, outside, history
<1>2. faults \in 0 .. MaxFaults[mode] /\ (Fault => faults' \in 0 .. MaxFaults[mode])
  BY <1>1, FaultFacts
<1>3. run[c] \in Local /\ run[c].id \in Calls /\ run[c].out \in Outcomes
      /\ Sound(run[c]) /\ Counted(run[c], c, ran[c])
      /\ (mode = "epic" => Others(c) /\ Ordered(run[c]))
  BY <1>1, WorkingFacts DEF Local
<1>4. lost \subseteq Calls
      /\ state' \in [kind: {"none", "running", "terminal"}, id: Calls \cup {None},
                     repairs: 0..MaxRepairs, out: Outcomes]
      /\ artifact' \in [id: Calls, tree: Trees] \cup {None}
  BY <1>1 DEF IInv, TypeOK
<1>5. ASSUME NEW part \in Parts, Put(c, part), UNCHANGED lost,
             faults' \in 0 .. MaxFaults[mode],
             run' = [run EXCEPT ![c].at = "save", ![c].out = "FAIL"]
      PROVE  IInv'
  <2> DEFINE w == [run[c] EXCEPT !.at = "save", !.out = "FAIL"]
  <2>1. run' = [run EXCEPT ![c] = w]
    BY <1>5
  <2>2. w \in Local /\ w.at = "save" /\ w.out = "FAIL" /\ w.id = run[c].id
        /\ w.captured = run[c].captured
    BY <1>3 DEF Local, Outcomes, Working
  <2> HIDE DEF w
  <2>3. PICK v \in Local : /\ run' = [run EXCEPT ![c] = v]
                           /\ v.at = "save" /\ v.out = "FAIL" /\ v.id = run[c].id
                           /\ v.captured = run[c].captured
    BY <2>1, <2>2
  <2>4. Sound(v) /\ Counted(v, c, ran[c])
    BY <1>1, <1>3, <2>3 DEF Sound, Counted, Recording, Accepted
  <2>5. mode = "epic" => Ordered(v)'
    BY <1>1, <1>3, <2>3 DEF Ordered, Accepted, Closing, Working
  <2>6. PassIsVerified' /\ ReportedIsRecorded' /\ StateInv'
    BY <1>1, <1>5, PutKeeps DEF At
  <2>7. /\ memory' \subseteq [id: Calls, out: Outcomes, by: Calls]
        /\ unended' \subseteq memory' /\ torn' \in BOOLEAN
    BY <1>3, <1>5, PutFacts
  <2> QED  BY <1>1, <1>4, <1>5, <2>3, <2>4, <2>5, <2>6, <2>7, SharedMoves
<1>6. ASSUME NEW part \in Parts \ {"none"}, Put(c, part), Appended(c),
             faults' \in 0 .. MaxFaults[mode]
      PROVE  IInv'
  <2> DEFINE w == [run[c] EXCEPT !.at = "save"]
  <2>1. run' = [run EXCEPT ![c] = w]
    BY <1>6 DEF Appended, Go
  <2>2. w \in Local /\ w.at = "save" /\ w.out = run[c].out /\ w.id = run[c].id
        /\ w.captured = run[c].captured
    BY <1>3, GoFacts DEF Working
  <2> HIDE DEF w
  <2>3. PICK v \in Local : /\ run' = [run EXCEPT ![c] = v]
                           /\ v.at = "save" /\ v.out = run[c].out /\ v.id = run[c].id
                           /\ v.captured = run[c].captured
    BY <2>1, <2>2
  <2>4. Sound(v) /\ Counted(v, c, ran[c])
    BY <1>1, <1>3, <2>3 DEF Sound, Counted, Recording
  <2>5. PICK n \in [id: Calls, out: Outcomes, by: Calls] :
          /\ n = Entry(c) /\ n.id = run[c].id /\ n.out = run[c].out
          /\ n \in memory' \/ torn'
    BY <1>3, <1>6, PutFacts
  <2>6. n \in memory' \/ (run[c].id \in lost' /\ torn')
    BY <1>6, <2>5 DEF Appended
  <2>7. mode = "epic" => Ordered(v)'
    BY <1>1, <1>3, <2>3, <2>5, <2>6 DEF Ordered, Closing, Working
  <2>8. PassIsVerified' /\ ReportedIsRecorded' /\ StateInv'
    BY <1>1, <1>6, PutKeeps DEF At
  <2>9. /\ memory' \subseteq [id: Calls, out: Outcomes, by: Calls]
        /\ unended' \subseteq memory' /\ torn' \in BOOLEAN
    BY <1>3, <1>6, PutFacts
  <2>10. lost' \subseteq Calls
    BY <1>3, <1>4, <1>6 DEF Appended
  <2> QED  BY <1>1, <1>4, <1>6, <2>3, <2>4, <2>7, <2>8, <2>9, <2>10, SharedMoves
<1>7. {"some", "unended", "whole"} \subseteq Parts \ {"none"}
  BY DEF Parts
<1>8. CASE Put(c, "whole") /\ Appended(c) /\ UNCHANGED faults
  BY <1>2, <1>6, <1>7, <1>8
<1>9. CASE /\ Fault
           /\ \/ /\ \E part \in Parts : Put(c, part)
                 /\ run' = [run EXCEPT ![c].at = "save", ![c].out = "FAIL"]
                 /\ UNCHANGED lost
              \/ \E part \in {"some", "unended"} : Put(c, part) /\ Appended(c)
  BY <1>2, <1>5, <1>6, <1>7, <1>9
<1> QED  BY <1>8, <1>9 DEF Line

(* A working call ends, its process with it or not.                          *)
LEMMA EndMoves ==
    ASSUME IInv, NEW c \in Calls, run[c].at \in Working, NEW p \in Over, End(c, p),
           UNCHANGED <<tree, outside, shared, history>>, faults' \in 0 .. MaxFaults[mode]
    PROVE  IInv'
<1>1. tree' \in Trees /\ (mode = "epic" => Others(c))
  BY FaultFacts, WorkingFacts
<1> QED  BY <1>1, EndFacts, PlainMoves DEF End

LEMMA StepSaveTerminal ==
    ASSUME IInv, NEW c \in Calls, SaveTerminal(c)
    PROVE  IInv'
<1>1. run[c].at = "save" /\ run[c].at \in Working \ Closing
      /\ UNCHANGED <<tree, outside, memory, unended, torn, lost, artifact, history>>
      /\ UNCHANGED <<mode, approved, edits>>
  BY DEF SaveTerminal, At, Working, Closing, outside, history
<1>2. faults \in 0 .. MaxFaults[mode] /\ (Fault => faults' \in 0 .. MaxFaults[mode])
      /\ tree' \in Trees
  BY <1>1, FaultFacts
<1>3. run[c] \in Local /\ run[c].id \in Calls /\ run[c].out \in Outcomes
      /\ run[c].repairs \in 0 .. MaxRepairs
      /\ Sound(run[c]) /\ Counted(run[c], c, ran[c])
      /\ (mode = "epic" => Others(c) /\ Ordered(run[c]))
  BY <1>1, WorkingFacts DEF Local
<1>4. CASE Fault /\ UNCHANGED state
           /\ IF run[c].again THEN End(c, "raised")
              ELSE Raise(c)
  <2>1. UNCHANGED <<outside, shared, history>>
    BY <1>1, <1>4 DEF shared
  <2>2. CASE End(c, "raised")
    BY <1>1, <1>2, <1>4, <2>1, <2>2, EndMoves DEF Over
  <2>3. CASE Raise(c)
    BY <1>1, <1>2, <1>4, <2>1, <2>3, FinishMoves
  <2> QED  BY <1>4, <2>2, <2>3
<1>5. CASE /\ state' = [kind |-> "terminal", id |-> run[c].id,
                        repairs |-> run[c].repairs, out |-> run[c].out]
           /\ Go(c, "returning") /\ UNCHANGED faults
  <2> DEFINE w == [run[c] EXCEPT !.at = "returning"]
  <2>1. run' = [run EXCEPT ![c] = w]
    BY <1>5 DEF Go
  <2>2. w \in Local /\ w.at = "returning" /\ w.out = run[c].out /\ w.id = run[c].id
        /\ w.captured = run[c].captured
    BY <1>3, GoFacts DEF Working
  <2> HIDE DEF w
  <2>3. PICK v \in Local :
          /\ run' = [run EXCEPT ![c] = v]
          /\ v.at = "returning" /\ v.out = run[c].out /\ v.id = run[c].id
          /\ v.captured = run[c].captured
    BY <2>1, <2>2
  <2>4. state'.kind = "terminal" /\ state'.id = run[c].id /\ state'.out = run[c].out
        /\ state' \in [kind: {"none", "running", "terminal"}, id: Calls \cup {None},
                       repairs: 0..MaxRepairs, out: Outcomes]
    BY <1>3, <1>5
  <2>5. Sound(v) /\ Counted(v, c, ran[c])
    BY <1>1, <1>3, <2>3 DEF Sound, Counted, Recording
  <2>6. mode = "epic" => Ordered(v)'
    BY <1>1, <2>3, <2>4 DEF Ordered, Closing, Working
  <2>7. PassIsVerified'
    <3>1. run[c].out \in Accepted => \E t \in Trees : Verified(run[c].id, t)
      BY <1>1, <1>3 DEF Sound, Recording
    <3> QED  BY <1>1, <2>4, <3>1 DEF IInv, PassIsVerified, Verified, InScope, Undisturbed
  <2>8. ReportedIsRecorded'
    <3> SUFFICES ASSUME mode = "epic" PROVE ReportedIsRecorded'
      BY <1>1 DEF ReportedIsRecorded
    <3>1. artifact = None
      BY <1>1, <1>3 DEF Ordered, IInv, ReportedIsRecorded
    <3>2. run[c].out \in Accepted
             => \/ \E m \in memory : m.id = run[c].id /\ m.out = run[c].out
                \/ run[c].id \in lost /\ torn
      BY <1>1, <1>3 DEF Ordered
    <3> QED  BY <1>1, <2>4, <3>1, <3>2 DEF IInv, ReportedIsRecorded
  <2>9. StateInv' /\ memory' \subseteq [id: Calls, out: Outcomes, by: Calls]
        /\ unended' \subseteq memory' /\ torn' \in BOOLEAN /\ lost' \subseteq Calls
        /\ artifact' \in [id: Calls, tree: Trees] \cup {None}
        /\ faults' \in 0 .. MaxFaults[mode]
    BY <1>1, <1>2, <1>3, <1>5, <2>4 DEF IInv, TypeOK, StateInv
  <2> QED  BY <1>1, <2>3, <2>4, <2>5, <2>6, <2>7, <2>8, <2>9, SharedMoves
<1> QED  BY <1>4, <1>5 DEF SaveTerminal

LEMMA StepReturn ==
    ASSUME IInv, NEW c \in Calls, Return(c)
    PROVE  IInv'
<1>1. run[c].at = "returning" /\ run[c].at \in Working
      /\ UNCHANGED <<tree, faults, outside, shared, history>>
  BY DEF Return, At, Working
<1>2. tree' \in Trees /\ faults' \in 0 .. MaxFaults[mode]
  BY <1>1, FaultFacts
<1>3. run[c] \in Local /\ Sound(run[c]) /\ Counted(run[c], c, ran[c])
      /\ (mode = "epic" => Others(c) /\ Ordered(run[c]))
  BY <1>1, WorkingFacts
<1>4. ASSUME NEW p \in Over, End(c, p) PROVE IInv'
  BY <1>1, <1>2, <1>4, EndMoves
<1>5. CASE run[c].captured # None /\ run[c].out \in Accepted /\ Go(c, "publish")
  <2> DEFINE v == [run[c] EXCEPT !.at = "publish"]
  <2>1. run' = [run EXCEPT ![c] = v]
    BY <1>5 DEF Go
  <2>2. v \in Local /\ v.at = "publish" /\ v.id = run[c].id /\ v.out = run[c].out
        /\ v.captured = run[c].captured
    BY <1>3, GoFacts DEF Working
  <2> HIDE DEF v
  <2>3. Sound(v) /\ Counted(v, c, ran[c]) /\ (mode = "epic" => Ordered(v))
    BY <1>1, <1>3, <1>5, <2>2
       DEF Sound, Counted, Ordered, Recording, Closing, Working
  <2> QED  BY <1>1, <1>2, <1>3, <2>1, <2>2, <2>3, PlainMoves
<1> QED  BY <1>4, <1>5 DEF Return, Over

LEMMA StepPublish ==
    ASSUME IInv, NEW c \in Calls, Publish(c)
    PROVE  IInv'
<1>1. run[c].at = "publish" /\ run[c].at \in Working
      /\ UNCHANGED <<tree, outside, state, memory, unended, torn, lost, history>>
      /\ UNCHANGED <<mode, approved, edits>>
  BY DEF Publish, At, Working, outside, history
<1>2. faults \in 0 .. MaxFaults[mode] /\ (Fault => faults' \in 0 .. MaxFaults[mode])
  BY <1>1, FaultFacts
<1>3. run[c] \in Local /\ run[c].id \in Calls /\ Sound(run[c])
      /\ (mode = "epic" => Ordered(run[c]))
  BY <1>1, WorkingFacts
<1>4. CASE Fault /\ End(c, "raised") /\ UNCHANGED artifact
  BY <1>1, <1>2, <1>4, EndMoves DEF shared, Over
<1>5. CASE /\ artifact' = [id |-> run[c].id, tree |-> run[c].captured]
           /\ End(c, "ended") /\ UNCHANGED faults
  <2>1. PICK v \in Local : v = [Blank EXCEPT !.at = "ended"] /\ Sound(v)
                           /\ Counted(v, c, ran[c]) /\ v.at = "ended" /\ v.captured = None
    <3>1. Blank \in Local /\ Blank.captured = None
      <4>1. 0 \in 0 .. MaxRepairs
        BY RepairsNat
      <4> QED  BY <4>1 DEF Blank, Local, Outcomes
    <3> QED  BY <3>1, EndFacts, GoFacts DEF Over
  <2>2. run' = [run EXCEPT ![c] = v]
    BY <1>5, <2>1 DEF End
  <2>3. mode = "epic" => Ordered(v)'
    BY <2>1 DEF Ordered, Closing, Working
  <2>4. run[c].captured \in Trees /\ Verified(run[c].id, run[c].captured)
    BY <1>1, <1>3 DEF Sound
  <2>5. artifact' \in [id: Calls, tree: Trees] /\ artifact'.id = run[c].id
        /\ artifact'.tree = run[c].captured
    BY <1>3, <1>5, <2>4
  <2>6. PassIsVerified'
    BY <1>1, <2>4, <2>5 DEF IInv, PassIsVerified, Verified, InScope, Undisturbed
  <2>7. ReportedIsRecorded'
    <3> SUFFICES ASSUME mode = "epic" PROVE ReportedIsRecorded'
      BY <1>1 DEF ReportedIsRecorded
    <3>1. state.kind = "terminal" /\ state.id = run[c].id /\ state.out \in Accepted
      BY <1>1, <1>3 DEF Ordered, Sound, Closing
    <3> QED  BY <1>1, <2>5, <3>1 DEF IInv, ReportedIsRecorded
  <2>8. StateInv' /\ memory' \subseteq [id: Calls, out: Outcomes, by: Calls]
        /\ unended' \subseteq memory' /\ torn' \in BOOLEAN /\ lost' \subseteq Calls
        /\ faults' \in 0 .. MaxFaults[mode]
        /\ state' \in [kind: {"none", "running", "terminal"}, id: Calls \cup {None},
                       repairs: 0..MaxRepairs, out: Outcomes]
    BY <1>1, <1>2, <1>5 DEF IInv, TypeOK, StateInv
  <2> QED  BY <1>1, <2>1, <2>2, <2>3, <2>5, <2>6, <2>7, <2>8, SharedMoves
<1> QED  BY <1>4, <1>5 DEF Publish

(* Part of a line keeps others from the memory and belongs to no record.     *)
LEMMA StepCrash ==
    ASSUME IInv, NEW c \in Calls, Crash(c)
    PROVE  IInv'
<1>1. run[c].at \in Working /\ Fault /\ End(c, "crashed")
      /\ UNCHANGED <<tree, outside, state, lost, artifact, history>>
      /\ UNCHANGED <<mode, state, artifact, approved, edits>>
  BY DEF Crash, outside, history
<1>2. faults' \in 0 .. MaxFaults[mode]
  BY <1>1, FaultFacts
<1>3. CASE ~At(c, "line")
  <2>1. UNCHANGED <<memory, unended, torn>>
    BY <1>3 DEF Crash
  <2> QED  BY <1>1, <1>2, <2>1, EndMoves DEF shared, Over
<1>4. CASE At(c, "line")
  <2>1. PICK part \in Parts : Put(c, part)
    BY <1>4 DEF Crash
  <2>2. PICK v \in Local : v = [Blank EXCEPT !.at = "crashed"] /\ Sound(v)
                           /\ Counted(v, c, ran[c]) /\ v.at = "crashed"
    <3>1. Blank \in Local
      <4>1. 0 \in 0 .. MaxRepairs
        BY RepairsNat
      <4> QED  BY <4>1 DEF Blank, Local, Outcomes
    <3> QED  BY <3>1, EndFacts, GoFacts DEF Over
  <2>3. run' = [run EXCEPT ![c] = v]
    BY <1>1, <2>2 DEF End
  <2>4. mode = "epic" => Ordered(v)'
    BY <2>2 DEF Ordered, Closing, Working
  <2>5. PassIsVerified' /\ ReportedIsRecorded' /\ StateInv'
    BY <1>1, <1>4, <2>1, PutKeeps
  <2>6. run[c].id \in Calls /\ run[c].out \in Outcomes
    BY <1>1, WorkingFacts DEF Local
  <2>7. /\ memory' \subseteq [id: Calls, out: Outcomes, by: Calls]
        /\ unended' \subseteq memory' /\ torn' \in BOOLEAN
    BY <2>1, <2>6, PutFacts
  <2>8. /\ lost' \subseteq Calls
        /\ artifact' \in [id: Calls, tree: Trees] \cup {None}
        /\ state' \in [kind: {"none", "running", "terminal"}, id: Calls \cup {None},
                       repairs: 0..MaxRepairs, out: Outcomes]
    BY <1>1 DEF IInv, TypeOK
  <2> QED  BY <1>1, <1>2, <2>2, <2>3, <2>4, <2>5, <2>7, <2>8, SharedMoves
<1> QED  BY <1>3, <1>4

(* The tree may change at any time: what a call relies on is its snapshot.   *)
LEMMA StepEdit ==
    ASSUME IInv, Edit
    PROVE  IInv'
<1>1. UNCHANGED <<run, faults, outside, shared, ran, approved>>
      /\ UNCHANGED <<mode, delivery, state, memory, unended, torn, lost, artifact>>
  BY DEF Edit, outside, shared
<1>2. tree' \in Trees /\ edits' \in 0 .. MaxEdits[mode] /\ edits' > 0
  <2>1. mode \in {"epic", "cli"} /\ edits \in 0 .. MaxEdits[mode]
    BY DEF IInv, TypeOK
  <2>2. MaxEdits[mode] \in Nat
    BY <2>1, OrchestratorAssumption
  <2> QED  BY <2>1, <2>2 DEF Edit
<1>3. TypeOK'
  BY <1>1, <1>2 DEF IInv, TypeOK
<1>4. LocalInv'
  BY <1>1, <1>2 DEF IInv, LocalInv, Sound, Verified, InScope, Undisturbed
<1>5. CountInv' /\ StateInv' /\ ReportedIsRecorded'
  BY <1>1 DEF IInv, CountInv, Counted, StateInv, ReportedIsRecorded
<1>6. EpicInv'
  BY <1>1, <1>2 DEF IInv, EpicInv, Others, Ordered
<1>7. PassIsVerified'
  BY <1>1, <1>2 DEF IInv, PassIsVerified, Verified, InScope, Undisturbed
<1> QED  BY <1>3, <1>4, <1>5, <1>6, <1>7 DEF IInv

LEMMA StepStutter ==
    ASSUME IInv, UNCHANGED vars
    PROVE  IInv'
<1>1. TypeOK'
  BY DEF vars, IInv, TypeOK
<1>2. LocalInv'
  BY DEF vars, IInv, LocalInv, Sound, Verified, InScope, Undisturbed
<1>3. CountInv' /\ StateInv' /\ ReportedIsRecorded'
  BY DEF vars, IInv, CountInv, Counted, StateInv, ReportedIsRecorded
<1>4. EpicInv'
  BY DEF vars, IInv, EpicInv, Others, Ordered
<1>5. PassIsVerified'
  BY DEF vars, IInv, PassIsVerified, Verified, InScope, Undisturbed
<1> QED  BY <1>1, <1>2, <1>3, <1>4, <1>5 DEF IInv

LEMMA InitIInv == Init => IInv
<1> SUFFICES ASSUME Init PROVE IInv
  OBVIOUS
<1>1. 0 \in 0 .. MaxRepairs /\ 0 \in 0 .. Cap /\ MaxRepairs \in Nat
  BY RepairsNat
<1>2. Blank \in Local /\ Blank.at = "idle" /\ Blank.out = "FAIL"
      /\ Blank.captured = None /\ Blank.repairs = 0
  BY <1>1 DEF Blank, Local, Outcomes
<1>3. MaxFaults[mode] \in Nat /\ MaxEdits[mode] \in Nat
  BY OrchestratorAssumption DEF Init
<1>4. TypeOK
  <2>1. state \in [kind: {"none", "running", "terminal"}, id: Calls \cup {None},
                   repairs: 0..MaxRepairs, out: Outcomes]
    BY <1>1 DEF Init, Outcomes
  <2>2. run \in [Calls -> Local] /\ ran \in [Calls -> 0 .. Cap]
    BY <1>1, <1>2 DEF Init
  <2>3. tree \in Trees /\ mode \in {"epic", "cli"} /\ delivery \in BOOLEAN
    BY OrchestratorAssumption DEF Init
  <2>4. faults \in 0 .. MaxFaults[mode] /\ edits \in 0 .. MaxEdits[mode]
    BY <1>3 DEF Init
  <2>5. memory = {} /\ unended = {} /\ torn = FALSE /\ lost = {} /\ artifact = None /\ approved = {}
    BY DEF Init
  <2> QED  BY <2>1, <2>2, <2>3, <2>4, <2>5 DEF TypeOK
<1>5. \A c \in Calls : run[c] = Blank /\ ran[c] = 0
  BY DEF Init
<1>6. LocalInv
  BY <1>2, <1>5 DEF LocalInv, Sound, Working, Recording
<1>7. CountInv
  BY <1>1, <1>2, <1>5 DEF CountInv, Counted
<1>8. EpicInv
  BY <1>2, <1>5 DEF EpicInv, Ordered, Working, Closing
<1>9. StateInv /\ PassIsVerified /\ ReportedIsRecorded
  BY DEF Init, StateInv, PassIsVerified, ReportedIsRecorded
<1> QED  BY <1>4, <1>6, <1>7, <1>8, <1>9 DEF IInv

LEMMA StepIInv == IInv /\ [Next]_vars => IInv'
<1> SUFFICES ASSUME IInv, [Next]_vars PROVE IInv'
  OBVIOUS
<1>1. CASE UNCHANGED vars
  BY <1>1, StepStutter
<1>2. CASE Edit
  BY <1>2, StepEdit
<1>3. ASSUME NEW c \in Calls, Start(c) \/ Crash(c) PROVE IInv'
  BY <1>3, StepStart, StepCrash
<1>4. ASSUME NEW c \in Calls, Step(c) PROVE IInv'
  BY <1>4, StepPreflight, StepExecute, StepGate, StepSaveRunning, StepBind,
     StepDiff, StepReview, StepRecord, StepLine, StepSaveTerminal, StepReturn, StepPublish
     DEF Step
<1> QED  BY <1>1, <1>2, <1>3, <1>4 DEF Next

LEMMA Invariance == Spec => []IInv
BY InitIInv, StepIInv, PTL DEF Spec

-----------------------------------------------------------------------------
(* Every variable keeps its type: among others, a crash leaves the saved     *)
(* state and the memory in a form the next process can read.                 *)
THEOREM TypeCorrect == Spec => []TypeOK
<1>1. IInv => TypeOK
  BY DEF IInv
<1> QED  BY <1>1, Invariance, PTL

(* PassIsVerified: an accepted record, state or artifact stands on a version *)
(* of the tree a controller passed for that run, with every check passed and *)
(* inside the scope, whoever else changes the tree and however runs overlap; *)
(* unless others changed it, it is the version the controller read.          *)
THEOREM PassIsAlwaysVerified == Spec => []PassIsVerified
<1>1. IInv => PassIsVerified
  BY DEF IInv
<1> QED  BY <1>1, Invariance, PTL

(* ReportedIsRecorded: under the supervisor an accepted state has its record  *)
(* in the memory first, over crashes, failed saves and appends that raise;   *)
(* only an append that returned over a line cut short leaves none, and the   *)
(* memory then takes no record any more.  The artifact belongs to the run    *)
(* the state names, and a run has one record.                                *)
THEOREM RecordedBeforeReported == Spec => []ReportedIsRecorded
<1>1. IInv => ReportedIsRecorded
  BY DEF IInv
<1> QED  BY <1>1, Invariance, PTL

(* BoundedExecutor: no run calls the executor more often than the repairs    *)
(* its contract allows and once more, over crashes and resumptions.          *)
THEOREM ExecutorIsBounded == Spec => []BoundedExecutor
<1>1. IInv => BoundedExecutor
  BY DEF IInv, CountInv, Counted, BoundedExecutor
<1> QED  BY <1>1, Invariance, PTL

(* TerminalIsFinal: under the supervisor the outcome of a contract is never  *)
(* overwritten; a later call answers with it.                                *)
THEOREM OutcomesAreFinal == Spec => TerminalIsFinal
<1>1. ASSUME IInv, [Next]_vars
      PROVE  [mode = "epic" /\ state.kind = "terminal" => state' = state]_state
  <2> SUFFICES ASSUME mode = "epic", state.kind = "terminal", state' # state
               PROVE  FALSE
    OBVIOUS
  <2>1. PICK c \in Calls : SaveRunning(c) \/ SaveTerminal(c)
    <3>1. ~UNCHANGED vars
      BY DEF vars
    <3>2. ASSUME NEW d \in Calls, Step(d) PROVE SaveRunning(d) \/ SaveTerminal(d)
      BY <3>2 DEF Step, Preflight, Execute, Scope, Gate, Bind, Diff, Review, Record,
                  Line, Return, Publish, shared
    <3>3. ASSUME NEW d \in Calls PROVE ~Start(d) /\ ~Crash(d)
      BY DEF Start, Crash, shared
    <3>4. ~Edit
      BY DEF Edit, shared
    <3> QED  BY <1>1, <3>1, <3>2, <3>3, <3>4 DEF Next
  <2>2. run[c].at \in {"repair", "save"} /\ Ordered(run[c])
    BY <1>1, <2>1 DEF SaveRunning, SaveTerminal, At, IInv, EpicInv
  <2> QED  BY <2>2 DEF Ordered, Working, Closing
<1> QED  BY <1>1, Invariance, PTL DEF Spec, TerminalIsFinal
================================================================================

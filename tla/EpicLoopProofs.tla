-------------------------- MODULE EpicLoopProofs ---------------------------
(***************************************************************************)
(* Theorems about EpicLoop, for every number of phases, of overlapping     *)
(* calls and of faults.                                                    *)
(***************************************************************************)
EXTENDS EpicLoop, TLAPS

-----------------------------------------------------------------------------
(* Checkpoints *)

(* What the writes of advance() and of the rate limit leave is a valid       *)
(* checkpoint, if the one they start from is and its task is not done.       *)
LEMMA CheckpointWrites ==
    ASSUME NEW c \in Checkpoint, c.phase < Last,
           NEW b \in BOOLEAN, NEW st \in Status
    PROVE  /\ [c EXCEPT !.pending = b, !.status = st] \in Checkpoint
           /\ [c EXCEPT !.pending = b, !.status = st].phase = c.phase
           /\ [c EXCEPT !.pending = b, !.status = st].pending = b
           /\ [c EXCEPT !.pending = b, !.status = st].ident = c.ident
           /\ [c EXCEPT !.status = st] \in Checkpoint
           /\ [c EXCEPT !.status = st].phase = c.phase
           /\ [c EXCEPT !.status = st].pending = c.pending
           /\ [c EXCEPT !.status = st].ident = c.ident
<1> DEFINE record == [phase : 0 .. Last, pending : BOOLEAN, status : Status,
                      ident : {"base", "made"}]
           d == [c EXCEPT !.pending = b, !.status = st]
           e == [c EXCEPT !.status = st]
<1>1. c \in record /\ (c.ident = "base" => c.phase = 0) /\ c.phase # Last
  BY EpicLoopAssumption DEF Checkpoint
<1>2. d \in record /\ d.phase = c.phase /\ d.pending = b /\ d.ident = c.ident
  BY <1>1
<1>3. e \in record /\ e.phase = c.phase /\ e.pending = c.pending /\ e.ident = c.ident
  BY <1>1
<1> HIDE DEF d, e
<1>4. d \in Checkpoint /\ e \in Checkpoint
  BY <1>1, <1>2, <1>3 DEF Checkpoint
<1> QED  BY <1>2, <1>3, <1>4 DEF d, e

LEMMA CheckpointCompleted ==
    ASSUME NEW c \in Checkpoint, c.phase < Last
    PROVE  /\ Completed(c) \in Checkpoint
           /\ Completed(c).phase = c.phase + 1
           /\ Completed(c).ident = "made"
           /\ ~Completed(c).pending
<1> c.phase \in Nat /\ c.phase + 1 \in 0 .. Last /\ Last \in Nat
  BY EpicLoopAssumption DEF Checkpoint
<1> DEFINE st == IF c.phase + 1 = Last THEN "TASK_DONE" ELSE "RUNNING"
<1>1. st \in Status /\ (c.phase + 1 = Last => st = "TASK_DONE")
  BY DEF Status
<1>2. Completed(c) = [phase |-> c.phase + 1, pending |-> FALSE, ident |-> "made",
                      status |-> st]
  BY DEF Completed
<1> HIDE DEF st
<1> QED  BY <1>1, <1>2 DEF Checkpoint

LEMMA CheckpointFields ==
    ASSUME NEW c \in Checkpoint
    PROVE  /\ c.phase \in 0 .. Last /\ c.pending \in BOOLEAN
           /\ c.ident \in {"base", "made"} /\ c.status \in Status
           /\ c.ident = "base" => c.phase = 0
           /\ c.phase = Last => ~c.pending
BY DEF Checkpoint

-----------------------------------------------------------------------------
(* The invariant *)

(* Behind the lock the checkpoint stands at the phase the call loaded. *)
LockInv ==
    \A r \in Runners :
        step[r] \in {"resolve", "intent", "effect", "applied"}
            => want[r].phase = ckpt.phase

(* Effects and records keep the order of the chain.  An answer "APPLIED"     *)
(* never gets stale, and late effects are of a phase that has been started.  *)
OrderInv ==
    /\ \A p \in Phase : p > ckpt.phase + 1 => applied[p] = 0
    /\ \A p \in Phase : p <= ckpt.phase => applied[p] > 0
    /\ \A p \in inflight : p <= ckpt.phase + 1
    /\ \A r \in Runners :
          step[r] \in {"live", "lock", "check", "resolve"} /\ recon[r] = "APPLIED"
              => applied[Target(r)] > 0
    /\ \A r \in Runners : step[r] = "applied" => applied[Target(r)] > 0
    /\ artifact => applied[1] > 0

(* With one call at a time "NOT_APPLIED" does not get stale either, and the  *)
(* intent covers the effect from before it starts until it is recorded.      *)
OnceInv ==
    /\ inflight = {}
    /\ IntentCoversEffect
    /\ \A r \in Runners : step[r] \in {"effect", "applied"} => ckpt.pending
    /\ \A r \in Runners :
          /\ Target(r) \notin Reading
          /\ \/ step[r] \in {"intent", "effect"}
             \/ step[r] \in {"live", "lock", "check", "resolve"}
                /\ recon[r] = "NOT_APPLIED"
          => applied[Target(r)] = 0

IInv ==
    /\ TypeOK
    /\ LockInv
    /\ OrderInv
    /\ Serial => OnceInv

Busy == (Outside \ {"idle", "loop"}) \cup Inside

(* The parts of the type invariant that every step starts from. *)
LEMMA TypeFacts ==
    ASSUME TypeOK
    PROVE  /\ ckpt \in Checkpoint /\ ckpt.phase \in 0 .. Last
           /\ \A r \in Runners : want[r] \in Checkpoint /\ want[r].phase \in 0 .. Last
           /\ \A r \in Runners : step[r] \in Busy => Target(r) \in Phase
           /\ Last \in Nat /\ Demo \in Phase /\ Demo \in Reading
           /\ 1 \in Phase /\ 1 \notin Reading
BY CheckpointFields, EpicLoopAssumption DEF TypeOK, Target, Phase, Busy

(* An answer has its evidence, which never gets lost. *)
LEMMA AnswersFacts ==
    ASSUME TypeOK, artifact => applied[1] > 0, NEW p \in Phase
    PROVE  /\ Answers(p) \subseteq {"APPLIED", "NOT_APPLIED", "UNKNOWN"}
           /\ "APPLIED" \in Answers(p) => applied[p] > 0
           /\ "NOT_APPLIED" \in Answers(p) /\ p \notin Reading => applied[p] = 0
<1>1. applied[p] \in Nat
  BY DEF TypeOK
<1>2. "APPLIED" \in Answers(p) => Evident(p)
  BY DEF Answers
<1>3. "NOT_APPLIED" \in Answers(p) /\ p \notin Reading => ~Evident(p) /\ p # 1
  BY EpicLoopAssumption DEF Answers
<1>4. Answers(p) \subseteq {"APPLIED", "NOT_APPLIED", "UNKNOWN"}
  BY DEF Answers
<1> QED  BY <1>1, <1>2, <1>3, <1>4 DEF Evident

LEMMA InitIInv == Init => IInv
<1> SUFFICES ASSUME Init PROVE IInv
  OBVIOUS
<1> USE EpicLoopAssumption
<1>1. ckpt \in Checkpoint /\ ckpt.phase = 0
  <2>1. 0 \in 0 .. Last /\ 0 # Last
    OBVIOUS
  <2>2. "READY" \in Status
    BY DEF Status
  <2> QED  BY <2>1, <2>2 DEF Checkpoint, Init
<1>i. /\ live \in Identity /\ lock = Nobody
      /\ step = [r \in Runners |-> "idle"] /\ want = [r \in Runners |-> ckpt]
      /\ recon = [r \in Runners |-> "none"] /\ facts = [r \in Runners |-> live]
      /\ applied = [p \in Phase |-> 0] /\ inflight = {} /\ faults = 0 /\ ~artifact
      /\ artifact \in BOOLEAN
  BY DEF Init, Identity
<1>2. TypeOK
  BY <1>1, <1>i DEF TypeOK, Outside, Inside
<1>3. LockInv /\ OrderInv /\ OnceInv
  BY <1>1, <1>i DEF LockInv, OrderInv, OnceInv, IntentCoversEffect, Phase
<1> QED  BY <1>2, <1>3 DEF IInv

-----------------------------------------------------------------------------
(* Steps that leave the checkpoint and the world alone *)

(* The call moves on, in or out of the lock, and may reread its locals. *)
LEMMA StepStart ==
    ASSUME IInv, NEW r \in Runners, Start(r) \/ ReadLive(r) \/ Acquire(r)
    PROVE  IInv'
<1> USE DEF IInv, Goto, world
<1>1. TypeOK'
  <2>1. CASE Start(r)
    BY <2>1 DEF TypeOK, Start, Outside, Inside
  <2>2. CASE ReadLive(r)
    BY <2>2 DEF TypeOK, ReadLive, Outside, Inside
  <2>3. CASE Acquire(r)
    <3>1. CASE lock = Nobody
      BY <2>3, <3>1, EpicLoopAssumption DEF TypeOK, Acquire, Outside, Inside
    <3>2. CASE lock # Nobody
      BY <2>3, <3>2 DEF TypeOK, Acquire, Outside, Inside
    <3> QED  BY <3>1, <3>2
  <2> QED  BY <2>1, <2>2, <2>3
<1>2. LockInv'
  BY DEF TypeOK, LockInv, Start, ReadLive, Acquire
<1>3. OrderInv'
  BY DEF TypeOK, OrderInv, Start, ReadLive, Acquire, Target
<1>4. Serial => OnceInv'
  BY DEF TypeOK, OnceInv, IntentCoversEffect, Start, ReadLive, Acquire, Target
<1>5. Serial' = Serial
  BY DEF Serial
<1> QED  BY <1>1, <1>2, <1>3, <1>4, <1>5

LEMMA StepLoad ==
    ASSUME IInv, NEW r \in Runners, Load(r)
    PROVE  IInv'
<1> USE DEF IInv, Goto, world
<1>0. ckpt.phase \in 0 .. Last /\ Last \in Nat
  BY TypeFacts
<1>1. TypeOK'
  BY <1>0 DEF TypeOK, Load, Outside, Inside
<1>2. LockInv'
  BY DEF TypeOK, LockInv, Load
<1>3. OrderInv'
  BY DEF TypeOK, OrderInv, Load, Target
<1>4. Serial => OnceInv'
  BY DEF TypeOK, OnceInv, IntentCoversEffect, Load, Target
<1>5. Serial' = Serial
  BY DEF Serial
<1> QED  BY <1>1, <1>2, <1>3, <1>4, <1>5

LEMMA StepReconcile ==
    ASSUME IInv, NEW r \in Runners, Reconcile(r)
    PROVE  IInv'
<1> USE DEF IInv, Goto, world
<1>0. Target(r) \in Phase
  BY TypeFacts DEF Reconcile, Busy, Outside
<1>1. /\ step[r] = "reconcile"
      /\ UNCHANGED <<ckpt, lock, want, facts, live, artifact, applied, inflight, faults>>
      /\ \/ step' = [step EXCEPT ![r] = "idle"] /\ recon' = recon
         \/ \E a \in {"APPLIED", "NOT_APPLIED"} :
               /\ step' = [step EXCEPT ![r] = "live"] /\ recon' = [recon EXCEPT ![r] = a]
               /\ a = "APPLIED" => applied[Target(r)] > 0
               /\ a = "NOT_APPLIED" /\ Target(r) \notin Reading => applied[Target(r)] = 0
  BY <1>0, AnswersFacts DEF Reconcile, OrderInv
<1>2. TypeOK'
  BY <1>1 DEF TypeOK, Outside, Inside
<1>3. LockInv'
  BY <1>1 DEF TypeOK, LockInv
<1>4. OrderInv'
  BY <1>1 DEF TypeOK, OrderInv, Target
<1>5. Serial => OnceInv'
  BY <1>1 DEF TypeOK, OnceInv, IntentCoversEffect, Target
<1>6. Serial' = Serial
  BY DEF Serial
<1> QED  BY <1>2, <1>3, <1>4, <1>5, <1>6

LEMMA StepCheck ==
    ASSUME IInv, NEW r \in Runners, Check(r)
    PROVE  IInv'
<1> USE DEF IInv, Goto, Leave, world
<1>0. Target(r) \in Phase /\ ckpt.phase \in 0 .. Last /\ want[r].phase \in 0 .. Last
  BY TypeFacts DEF Check, Busy, Inside
<1>1. applied[Target(r)] \in Nat
  BY <1>0 DEF TypeOK
<1>2. TypeOK'
  <2>1. /\ step[r] = "check" /\ lock = r
        /\ \/ lock' = Nobody /\ \E s \in {"idle", "loop"} : step' = [step EXCEPT ![r] = s]
           \/ lock' = r /\ \E s \in {"resolve", "intent"} : step' = [step EXCEPT ![r] = s]
        /\ UNCHANGED <<ckpt, want, recon, facts, live, artifact, applied, inflight, faults>>
    BY DEF Check, TypeOK, Inside
  <2> QED  BY <2>1, EpicLoopAssumption DEF TypeOK, Outside, Inside
<1>3. LockInv'
  BY <1>0 DEF TypeOK, LockInv, Check, Target
<1>4. OrderInv'
  BY DEF TypeOK, OrderInv, Check, Target
<1>5. Serial => OnceInv'
  <2> SUFFICES ASSUME Serial PROVE OnceInv'
    OBVIOUS
  <2>1. step'[r] = "intent" => Target(r) = ckpt.phase + 1 /\ ~ckpt.pending
    BY <1>0 DEF Check, TypeOK
  <2>2. step'[r] = "intent" /\ Target(r) \notin Reading => applied[Target(r)] = 0
    BY <1>0, <1>1, <2>1 DEF OnceInv, IntentCoversEffect
  <2>3. UNCHANGED <<ckpt, applied, inflight, want, recon>>
    BY DEF Check
  <2>4. \A s \in Runners \ {r} : step'[s] = step[s]
    BY DEF Check, TypeOK
  <2>5. step[r] = "check" /\ step'[r] \in {"idle", "loop", "resolve", "intent"}
    BY DEF Check, TypeOK
  <2> QED  BY <2>2, <2>3, <2>4, <2>5 DEF OnceInv, IntentCoversEffect, Target
<1>6. Serial' = Serial
  BY DEF Serial
<1> QED  BY <1>2, <1>3, <1>4, <1>5, <1>6

(* A call that ends leaves an effect cut short at most, of the next phase. *)
CutShort(r) ==
    \/ UNCHANGED <<applied, inflight>>
    \/ /\ Delayed /\ step[r] = "effect" /\ inflight' = inflight \cup {Target(r)}
       /\ UNCHANGED applied
    \/ /\ step[r] = "effect" /\ Target(r) = 1 /\ UNCHANGED inflight
       /\ applied' = [applied EXCEPT ![1] = @ + 1]

(* It counts as the effect of a phase that has been started, and what was    *)
(* known of the others stays.                                                *)
LEMMA CutShortFacts ==
    ASSUME IInv, NEW r \in Runners, CutShort(r)
    PROVE  /\ applied' \in [Phase -> Nat]
           /\ \A p \in Phase : applied[p] > 0 => applied'[p] > 0
           /\ \A p \in Phase : p > ckpt.phase + 1 => applied'[p] = 0
           /\ inflight' \subseteq Phase
           /\ \A p \in inflight' : p <= ckpt.phase + 1
           /\ Serial => inflight' = {}
           /\ applied' # applied => step[r] = "effect" /\ Target(r) = 1 /\ ckpt.phase = 0
           /\ \A p \in Phase \ {1} : applied'[p] = applied[p]
<1>1. /\ applied \in [Phase -> Nat] /\ inflight \subseteq Phase
      /\ \A p \in Phase : p > ckpt.phase + 1 => applied[p] = 0
      /\ \A p \in inflight : p <= ckpt.phase + 1
      /\ Serial => inflight = {}
      /\ ckpt.phase \in Nat
  BY TypeFacts DEF IInv, TypeOK, OrderInv, OnceInv
<1>2. 1 \in Phase
  BY TypeFacts DEF IInv
<1>3. step[r] = "effect" => Target(r) \in Phase /\ Target(r) = ckpt.phase + 1
  BY TypeFacts DEF IInv, LockInv, Target, Busy, Inside
<1>4. Serial => ~Delayed
  BY DEF Serial
<1> QED  BY <1>1, <1>2, <1>3, <1>4 DEF CutShort

LEMMA StepRefuse ==
    ASSUME IInv, NEW r \in Runners, Refuse(r) \/ Stop(r)
    PROVE  IInv'
<1> USE DEF IInv, Goto, Leave, world
<1>0. /\ step' = [step EXCEPT ![r] = "idle"]
      /\ lock' = IF lock = r THEN Nobody ELSE lock
      /\ UNCHANGED <<ckpt, want, recon, facts, live, artifact>>
      /\ faults' \in 0 .. MaxFaults
      /\ CutShort(r)
  <2>1. CASE Refuse(r)
    <3>1. step[r] \in Inside
      BY <2>1 DEF Refuse, Inside
    <3>2. lock = r /\ faults \in 0 .. MaxFaults
      BY <3>1 DEF TypeOK
    <3>3. /\ step' = [step EXCEPT ![r] = "idle"] /\ lock' = Nobody
          /\ UNCHANGED <<ckpt, want, recon, facts, live, artifact, applied, inflight, faults>>
      BY <2>1 DEF Refuse
    <3> QED  BY <3>2, <3>3 DEF CutShort
  <2>2. CASE Stop(r)
    <3>1. faults' \in 0 .. MaxFaults
      BY <2>2, EpicLoopAssumption DEF Stop, Fault, TypeOK
    <3>2. CutShort(r)
      BY <2>2 DEF Stop, SetOff, TakeEffect, CutShort
    <3>3. /\ step' = [step EXCEPT ![r] = "idle"]
          /\ lock' = IF lock = r THEN Nobody ELSE lock
          /\ UNCHANGED <<ckpt, want, recon, facts, live, artifact>>
      BY <2>2 DEF Stop
    <3> QED  BY <3>1, <3>2, <3>3
  <2> QED  BY <2>1, <2>2
<1>c. /\ applied' \in [Phase -> Nat]
      /\ \A p \in Phase : applied[p] > 0 => applied'[p] > 0
      /\ \A p \in Phase : p > ckpt.phase + 1 => applied'[p] = 0
      /\ inflight' \subseteq Phase
      /\ \A p \in inflight' : p <= ckpt.phase + 1
      /\ Serial => inflight' = {}
      /\ applied' # applied => step[r] = "effect" /\ Target(r) = 1 /\ ckpt.phase = 0
      /\ \A p \in Phase \ {1} : applied'[p] = applied[p]
  BY <1>0, CutShortFacts
<1>e. MaxFaults \in Nat /\ Nobody \notin Runners
  BY EpicLoopAssumption
<1>s. step'[r] = "idle" /\ \A s \in Runners \ {r} : step'[s] = step[s]
  BY <1>0 DEF TypeOK
<1>t. \A s \in Runners : Target(s)' = Target(s)
  BY <1>0 DEF Target
<1>2. TypeOK'
  BY <1>0, <1>c, EpicLoopAssumption DEF TypeOK, Outside, Inside
<1>3. LockInv'
  BY <1>0 DEF TypeOK, LockInv
<1>4. OrderInv'
  <2>1. \A s \in Runners : step[s] \in {"live", "lock", "check", "resolve", "applied"}
            => Target(s) \in Phase
    BY TypeFacts DEF Busy, Outside, Inside
  <2>2. 1 \in Phase
    BY TypeFacts
  <2> QED  BY <1>0, <1>c, <1>s, <1>t, <2>1, <2>2 DEF OrderInv
<1>5. Serial => OnceInv'
  <2> SUFFICES ASSUME Serial PROVE OnceInv'
    OBVIOUS
  <2>1. \A s \in Runners : s = r
    BY DEF Serial
  <2>2. IntentCoversEffect'
    <3>1. CASE applied' = applied
      BY <1>0, <3>1 DEF OnceInv, IntentCoversEffect
    <3>2. CASE applied' # applied
      BY <1>0, <1>c, <3>2 DEF OnceInv, IntentCoversEffect
    <3> QED  BY <3>1, <3>2
  <2> QED  BY <1>c, <1>s, <2>1, <2>2 DEF OnceInv
<1>6. Serial' = Serial
  BY DEF Serial
<1> QED  BY <1>2, <1>3, <1>4, <1>5, <1>6

-----------------------------------------------------------------------------
(* Steps in the lock *)

(* Such a call holds the lock, and its target is the next phase. *)
LEMMA Locked ==
    ASSUME IInv, NEW r \in Runners,
           step[r] \in {"resolve", "intent", "effect", "applied"}
    PROVE  /\ lock = r /\ \A s \in Runners \ {r} : step[s] \notin Inside
           /\ Target(r) = ckpt.phase + 1 /\ Target(r) \in Phase
           /\ ckpt \in Checkpoint /\ ckpt.phase < Last /\ ckpt.phase \in Nat
           /\ applied \in [Phase -> Nat]
<1>1. step[r] \in Inside /\ step[r] \in Busy
  BY DEF Inside, Busy
<1>2. lock = r /\ \A s \in Runners \ {r} : step[s] \notin Inside
  BY <1>1 DEF IInv, TypeOK
<1>3. want[r].phase = ckpt.phase
  BY DEF IInv, LockInv
<1>4. Target(r) \in Phase /\ ckpt \in Checkpoint /\ ckpt.phase \in 0 .. Last /\ Last \in Nat
  BY <1>1, TypeFacts DEF IInv
<1> QED  BY <1>2, <1>3, <1>4 DEF Target, Phase, IInv, TypeOK

LEMMA StepResolveNotApplied ==
    ASSUME IInv, NEW r \in Runners, ResolveNotApplied(r)
    PROVE  IInv'
<1>0. /\ step[r] = "resolve" /\ step' = [step EXCEPT ![r] = "intent"]
      /\ UNCHANGED <<ckpt, lock, want, recon, facts, live, artifact, applied, inflight, faults>>
      /\ \/ recon[r] = "NOT_APPLIED"
         \/ Target(r) \in Reading \/ applied[Target(r)] = 0
  <2>1. Target(r) \in Phase
    BY Locked DEF ResolveNotApplied
  <2>2. "NOT_APPLIED" \in Answers(Target(r)) /\ Target(r) \notin Reading
            => applied[Target(r)] = 0
    BY <2>1, AnswersFacts DEF IInv, OrderInv
  <2>3. recon[r] = "NOT_APPLIED" \/ "NOT_APPLIED" \in Answers(Target(r))
    BY DEF ResolveNotApplied, Answered
  <2> QED
    BY <2>2, <2>3 DEF ResolveNotApplied, Goto, world
<1>1. TypeOK'
  BY <1>0 DEF IInv, TypeOK, Outside, Inside
<1>2. LockInv'
  BY <1>0 DEF IInv, TypeOK, LockInv
<1>3. OrderInv'
  BY <1>0 DEF IInv, TypeOK, OrderInv, Target
<1>4. Serial => OnceInv'
  BY <1>0 DEF IInv, TypeOK, OnceInv, IntentCoversEffect, Target
<1>5. Serial' = Serial
  BY DEF Serial
<1> QED  BY <1>1, <1>2, <1>3, <1>4, <1>5 DEF IInv

LEMMA StepWriteIntent ==
    ASSUME IInv, NEW r \in Runners, WriteIntent(r)
    PROVE  IInv'
<1>0. /\ step[r] = "intent" /\ step' = [step EXCEPT ![r] = "effect"]
      /\ ckpt' = [ckpt EXCEPT !.pending = TRUE, !.status = "RUNNING"]
      /\ UNCHANGED <<lock, want, recon, facts, live, artifact, applied, inflight, faults>>
  BY DEF WriteIntent, Saves, Goto, world
<1>1. ckpt' \in Checkpoint /\ ckpt'.phase = ckpt.phase /\ ckpt'.pending
  BY <1>0, Locked, CheckpointWrites DEF Status
<1>2. TypeOK'
  BY <1>0, <1>1 DEF IInv, TypeOK, Outside, Inside
<1>3. LockInv'
  BY <1>0, <1>1 DEF IInv, TypeOK, LockInv
<1>4. OrderInv'
  BY <1>0, <1>1 DEF IInv, TypeOK, OrderInv, Target
<1>5. Serial => OnceInv'
  BY <1>0, <1>1 DEF IInv, TypeOK, OnceInv, IntentCoversEffect, Target, Serial
<1>6. Serial' = Serial
  BY DEF Serial
<1> QED  BY <1>2, <1>3, <1>4, <1>5, <1>6 DEF IInv

LEMMA StepRunEffect ==
    ASSUME IInv, NEW r \in Runners, RunEffect(r)
    PROVE  IInv'
<1> DEFINE t == Target(r)
<1>0. /\ step[r] = "effect" /\ step' = [step EXCEPT ![r] = "applied"]
      /\ applied' = [applied EXCEPT ![t] = @ + 1] /\ live' \in Identity
      /\ artifact' \in BOOLEAN /\ (artifact' => artifact \/ t = 1)
      /\ UNCHANGED <<ckpt, lock, want, recon, facts, inflight, faults>>
  BY DEF RunEffect, TakeEffect, Goto, IInv, TypeOK, Identity
<1>1. t = ckpt.phase + 1 /\ t \in Phase /\ ckpt.phase \in Nat
  BY <1>0, Locked
<1>2. /\ applied' \in [Phase -> Nat] /\ applied'[t] > 0
      /\ \A p \in Phase \ {t} : applied'[p] = applied[p]
      /\ \A p \in Phase : applied[p] > 0 => applied'[p] > 0
  BY <1>0, <1>1 DEF IInv, TypeOK
<1>3. TypeOK'
  BY <1>0, <1>2 DEF IInv, TypeOK, Outside, Inside
<1>4. LockInv'
  BY <1>0 DEF IInv, TypeOK, LockInv
<1>5. OrderInv'
  <2>1. \A s \in Runners : step[s] \in Busy => Target(s) \in Phase
    BY TypeFacts DEF IInv
  <2> HIDE DEF t
  <2>2. \A s \in Runners : Target(s)' = Target(s)
    BY <1>0 DEF Target
  <2>3. \A s \in Runners \ {r} : step'[s] = step[s]
    BY <1>0 DEF IInv, TypeOK
  <2>4. step'[r] = "applied" /\ Target(r) = t
    BY <1>0 DEF IInv, TypeOK, t
  <2>5. \A p \in Phase : p > ckpt.phase + 1 => applied'[p] = 0
    BY <1>1, <1>2 DEF IInv, OrderInv, Phase
  <2>6. \A p \in Phase : p <= ckpt.phase => applied'[p] > 0
    BY <1>2 DEF IInv, OrderInv
  <2>7. \A s \in Runners : step[s] \in {"live", "lock", "check", "resolve"} \cup {"applied"}
                            => step[s] \in Busy
    BY DEF Busy, Outside, Inside
  <2>8. artifact' => applied'[1] > 0
    <3>1. 1 \in Phase
      BY TypeFacts DEF IInv
    <3>2. artifact => applied[1] > 0
      BY DEF IInv, OrderInv
    <3> QED  BY <1>0, <1>2, <3>1, <3>2
  <2> QED
    BY <1>0, <1>2, <2>1, <2>2, <2>3, <2>4, <2>5, <2>6, <2>7, <2>8 DEF IInv, OrderInv
<1>6. Serial => OnceInv'
  <2> SUFFICES ASSUME Serial PROVE OnceInv'
    OBVIOUS
  <2>1. \A s \in Runners : s = r
    BY DEF Serial
  <2>2. step'[r] = "applied" /\ ckpt.pending
    BY <1>0 DEF IInv, TypeOK, OnceInv
  <2> QED  BY <1>0, <2>1, <2>2 DEF IInv, OnceInv, IntentCoversEffect
<1>7. Serial' = Serial
  BY DEF Serial
<1> QED  BY <1>3, <1>4, <1>5, <1>6, <1>7 DEF IInv

(* A failed outcome: the phase stays, and only an intent that covers no      *)
(* effect is cleared.                                                        *)
LEMMA StepOutcome ==
    ASSUME IInv, NEW r \in Runners, OutcomeUnknown(r) \/ Block(r)
    PROVE  IInv'
<1>0. /\ step[r] \in {"resolve", "effect", "applied"}
      /\ step' = [step EXCEPT ![r] = "idle"] /\ lock' = Nobody
      /\ UNCHANGED <<want, recon, facts, live, artifact>>
      /\ CutShort(r)
  BY DEF OutcomeUnknown, Block, Leave, Goto, SetOff, TakeEffect, CutShort, world
<1>c. /\ applied' \in [Phase -> Nat]
      /\ \A p \in Phase : applied[p] > 0 => applied'[p] > 0
      /\ \A p \in Phase : p > ckpt.phase + 1 => applied'[p] = 0
      /\ inflight' \subseteq Phase
      /\ \A p \in inflight' : p <= ckpt.phase + 1
      /\ Serial => inflight' = {}
  BY <1>0, CutShortFacts
<1>1. /\ lock = r /\ ckpt \in Checkpoint /\ ckpt.phase < Last /\ ckpt.phase \in Nat
      /\ Target(r) = ckpt.phase + 1 /\ Target(r) \in Phase
      /\ applied \in [Phase -> Nat]
      /\ \A s \in Runners \ {r} : step[s] \notin Inside
  BY <1>0, Locked
<1>2. faults' \in 0 .. MaxFaults
  <2>1. faults' = faults \/ Fault
    BY DEF OutcomeUnknown, Block
  <2> QED  BY <2>1, EpicLoopAssumption DEF Fault, IInv, TypeOK
<1>3. /\ ckpt' \in Checkpoint /\ ckpt'.phase = ckpt.phase
      /\ \/ ckpt'.pending = ckpt.pending
         \/ (step[r] = "effect" \/ Target(r) = Demo) /\ applied' = applied
  <2>1. CASE OutcomeUnknown(r)
    <3>1. ckpt' = [ckpt EXCEPT !.status = "ESCALATE"] /\ "ESCALATE" \in Status
      BY <2>1 DEF OutcomeUnknown, Status
    <3> QED  BY <1>1, <3>1, CheckpointWrites
  <2>2. CASE Block(r)
    <3>1. ckpt' = [ckpt EXCEPT !.pending = FALSE, !.status = "BLOCKED"]
          /\ "BLOCKED" \in Status
      BY <2>2, <1>1 DEF Block, Status, Checkpoint
    <3>2. (step[r] = "effect" \/ Target(r) = Demo) /\ applied' = applied
      BY <2>2 DEF Block, world
    <3> QED  BY <1>1, <3>1, <3>2, CheckpointWrites
  <2> QED  BY <2>1, <2>2
<1>4. TypeOK'
  BY <1>0, <1>1, <1>2, <1>3, <1>c, EpicLoopAssumption DEF IInv, TypeOK, Outside, Inside
<1>5. LockInv'
  BY <1>0, <1>1, <1>3 DEF IInv, TypeOK, LockInv, Inside
<1>6. OrderInv'
  <2>1. \A s \in Runners : step[s] \in {"live", "lock", "check", "resolve", "applied"}
            => Target(s) \in Phase
    BY TypeFacts DEF IInv, Busy, Outside, Inside
  <2>2. 1 \in Phase
    BY TypeFacts DEF IInv
  <2>3. step'[r] = "idle" /\ \A s \in Runners \ {r} : step'[s] = step[s]
    BY <1>0 DEF IInv, TypeOK
  <2>4. \A s \in Runners : Target(s)' = Target(s)
    BY <1>0 DEF Target
  <2> QED  BY <1>0, <1>3, <1>c, <2>1, <2>2, <2>3, <2>4 DEF IInv, OrderInv
<1>7. Serial => OnceInv'
  <2> SUFFICES ASSUME Serial PROVE OnceInv'
    OBVIOUS
  <2>1. \A s \in Runners : s = r
    BY DEF Serial
  <2>2. step'[r] = "idle" /\ inflight' = {}
    BY <1>0, <1>c DEF IInv, TypeOK
  <2>3. IntentCoversEffect'
    <3> SUFFICES ASSUME NEW p \in Phase \ Reading, p > ckpt.phase, applied'[p] > 0
                 PROVE  ckpt'.pending
      BY <1>0, <1>3 DEF IntentCoversEffect
    <3>1. p = ckpt.phase + 1
      BY <1>1, <1>c DEF Phase
    <3>2. ckpt.pending
      <4>1. CASE applied' = applied
        BY <4>1 DEF IInv, OnceInv, IntentCoversEffect
      <4>2. CASE applied' # applied
        BY <1>0, <4>2, CutShortFacts DEF IInv, OnceInv
      <4> QED  BY <4>1, <4>2
    <3>3. ~((step[r] = "effect" \/ Target(r) = Demo) /\ applied' = applied)
      BY <1>1, <3>1, TypeFacts DEF IInv, OnceInv
    <3> QED  BY <1>3, <3>2, <3>3
  <2> QED  BY <1>0, <2>1, <2>2, <2>3 DEF IInv, OnceInv
<1>8. Serial' = Serial
  BY DEF Serial
<1> QED  BY <1>4, <1>5, <1>6, <1>7, <1>8 DEF IInv

(* A completed phase has taken effect. *)
LEMMA CompletedApplied ==
    ASSUME IInv, NEW r \in Runners, ResolveApplied(r) \/ ReceiveReceipt(r)
    PROVE  /\ step[r] \in {"resolve", "applied"} /\ Complete(r)
           /\ UNCHANGED <<want, recon, facts, live, artifact, applied, inflight, faults>>
           /\ applied[ckpt.phase + 1] > 0
<1>1. /\ step[r] \in {"resolve", "applied"} /\ Complete(r)
      /\ UNCHANGED <<want, recon, facts, live, artifact, applied, inflight, faults>>
  BY DEF ResolveApplied, ReceiveReceipt, world
<1>2. Target(r) = ckpt.phase + 1
  BY <1>1, Locked
<1>3. applied[Target(r)] > 0
  <2>1. CASE ReceiveReceipt(r)
    BY <2>1 DEF ReceiveReceipt, IInv, OrderInv
  <2>2. CASE ResolveApplied(r)
    BY <1>1, <2>2, Locked, AnswersFacts DEF ResolveApplied, Answered, IInv, OrderInv
  <2> QED  BY <2>1, <2>2
<1> QED  BY <1>1, <1>2, <1>3

LEMMA StepComplete ==
    ASSUME IInv, NEW r \in Runners, ResolveApplied(r) \/ ReceiveReceipt(r)
    PROVE  IInv'
<1>0. /\ step[r] \in {"resolve", "applied"}
      /\ step' = [step EXCEPT ![r] = "loop"] /\ lock' = Nobody
      /\ ckpt' = Completed(ckpt)
      /\ UNCHANGED <<want, recon, facts, live, artifact, applied, inflight, faults>>
      /\ applied[ckpt.phase + 1] > 0
  BY CompletedApplied DEF Complete, Leave, Goto, Saves
<1>1. /\ lock = r /\ ckpt \in Checkpoint /\ ckpt.phase < Last /\ ckpt.phase \in Nat
      /\ Target(r) = ckpt.phase + 1 /\ applied \in [Phase -> Nat]
      /\ \A s \in Runners \ {r} : step[s] \notin Inside
  BY <1>0, Locked
<1>2. ckpt' \in Checkpoint /\ ckpt'.phase = ckpt.phase + 1
  BY <1>0, <1>1, CheckpointCompleted
<1>3. TypeOK'
  BY <1>0, <1>1, <1>2, EpicLoopAssumption DEF IInv, TypeOK, Outside, Inside
<1>4. LockInv'
  BY <1>0, <1>1 DEF IInv, TypeOK, LockInv, Inside
<1>5. OrderInv'
  <2>1. \A p \in Phase : p > ckpt'.phase + 1 => applied[p] = 0
    BY <1>1, <1>2 DEF IInv, OrderInv, Phase
  <2>2. \A p \in Phase : p <= ckpt'.phase => applied[p] > 0
    BY <1>0, <1>1, <1>2 DEF IInv, OrderInv, Phase
  <2>3. \A p \in inflight : p <= ckpt'.phase + 1
    BY <1>1, <1>2 DEF IInv, OrderInv, TypeOK, Phase
  <2>4. \A s \in Runners : step'[s] = step[s] \/ step'[s] = "loop"
    BY <1>0 DEF IInv, TypeOK
  <2> QED  BY <1>0, <2>1, <2>2, <2>3, <2>4 DEF IInv, OrderInv, Target
<1>6. Serial => OnceInv'
  <2> SUFFICES ASSUME Serial PROVE OnceInv'
    OBVIOUS
  <2>1. \A s \in Runners : s = r
    BY DEF Serial
  <2>2. step'[r] = "loop"
    BY <1>0 DEF IInv, TypeOK
  <2>3. IntentCoversEffect'
    BY <1>0, <1>1, <1>2 DEF IInv, OrderInv, IntentCoversEffect, Phase
  <2> QED  BY <1>0, <2>1, <2>2, <2>3 DEF IInv, OnceInv
<1>7. Serial' = Serial
  BY DEF Serial
<1> QED  BY <1>3, <1>4, <1>5, <1>6, <1>7 DEF IInv

-----------------------------------------------------------------------------
(* The rate limit and the world *)

LEMMA StepPause ==
    ASSUME IInv, Pause \/ Unpause
    PROVE  IInv'
<1>0. /\ ckpt.phase < Last /\ ckpt \in Checkpoint
      /\ \E st \in Status : ckpt' = [ckpt EXCEPT !.status = st]
      /\ faults' \in 0 .. MaxFaults
      /\ UNCHANGED <<lock, step, want, recon, facts, live, artifact, applied, inflight>>
  <2>1. ckpt \in Checkpoint /\ Last \in Nat
    BY EpicLoopAssumption DEF IInv, TypeOK
  <2>2. CASE Pause
    BY <2>1, <2>2, EpicLoopAssumption
       DEF Pause, Fault, world, calls, Status, IInv, TypeOK
  <2>3. CASE Unpause
    <3>1. ckpt.phase < Last
      <4>1. ckpt.phase \in 0 .. Last /\ ckpt.phase # Last
        BY <2>1, <2>3 DEF Unpause, Checkpoint
      <4> QED  BY <2>1, <4>1
    <3> QED  BY <2>1, <2>3, <3>1 DEF Unpause, world, calls, Status, IInv, TypeOK
  <2> QED  BY <2>2, <2>3
<1>1. /\ ckpt' \in Checkpoint /\ ckpt'.phase = ckpt.phase
      /\ ckpt'.pending = ckpt.pending
  <2>1. PICK st \in Status : ckpt' = [ckpt EXCEPT !.status = st]
    BY <1>0
  <2>2. ckpt \in Checkpoint /\ ckpt.phase < Last /\ TRUE \in BOOLEAN
    BY <1>0
  <2> QED  BY ONLY <2>1, <2>2, CheckpointWrites
<1>f. /\ faults' \in 0 .. MaxFaults
      /\ UNCHANGED <<lock, step, want, recon, facts, live, artifact, applied, inflight>>
  BY <1>0
<1>2. TypeOK'
  BY <1>1, <1>f DEF IInv, TypeOK
<1>3. LockInv' /\ OrderInv'
  BY <1>0, <1>1 DEF IInv, LockInv, OrderInv, Target
<1>4. Serial => OnceInv'
  BY <1>0, <1>1 DEF IInv, OnceInv, IntentCoversEffect, Target
<1>5. Serial' = Serial
  BY DEF Serial
<1> QED  BY <1>2, <1>3, <1>4, <1>5 DEF IInv

LEMMA StepWorld ==
    ASSUME IInv, LateEffect \/ IdentityDrifts
    PROVE  IInv'
<1>1. CASE IdentityDrifts
  <2>1. /\ live' \in Identity /\ faults' \in 0 .. MaxFaults
        /\ UNCHANGED <<ckpt, lock, step, want, recon, facts, artifact, applied, inflight>>
    BY <1>1, EpicLoopAssumption
       DEF IdentityDrifts, Fault, calls, Identity, IInv, TypeOK
  <2>2. TypeOK'
    BY <2>1 DEF IInv, TypeOK
  <2>3. LockInv' /\ OrderInv'
    BY <2>1 DEF IInv, LockInv, OrderInv, Target
  <2>4. Serial => OnceInv'
    BY <2>1 DEF IInv, OnceInv, IntentCoversEffect, Target
  <2>5. Serial' = Serial
    BY DEF Serial
  <2> QED  BY <2>2, <2>3, <2>4, <2>5 DEF IInv
<1>2. CASE LateEffect
  <2>1. PICK p \in inflight : TakeEffect(p) /\ inflight' = inflight \ {p}
    BY <1>2 DEF LateEffect
  <2>2. /\ p \in Phase /\ p <= ckpt.phase + 1 /\ ckpt.phase \in Nat
        /\ applied \in [Phase -> Nat]
    BY TypeFacts DEF IInv, TypeOK, OrderInv
  <2>3. /\ applied' = [applied EXCEPT ![p] = @ + 1]
        /\ UNCHANGED <<ckpt, lock, step, want, recon, facts, live, artifact, faults>>
    BY <1>2, <2>1 DEF LateEffect, TakeEffect, calls
  <2>4. /\ applied' \in [Phase -> Nat]
        /\ \A q \in Phase : applied[q] > 0 => applied'[q] > 0
        /\ \A q \in Phase \ {p} : applied'[q] = applied[q]
    BY <2>2, <2>3
  <2>5. TypeOK'
    BY <2>1, <2>3, <2>4 DEF IInv, TypeOK
  <2>6. LockInv'
    BY <2>3 DEF IInv, LockInv
  <2>7. OrderInv'
    <3>1. \A q \in Phase : q > ckpt.phase + 1 => applied'[q] = 0
      BY <2>2, <2>4 DEF IInv, OrderInv, Phase
    <3>2. \A q \in Phase : q <= ckpt.phase => applied'[q] > 0
      BY <2>4 DEF IInv, OrderInv
    <3>3. \A s \in Runners : step[s] \in {"live", "lock", "check", "resolve", "applied"}
              => Target(s) \in Phase
      BY TypeFacts DEF IInv, Busy, Outside, Inside
    <3>4. 1 \in Phase
      BY TypeFacts DEF IInv
    <3> QED  BY <2>1, <2>3, <2>4, <3>1, <3>2, <3>3, <3>4 DEF IInv, OrderInv, Target
  <2>8. ~Serial
    BY <2>1 DEF IInv, OnceInv
  <2>9. Serial' = Serial
    BY DEF Serial
  <2> QED  BY <2>5, <2>6, <2>7, <2>8, <2>9 DEF IInv
<1> QED  BY <1>1, <1>2

-----------------------------------------------------------------------------
(* Theorems *)

LEMMA NextIInv == IInv /\ [Next]_vars => IInv'
<1> SUFFICES ASSUME IInv, [Next]_vars PROVE IInv'
  OBVIOUS
<1>1. CASE UNCHANGED vars
  BY <1>1 DEF vars, IInv, TypeOK, LockInv, OrderInv, OnceInv, IntentCoversEffect,
              Target, Serial
<1>2. ASSUME NEW r \in Runners, Proceed(r)
      PROVE  IInv'
  BY <1>2, StepStart, StepLoad, StepReconcile, StepCheck, StepRefuse, StepComplete,
     StepResolveNotApplied, StepWriteIntent, StepRunEffect DEF Proceed
<1> QED
  BY <1>1, <1>2, StepOutcome, StepRefuse, StepPause, StepWorld DEF Next

LEMMA Invariance == Spec => []IInv
BY InitIInv, NextIInv, PTL DEF Spec

(* Every variable always has its type; in particular the checkpoint always   *)
(* is one that load() accepts, and the lock is held by one call at most.     *)
THEOREM TypeCorrect == Spec => []TypeOK
<1>1. IInv => TypeOK
  BY DEF IInv
<1> QED  BY <1>1, Invariance, PTL

(* With one call at a time an effect that is not recorded is covered by a    *)
(* pending intent.                                                           *)
THEOREM WriteAhead == Serial => (Spec => []IntentCoversEffect)
<1>1. Serial /\ IInv => IntentCoversEffect
  BY DEF IInv, OnceInv
<1>2. CASE Serial
  BY <1>1, <1>2, Invariance, PTL
<1> QED  BY <1>2

(* A task past PLAN is bound to the pull request its RUN_TASK made. *)
THEOREM Bound == Spec => []BoundToDelivery
<1>1. IInv => BoundToDelivery
  <2> SUFFICES ASSUME IInv, ckpt.phase > 0
               PROVE  ckpt.ident = "made" /\ applied[1] > 0
    BY DEF BoundToDelivery
  <2>1. ckpt \in Checkpoint /\ ckpt.phase \in 0 .. Last /\ Last \in Nat
    BY TypeFacts DEF IInv
  <2>2. ckpt.ident = "made"
    BY <2>1 DEF Checkpoint
  <2>3. 1 \in Phase /\ 1 <= ckpt.phase
    BY <2>1 DEF Phase
  <2> QED  BY <2>2, <2>3 DEF IInv, OrderInv
<1> QED  BY <1>1, Invariance, PTL

-----------------------------------------------------------------------------
(* The pause *)

(* While an effect runs the checkpoint is RUNNING: a pause needs the lock    *)
(* before the intent is written, or after the outcome is.                    *)
RunningInv ==
    \A r \in Runners : step[r] \in {"effect", "applied"} => ckpt.status = "RUNNING"

LEMMA RunningStep ==
    ASSUME TypeOK, RunningInv, [Next]_vars
    PROVE  RunningInv'
<1> USE DEF RunningInv
<1>1. CASE UNCHANGED vars
  BY <1>1 DEF vars
<1>2. ckpt \in Checkpoint /\ step \in [Runners -> Outside \cup Inside]
      /\ \A r \in Runners : step[r] \in {"resolve", "intent", "effect", "applied"} => lock = r
  BY DEF TypeOK, Inside
<1>3. ASSUME NEW r \in Runners,
             \/ Start(r) \/ Load(r) \/ Reconcile(r) \/ ReadLive(r) \/ Acquire(r) \/ Check(r)
             \/ ResolveNotApplied(r) \/ Refuse(r) \/ RunEffect(r) \/ Stop(r)
      PROVE  RunningInv'
  BY <1>2, <1>3 DEF Start, Load, Reconcile, ReadLive, Acquire, Check, ResolveNotApplied,
                    Refuse, RunEffect, Stop, Goto, Leave
<1>4. ASSUME NEW r \in Runners, WriteIntent(r)
      PROVE  RunningInv'
  BY <1>2, <1>4 DEF WriteIntent, Saves, Goto, Checkpoint
<1>5. ASSUME NEW r \in Runners,
             ResolveApplied(r) \/ ReceiveReceipt(r) \/ OutcomeUnknown(r) \/ Block(r)
      PROVE  RunningInv'
  <2>1. step[r] \in {"resolve", "effect", "applied"} /\ Leave(r, step'[r])
        /\ step'[r] \in {"idle", "loop"}
    BY <1>2, <1>5 DEF ResolveApplied, ReceiveReceipt, OutcomeUnknown, Block, Complete, Leave, Goto
  <2> QED  BY <1>2, <2>1 DEF Leave, Goto
<1>6. CASE Pause \/ Unpause
  BY <1>2, <1>6, EpicLoopAssumption DEF Pause, Unpause, calls
<1>7. CASE LateEffect \/ IdentityDrifts
  BY <1>7 DEF LateEffect, IdentityDrifts, calls
<1> QED  BY <1>1, <1>3, <1>4, <1>5, <1>6, <1>7 DEF Next, Proceed

(* A pause, whenever it comes, keeps the phase and the intent, and no effect *)
(* starts under it.                                                          *)
THEOREM PauseIsKept == Spec => PauseHolds
<1> DEFINE Held == /\ ckpt'.phase = ckpt.phase /\ ckpt'.pending = ckpt.pending
                   /\ ckpt'.ident = ckpt.ident
                   /\ \A r \in Runners : step'[r] = "effect" => step[r] = "effect"
           Paused == ckpt.status = "PAUSED_RATE_LIMIT"
<1>1. TypeOK /\ RunningInv /\ [Next]_vars => [Paused => Held]_vars
  <2> SUFFICES ASSUME TypeOK, RunningInv, Next, Paused PROVE Held
    OBVIOUS
  <2>1. ckpt \in Checkpoint /\ step \in [Runners -> Outside \cup Inside]
    BY DEF TypeOK
  <2>2. ASSUME NEW r \in Runners,
               \/ Start(r) \/ Load(r) \/ Reconcile(r) \/ ReadLive(r) \/ Acquire(r) \/ Check(r)
               \/ ResolveNotApplied(r) \/ Refuse(r) \/ RunEffect(r) \/ Stop(r)
        PROVE  Held
    BY <2>1, <2>2 DEF Start, Load, Reconcile, ReadLive, Acquire, Check, ResolveNotApplied,
                      Refuse, RunEffect, Stop, Goto, Leave
  <2>3. ASSUME NEW r \in Runners,
               \/ WriteIntent(r) \/ ResolveApplied(r) \/ ReceiveReceipt(r)
               \/ OutcomeUnknown(r) \/ Block(r)
        PROVE  FALSE
    BY <2>3 DEF RunningInv, WriteIntent, ResolveApplied, ReceiveReceipt, OutcomeUnknown, Block,
                Complete, Saves
  <2>4. CASE Pause \/ Unpause
    BY <2>1, <2>4 DEF Pause, Unpause, calls, Checkpoint
  <2>5. CASE LateEffect \/ IdentityDrifts
    BY <2>5 DEF LateEffect, IdentityDrifts, calls
  <2> QED  BY <2>2, <2>3, <2>4, <2>5 DEF Next, Proceed
<1>2. Init => RunningInv
  BY DEF Init, RunningInv
<1>3. TypeOK /\ RunningInv /\ [Next]_vars => RunningInv'
  BY RunningStep
<1> QED  BY <1>1, <1>2, <1>3, TypeCorrect, PTL DEF Spec, PauseHolds

-----------------------------------------------------------------------------
(* The chain of phases *)

(* A recorded phase took effect before, and only the next one is recorded. *)
LEMMA CompleteRecords ==
    ASSUME IInv, NEW r \in Runners, Complete(r), UNCHANGED applied,
           want[r].phase = ckpt.phase, ckpt.phase < Last, applied[Target(r)] > 0
    PROVE  Chain!Record
<1>1. ckpt' = Completed(ckpt) /\ ckpt \in Checkpoint
  BY TypeFacts DEF Complete, Saves, IInv
<1>2. ckpt'.phase = ckpt.phase + 1
  BY <1>1, CheckpointCompleted
<1> QED  BY <1>2 DEF Chain!Record, Target

LEMMA EffectSteps ==
    ASSUME IInv, NEW r \in Runners, RunEffect(r)
    PROVE  \E p \in Phase : Chain!Effect(p)
<1>1. /\ Target(r) \in Phase /\ Target(r) = ckpt.phase + 1
      /\ step[r] = "effect"
  BY TypeFacts DEF IInv, LockInv, RunEffect, Target, Busy, Inside
<1>2. /\ applied' = [applied EXCEPT ![Target(r)] = @ + 1]
      /\ ckpt' = ckpt
  BY DEF RunEffect, TakeEffect
<1>3. Serial /\ Target(r) \notin Reading => applied[Target(r)] = 0
  BY <1>1 DEF IInv, OnceInv
<1>4. \/ applied[Target(r)] = 0
      \/ Target(r) \in (IF Serial THEN Reading ELSE Phase)
  BY <1>1, <1>3
<1>5. ckpt.phase \in Nat
  BY TypeFacts DEF IInv
<1>6. Chain!Effect(Target(r))
  BY <1>1, <1>2, <1>4, <1>5 DEF Chain!Effect, Phase
<1> QED  BY <1>1, <1>6

LEMMA LateSteps ==
    ASSUME IInv, LateEffect
    PROVE  \E p \in Phase : Chain!Effect(p)
<1>1. PICK p \in inflight : TakeEffect(p)
  BY DEF LateEffect
<1>2. p \in Phase /\ p <= ckpt.phase + 1 /\ ~Serial
  BY <1>1 DEF IInv, TypeOK, OrderInv, OnceInv
<1>3. /\ applied' = [applied EXCEPT ![p] = @ + 1]
      /\ ckpt' = ckpt
  BY <1>1 DEF LateEffect, TakeEffect
<1>4. Chain!Effect(p)
  BY <1>2, <1>3 DEF Chain!Effect, Phase
<1> QED  BY <1>2, <1>4

(* An effect cut short is one of the chain, or a stutter. *)
LEMMA CutShortSteps ==
    ASSUME IInv, NEW r \in Runners, CutShort(r), ckpt'.phase = ckpt.phase
    PROVE  UNCHANGED applied \/ \E p \in Phase : Chain!Effect(p)
<1> SUFFICES ASSUME applied' # applied PROVE \E p \in Phase : Chain!Effect(p)
  OBVIOUS
<1>1. step[r] = "effect" /\ Target(r) = 1 /\ ckpt.phase = 0
  BY CutShortFacts
<1>2. applied' = [applied EXCEPT ![1] = @ + 1] /\ 1 \in Phase /\ 1 \notin Reading
  BY TypeFacts DEF CutShort, IInv
<1>3. applied[1] = 0 \/ ~Serial
  BY <1>1, <1>2 DEF IInv, OnceInv
<1>4. Chain!Effect(1)
  BY <1>1, <1>2, <1>3 DEF Chain!Effect, Phase
<1> QED  BY <1>2, <1>4

(* The other steps are stutters of the chain. *)
LEMMA QuietSteps ==
    ASSUME IInv, NEW r \in Runners,
           \/ Start(r) \/ Load(r) \/ Reconcile(r) \/ ReadLive(r) \/ Acquire(r)
           \/ Check(r) \/ ResolveNotApplied(r) \/ Refuse(r) \/ WriteIntent(r)
           \/ OutcomeUnknown(r) \/ Block(r) \/ Stop(r)
    PROVE  /\ UNCHANGED ckpt.phase
           /\ UNCHANGED applied \/ \E p \in Phase : Chain!Effect(p)
<1>1. CASE \/ Start(r) \/ Load(r) \/ Reconcile(r) \/ ReadLive(r) \/ Acquire(r)
          \/ Check(r) \/ ResolveNotApplied(r) \/ Refuse(r)
  BY <1>1 DEF Start, Load, Reconcile, ReadLive, Acquire, Check, ResolveNotApplied,
              Refuse, world
<1>2. ckpt \in Checkpoint
  BY TypeFacts DEF IInv
<1>3. CASE WriteIntent(r)
  BY <1>2, <1>3 DEF WriteIntent, Saves, world, Checkpoint
<1>4. CASE Block(r)
  BY <1>2, <1>4 DEF Block, world, Checkpoint
<1>5. CASE OutcomeUnknown(r) \/ Stop(r)
  <2>1. CutShort(r)
    BY <1>5 DEF OutcomeUnknown, Stop, SetOff, TakeEffect, CutShort
  <2>2. UNCHANGED ckpt.phase
    BY <1>2, <1>5 DEF OutcomeUnknown, Stop, Checkpoint
  <2> QED  BY <2>1, <2>2, CutShortSteps
<1> QED  BY <1>1, <1>3, <1>4, <1>5

LEMMA PauseSteps ==
    ASSUME IInv, Pause \/ Unpause \/ IdentityDrifts
    PROVE  UNCHANGED <<ckpt.phase, applied>>
<1>1. ckpt \in Checkpoint
  BY TypeFacts DEF IInv
<1> QED  BY <1>1 DEF Pause, Unpause, IdentityDrifts, world, Checkpoint

(* A phase is completed by the call in the lock, of a task not done. *)
LEMMA CompleteSteps ==
    ASSUME IInv, NEW r \in Runners, ResolveApplied(r) \/ ReceiveReceipt(r)
    PROVE  Chain!Record
<1>1. /\ step[r] \in {"resolve", "applied"} /\ Complete(r) /\ UNCHANGED applied
  BY DEF ResolveApplied, ReceiveReceipt, world
<1>2. want[r].phase = ckpt.phase /\ want[r].phase < Last
  BY <1>1 DEF IInv, LockInv, TypeOK, Inside, Outside
<1>3. applied[Target(r)] > 0
  <2>1. CASE ReceiveReceipt(r)
    BY <2>1 DEF ReceiveReceipt, IInv, OrderInv
  <2>2. CASE ResolveApplied(r)
    BY <2>2, CompletedApplied, <1>2 DEF Target
  <2> QED  BY <2>1, <2>2
<1> QED  BY <1>1, <1>2, <1>3, CompleteRecords

LEMMA ChainSteps ==
    ASSUME IInv, [Next]_vars
    PROVE  [Chain!Next]_<<ckpt.phase, applied>>
<1>1. CASE UNCHANGED vars
  BY <1>1 DEF vars
<1>2. ASSUME NEW r \in Runners, Proceed(r)
      PROVE  [Chain!Next]_<<ckpt.phase, applied>>
  <2>1. CASE ResolveApplied(r) \/ ReceiveReceipt(r)
    BY <2>1, CompleteSteps DEF Chain!Next
  <2>2. CASE RunEffect(r)
    BY <2>2, EffectSteps DEF Chain!Next, Phase
  <2>3. CASE ~(ResolveApplied(r) \/ ReceiveReceipt(r)) /\ ~RunEffect(r)
    BY <1>2, <2>3, QuietSteps DEF Proceed, Chain!Next, Phase
  <2> QED  BY <2>1, <2>2, <2>3
<1>3. CASE LateEffect
  BY <1>3, LateSteps DEF Chain!Next, Phase
<1>4. ASSUME NEW r \in Runners, OutcomeUnknown(r) \/ Block(r) \/ Stop(r)
      PROVE  [Chain!Next]_<<ckpt.phase, applied>>
  BY <1>4, QuietSteps DEF Chain!Next, Phase
<1> QED  BY <1>1, <1>2, <1>3, <1>4, PauseSteps DEF Next

(* The loop implements the chain of phases: its effects happen in the order  *)
(* of PHASES, each phase is recorded after its effect, and with one operator *)
(* and no late effect only a phase that just reads is ever repeated.         *)
THEOREM LoopImplementsChain == Spec => ImplementsPhaseChain
<1>1. Init => Chain!Init
  BY DEF Init, Chain!Init, Phase
<1>2. IInv /\ [Next]_vars => [Chain!Next]_<<ckpt.phase, applied>>
  BY ChainSteps
<1> QED  BY <1>1, <1>2, Invariance, PTL DEF Spec, ImplementsPhaseChain, Chain!Spec
=============================================================================

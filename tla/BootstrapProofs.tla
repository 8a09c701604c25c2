---------------------------- MODULE BootstrapProofs ----------------------------
(***************************************************************************)
(* Theorems about Bootstrap, for any number of overlapping calls, approvals *)
(* and faults.                                                             *)
(***************************************************************************)
EXTENDS Bootstrap, FiniteSetTheorems, TLAPS

-----------------------------------------------------------------------------
(* The invariant *)

Place == Outside \cup Inside
Ctl   == [gen : Nat, stopped : BOOLEAN, auth : Serial,
          attempts : [Op -> 0 .. Budget], pending : Op \cup {None}]

DataOK ==
    /\ ckpt \in {"ready", "pending", "done"} /\ bound \in BOOLEAN
    /\ ledger \in [Op -> {"none", "INTENT", "UNKNOWN", "APPLIED"}]
    /\ guarded \in BOOLEAN
    /\ ctl \in Ctl
    /\ approval \in [serial : Serial, gen : Nat, valid : BOOLEAN]
    /\ done \subseteq Op /\ staged \in BOOLEAN /\ inflight \subseteq Op
    /\ landed \in [Op -> Nat] /\ sent \in [Op \X Serial -> Nat]
    /\ faults \in 0 .. MaxFaults

IsApplied(o) == ledger[o] = "APPLIED"
AllApplied  == \A o \in Op : IsApplied(o)

(* The places of a call before its operation is in the ledger as APPLIED.    *)
Open == {"revalidate", "reserve", "intent", "write", "verify", "unknown", "applied"}

(* What a call knows at each of its places.                                  *)
Call(c) ==
    /\ at[c] \in {"entry", "begin", "handler", "advance", "reserve", "complete"}
          => guarded
    /\ at[c] \in Open \cup {"decide", "complete"}
          => \A p \in Op : p < op[c] => IsApplied(p)
    /\ at[c] \in Open => ~IsApplied(op[c])
    /\ at[c] = "applied" => op[c] \in done
    /\ at[c] = "complete" => IsApplied(op[c])
    /\ at[c] = "bind" => AllApplied
    /\ at[c] \in {"record", "advance"} => bound
    /\ at[c] \in {"intent", "write"} /\ guarded
          => ~ctl.stopped /\ ctl.pending = op[c] /\ sent[<<op[c], ctl.auth>>] = 0

CallInv == \A c \in Calls : Call(c)

(* The ledger follows the world, in the order of the operations.             *)
WorldInv ==
    /\ \A o \in Op : IsApplied(o) => o \in done
    /\ \A o \in Op : landed[o] > 0 <=> o \in done
    /\ \A o, p \in Op : p < o /\ (IsApplied(o) \/ o \in inflight) => IsApplied(p)

BoundInv ==
    /\ bound => AllApplied
    /\ ckpt = "done" => bound

(* An approval is used up by a stop, and while it is open every operation     *)
(* sent under it is the pending one or recorded.                             *)
ControlInv ==
    /\ approval.gen <= ctl.gen
    /\ ctl.auth <= approval.serial
    /\ approval.valid => approval.serial >= 1
    /\ ctl.stopped /\ ctl.auth = approval.serial /\ ctl.auth > 0
          => approval.gen < ctl.gen
    /\ ~ctl.stopped => /\ ctl.auth > 0
                       /\ \A o \in Op : sent[<<o, ctl.auth>>] > 0
                                          => IsApplied(o) \/ ctl.pending = o
    /\ ~guarded => ctl.stopped /\ ctl.auth = 0
    /\ \A o \in Op, s \in Serial : s > ctl.auth => sent[<<o, s>>] = 0
    /\ OneWritePerApproval

IInv == TypeOK /\ CallInv /\ WorldInv /\ BoundInv /\ ControlInv

-----------------------------------------------------------------------------
(* Lemmas for every step *)

LEMMA OpOrder == Op = {1, 2, 3} /\ Op \subseteq Nat /\ None \notin Op
BY DEF Op, Commit, Push, CreatePR, None

(* A step that takes call c to s, with the lock taken, kept or released as   *)
(* s lies inside or outside of it.                                           *)
LEMMA Placed ==
    ASSUME TypeOK, NEW c \in Calls, NEW s \in Place, Goto(c, s),
           \/ s \in Inside /\ lock' = c /\ lock \in {c, Nobody}
           \/ s \in Outside /\ lock = c /\ lock' = Nobody
           \/ s \in Outside /\ lock # c /\ lock' = lock
    PROVE  /\ at' \in [Calls -> Place] /\ at'[c] = s
           /\ lock' \in Calls \cup {Nobody}
           /\ \A d \in Calls : at'[d] \in Inside <=> lock' = d
           /\ \A d \in Calls \ {c} : at'[d] = at[d]
<1>1. at \in [Calls -> Place] /\ Nobody \notin Calls
  BY BootstrapAssumption DEF TypeOK, Place
<1>2. at' \in [Calls -> Place] /\ at'[c] = s /\ \A d \in Calls \ {c} : at'[d] = at[d]
  BY <1>1 DEF Goto
<1>3. s \in Inside <=> s \notin Outside
  BY DEF Place, Inside, Outside
<1>4. \A d \in Calls : at[d] \in Inside <=> lock = d
  BY DEF TypeOK
<1>5. lock \in Calls \cup {Nobody}
  BY DEF TypeOK
<1> QED  BY <1>1, <1>2, <1>3, <1>4, <1>5

(* Only the call that holds the lock changes the ledger and the history, and *)
(* the state of the recovery changes in its hands or when nobody has the     *)
(* lock: what the other calls know stays true.                               *)
LEMMA Alone ==
    ASSUME IInv, NEW c \in Calls, NEW s \in Place, Goto(c, s),
           \/ s \in Inside /\ lock' = c /\ lock \in {c, Nobody}
           \/ s \in Outside /\ lock = c /\ lock' = Nobody
           \/ s \in Outside /\ lock # c /\ lock' = lock,
           op' \in [Calls -> Op], \A d \in Calls \ {c} : op'[d] = op[d],
           UNCHANGED guarded, bound => bound',
           lock = c \/ UNCHANGED <<ledger, sent>>,
           lock \in {c, Nobody} \/ UNCHANGED ctl,
           done \subseteq done',
           DataOK', Call(c)', WorldInv', BoundInv', ControlInv'
    PROVE  IInv'
<1>1. /\ at' \in [Calls -> Place] /\ lock' \in Calls \cup {Nobody}
      /\ \A d \in Calls : at'[d] \in Inside <=> lock' = d
      /\ \A d \in Calls \ {c} : at'[d] = at[d]
  BY Placed DEF IInv
<1>2. TypeOK'
  BY <1>1 DEF TypeOK, DataOK, Place, Ctl
<1>3. ASSUME NEW d \in Calls \ {c} PROVE Call(d)'
  <2>1. at'[d] = at[d] /\ op'[d] = op[d] /\ Call(d)
    BY <1>1 DEF IInv, CallInv
  <2>2. CASE at[d] \in Inside
    <3>1. lock = d /\ Nobody \notin Calls
      BY <2>2, BootstrapAssumption DEF IInv, TypeOK
    <3>2. UNCHANGED <<ledger, sent, ctl>>
      BY <3>1
    <3> QED  BY <2>1, <3>2 DEF Call, AllApplied, IsApplied
  <2>3. CASE at[d] \notin Inside
    BY <2>1, <2>3 DEF Call, Open, Inside
  <2> QED  BY <2>2, <2>3
<1> QED  BY <1>2, <1>3 DEF IInv, CallInv

(* A step that changes no file and nothing in the world.                     *)
LEMMA Silent ==
    ASSUME IInv, NEW c \in Calls, NEW s \in Place, Goto(c, s),
           \/ s \in Inside /\ lock' = c /\ lock \in {c, Nobody}
           \/ s \in Outside /\ lock = c /\ lock' = Nobody
           \/ s \in Outside /\ lock # c /\ lock' = lock,
           UNCHANGED <<store, ctl, op, world>>, faults' \in 0 .. MaxFaults,
           Call(c)'
    PROVE  IInv'
<1>1. UNCHANGED <<ckpt, bound, ledger, guarded, approval, ctl, op,
                  done, staged, inflight, landed, sent>>
  BY DEF store, world
<1>2. DataOK' /\ op' \in [Calls -> Op]
  BY <1>1 DEF IInv, TypeOK, DataOK, Ctl
<1>3. WorldInv' /\ BoundInv' /\ ControlInv'
  BY <1>1 DEF IInv, WorldInv, BoundInv, ControlInv, IsApplied, AllApplied,
              OneWritePerApproval
<1> QED  BY <1>1, <1>2, <1>3, Alone

LEMMA StopFacts ==
    ASSUME NEW v \in Ctl
    PROVE  /\ Stop(v) \in Ctl /\ Stop(v).stopped /\ Stop(v).pending = None
           /\ Stop(v).auth = v.auth
           /\ Stop(v) = v \/ Stop(v).gen = v.gen + 1
<1>1. CASE v.stopped /\ v.gen > 0 /\ v.pending = None
  BY <1>1 DEF Stop
<1>2. CASE ~(v.stopped /\ v.gen > 0 /\ v.pending = None)
  <2>1. Stop(v) = [v EXCEPT !.gen = @ + 1, !.stopped = TRUE, !.pending = None]
    BY <1>2 DEF Stop
  <2>2. [v EXCEPT !.gen = @ + 1, !.stopped = TRUE, !.pending = None] \in Ctl
    <3>1. ASSUME NEW n \in Nat
          PROVE  [v EXCEPT !.gen = n, !.stopped = TRUE, !.pending = None] \in Ctl
      BY DEF Ctl
    <3>2. v.gen + 1 \in Nat
      BY DEF Ctl
    <3> QED  BY <3>1, <3>2
  <2> QED  BY <2>1, <2>2 DEF Ctl
<1> QED  BY <1>1, <1>2

(* A stop leaves nothing an approval could still be used for.                *)
LEMMA StopControl ==
    ASSUME IInv, ctl' = Stop(ctl), UNCHANGED <<guarded, approval, sent>>
    PROVE  ControlInv' /\ ctl' \in Ctl /\ ctl'.stopped
<1>1. ctl \in Ctl /\ approval \in [serial : Serial, gen : Nat, valid : BOOLEAN]
  BY DEF IInv, TypeOK, Ctl
<1>2. ctl' \in Ctl /\ ctl'.stopped /\ ctl'.pending = None /\ ctl'.auth = ctl.auth
      /\ (ctl' = ctl \/ ctl'.gen = ctl.gen + 1)
  BY <1>1, StopFacts
<1>3. ctl.gen \in Nat /\ ctl'.gen \in Nat /\ approval.gen \in Nat
      /\ approval.serial \in Nat /\ ctl.auth \in Nat
  BY <1>1, <1>2, BootstrapAssumption DEF Ctl, Serial
<1>4. ControlInv /\ OneWritePerApproval /\ OneWritePerApproval'
  BY DEF IInv, ControlInv, OneWritePerApproval
<1>5. ctl'.stopped /\ ctl'.auth = approval'.serial /\ ctl'.auth > 0
        => approval'.gen < ctl'.gen
  <2>1. CASE ctl' = ctl
    BY <1>2, <1>4, <2>1 DEF ControlInv
  <2>2. CASE ctl'.gen = ctl.gen + 1
    BY <1>3, <1>4, <2>2 DEF ControlInv
  <2> QED  BY <1>2, <2>1, <2>2
<1>6. approval'.gen <= ctl'.gen
  BY <1>2, <1>3, <1>4 DEF ControlInv
<1>7. \A o \in Op, s \in Serial : s > ctl'.auth => sent'[<<o, s>>] = 0
  BY <1>2, <1>4 DEF ControlInv
<1> QED  BY <1>2, <1>4, <1>5, <1>6, <1>7 DEF ControlInv

LEMMA FaultFacts ==
    ASSUME TypeOK, Fault \/ NoFault
    PROVE  faults' \in 0 .. MaxFaults
BY BootstrapAssumption DEF TypeOK, Fault, NoFault

(* What the invariant says of the files, and of a call at its place.         *)
LEMMA CallFacts ==
    ASSUME IInv, NEW c \in Calls
    PROVE  /\ DataOK /\ Call(c) /\ op \in [Calls -> Op] /\ op[c] \in Op
           /\ at[c] \in Place /\ (at[c] \in Inside <=> lock = c)
           /\ lock \in Calls \cup {Nobody} /\ Nobody \notin Calls
BY BootstrapAssumption DEF IInv, TypeOK, DataOK, Ctl, CallInv, Place

LEMMA Places ==
    /\ \A s \in Inside : s \in Place /\ s \notin Outside
    /\ \A s \in Outside : s \in Place /\ s \notin Inside
BY DEF Inside, Outside, Place

-----------------------------------------------------------------------------
(* The steps that change no file *)

LEMMA StepStartRecovery ==
    ASSUME IInv, NEW c \in Calls, StartRecovery(c)
    PROVE  IInv'
<1>1. at[c] = "idle" /\ guarded /\ Goto(c, "entry") /\ UNCHANGED <<store, ctl, lock, op, world>>
      /\ guarded' = guarded
  BY DEF StartRecovery, store
<1>2. faults' \in 0 .. MaxFaults
  BY FaultFacts DEF StartRecovery, IInv
<1>3. lock # c /\ at'[c] = "entry"
  BY <1>1, CallFacts DEF Inside, Goto, IInv, TypeOK
<1>4. Call(c)'
  BY <1>1, <1>3 DEF Call, Open
<1> QED  BY <1>1, <1>2, <1>3, <1>4, Silent, Places DEF Outside

LEMMA StepBegin ==
    ASSUME IInv, NEW c \in Calls, Begin(c)
    PROVE  IInv'
<1>1. at[c] = "begin" /\ UNCHANGED <<store, ctl, op, world>> /\ UNCHANGED guarded
      /\ faults' \in 0 .. MaxFaults /\ at \in [Calls -> Place]
  BY CallFacts DEF Begin, store, DataOK, IInv, TypeOK, Place
<1>2. lock # c /\ guarded
  BY <1>1, CallFacts DEF Inside, Call
<1>3. ASSUME NEW s \in {"handler", "prepare", "fail"}, Goto(c, s) PROVE Call(c)'
  <2>1. at'[c] = s
    BY <1>1, <1>3 DEF Goto
  <2> QED  BY <1>1, <1>2, <2>1 DEF Call, Open
<1>4. CASE Goto(c, "handler") /\ UNCHANGED lock
  BY <1>1, <1>2, <1>3, <1>4, Silent, Places DEF Outside
<1>5. CASE lock = Nobody /\ lock' = c /\ \E s \in {"prepare", "fail"} : Goto(c, s)
  BY <1>1, <1>3, <1>5, Silent, Places DEF Inside
<1> QED  BY <1>4, <1>5 DEF Begin

LEMMA StepPrepareFails ==
    ASSUME IInv, NEW c \in Calls, PrepareFails(c)
    PROVE  IInv'
<1>1. at[c] = "prepare" /\ UNCHANGED <<store, ctl, lock, op, world>> /\ Goto(c, "fail")
      /\ at \in [Calls -> Place]
  BY DEF PrepareFails, IInv, TypeOK, Place
<1>2. faults' \in 0 .. MaxFaults
  BY FaultFacts DEF PrepareFails, IInv
<1>3. lock = c /\ at'[c] = "fail"
  BY <1>1, CallFacts DEF Inside, Goto
<1>4. Call(c)'
  BY <1>3 DEF Call, Open
<1> QED  BY <1>1, <1>2, <1>3, <1>4, Silent, Places DEF Inside

LEMMA StepRevalidate ==
    ASSUME IInv, NEW c \in Calls, Revalidate(c)
    PROVE  IInv'
<1>1. at[c] = "revalidate" /\ UNCHANGED <<store, ctl, lock, op, world>>
      /\ UNCHANGED <<ledger, guarded, sent>> /\ at \in [Calls -> Place]
  BY DEF Revalidate, store, world, IInv, TypeOK, Place
<1>2. faults' \in 0 .. MaxFaults
  BY FaultFacts DEF Revalidate, IInv
<1>3. lock = c /\ Call(c)
  BY <1>1, CallFacts DEF Inside
<1>4. PICK s \in {"reserve", "intent", "fail"} :
        Goto(c, s) /\ (s = "reserve" <=> s # "fail" /\ guarded)
  BY DEF Revalidate
<1>5. at'[c] = s
  BY <1>1, <1>4 DEF Goto
<1>6. Call(c)'
  BY <1>1, <1>3, <1>4, <1>5 DEF Call, Open, IsApplied
<1> QED  BY <1>1, <1>2, <1>3, <1>4, <1>6, Silent, Places DEF Inside

LEMMA StepVerify ==
    ASSUME IInv, NEW c \in Calls, Verify(c)
    PROVE  IInv'
<1>1. at[c] = "verify" /\ UNCHANGED <<store, ctl, lock, op, world>>
      /\ UNCHANGED <<ledger, done>> /\ at \in [Calls -> Place]
  BY DEF Verify, store, world, IInv, TypeOK, Place
<1>2. faults' \in 0 .. MaxFaults
  BY FaultFacts DEF Verify, IInv
<1>3. lock = c /\ Call(c)
  BY <1>1, CallFacts DEF Inside
<1>4. PICK s \in {"applied", "unknown"} : Goto(c, s) /\ (s = "applied" => op[c] \in done)
  BY DEF Verify
<1>5. at'[c] = s
  BY <1>1, <1>4 DEF Goto
<1>6. Call(c)'
  BY <1>1, <1>3, <1>4, <1>5 DEF Call, Open, IsApplied
<1> QED  BY <1>1, <1>2, <1>3, <1>4, <1>6, Silent, Places DEF Inside

LEMMA StepCrash ==
    ASSUME IInv, NEW c \in Calls, Crash(c)
    PROVE  IInv'
<1>1. Goto(c, "idle") /\ UNCHANGED <<store, ctl, op, world>> /\ at \in [Calls -> Place]
      /\ (IF lock = c THEN lock' = Nobody ELSE lock' = lock)
  BY DEF Crash, IInv, TypeOK, Place
<1>2. faults' \in 0 .. MaxFaults
  BY FaultFacts DEF Crash, IInv
<1>3. at'[c] = "idle"
  BY <1>1 DEF Goto
<1>4. Call(c)'
  BY <1>3 DEF Call, Open
<1> QED  BY <1>1, <1>2, <1>4, Silent, Places DEF Outside

-----------------------------------------------------------------------------
(* The steps that change the checkpoint, the artifact or the recovery state  *)

LEMMA KeepsWorld ==
    ASSUME IInv, UNCHANGED <<ledger, done, inflight, landed>>
    PROVE  WorldInv'
BY DEF IInv, WorldInv, IsApplied

(* More in the ledger, and nothing else, leaves an open approval as it is.   *)
LEMMA KeepsControl ==
    ASSUME IInv, UNCHANGED <<guarded, ctl, approval, sent>>,
           \A o \in Op : IsApplied(o) => ledger'[o] = "APPLIED"
    PROVE  ControlInv'
BY DEF IInv, ControlInv, OneWritePerApproval, IsApplied

LEMMA KeepsBound ==
    ASSUME IInv, UNCHANGED bound, ckpt' = "done" => bound,
           \A o \in Op : IsApplied(o) => ledger'[o] = "APPLIED"
    PROVE  BoundInv'
BY DEF IInv, BoundInv, AllApplied, IsApplied

(* A step of c that only stops the approval and may reopen the checkpoint.   *)
LEMMA Stops ==
    ASSUME IInv, NEW c \in Calls, NEW s \in Place, Goto(c, s),
           \/ s \in Inside /\ lock' = c /\ lock \in {c, Nobody}
           \/ s \in Outside /\ lock = c /\ lock' = Nobody
           \/ s \in Outside /\ lock # c /\ lock' = lock,
           UNCHANGED <<bound, ledger, guarded, approval, op, world>>,
           ctl' \in {ctl, Stop(ctl)}, lock \in {c, Nobody} \/ ctl' = ctl,
           ckpt' \in {ckpt, "ready", "pending"} \/ (ckpt' = "done" /\ bound),
           faults' \in 0 .. MaxFaults, Call(c)'
    PROVE  IInv'
<1>1. UNCHANGED <<bound, ledger, guarded, approval, op,
                  done, staged, inflight, landed, sent>>
  BY DEF world
<1>2. ctl' \in Ctl /\ ControlInv'
  <2>1. CASE ctl' = ctl
    BY <1>1, <2>1, KeepsControl DEF IInv, TypeOK, Ctl, IsApplied
  <2>2. CASE ctl' = Stop(ctl)
    BY <1>1, <2>2, StopControl
  <2> QED  BY <2>1, <2>2
<1>3. WorldInv'
  BY <1>1, KeepsWorld
<1>4. BoundInv'
  BY <1>1, KeepsBound DEF IInv, BoundInv, IsApplied
<1>5. DataOK' /\ op' \in [Calls -> Op]
  BY <1>1, <1>2 DEF IInv, TypeOK, DataOK
<1> QED  BY <1>1, <1>2, <1>3, <1>4, <1>5, Alone

LEMMA StepStartFirst ==
    ASSUME IInv, NEW c \in Calls, StartFirst(c)
    PROVE  IInv'
<1>1. /\ at[c] = "idle" /\ lock = Nobody /\ lock' = c /\ Goto(c, "prepare")
      /\ ckpt' = "pending" /\ at \in [Calls -> Place]
      /\ UNCHANGED <<bound, ledger, guarded, approval, ctl, op, world, faults>>
  BY DEF StartFirst, IInv, TypeOK, Place
<1>2. at'[c] = "prepare" /\ faults' \in 0 .. MaxFaults
  BY <1>1 DEF Goto, IInv, TypeOK
<1>3. Call(c)'
  BY <1>2 DEF Call, Open
<1> QED  BY <1>1, <1>2, <1>3, Stops, Places DEF Inside

LEMMA StepBlocked ==
    ASSUME IInv, NEW c \in Calls, Blocked(c)
    PROVE  IInv'
<1>1. /\ at[c] = "prepare" /\ lock' = Nobody /\ Goto(c, "idle")
      /\ ckpt' = "ready" /\ at \in [Calls -> Place]
      /\ UNCHANGED <<bound, ledger, guarded, approval, ctl, op, world>>
  BY DEF Blocked, IInv, TypeOK, Place
<1>2. at'[c] = "idle" /\ faults' \in 0 .. MaxFaults /\ lock = c
  BY <1>1, FaultFacts, CallFacts DEF Blocked, Goto, IInv, Inside
<1>3. Call(c)'
  BY <1>2 DEF Call, Open
<1> QED  BY <1>1, <1>2, <1>3, Stops, Places DEF Outside

LEMMA StepEnter ==
    ASSUME IInv, NEW c \in Calls, Enter(c)
    PROVE  IInv'
<1>1. /\ at[c] = "entry" /\ at \in [Calls -> Place]
      /\ UNCHANGED <<store, lock, op, world, faults>>
      /\ UNCHANGED <<ckpt, bound, ledger, guarded, approval>>
  BY DEF Enter, store, IInv, TypeOK, Place
<1>2. PICK s \in {"handler", "begin"} : Goto(c, s)
  BY DEF Enter
<1>3. ctl' \in {ctl, Stop(ctl)} /\ (lock = Nobody \/ ctl' = ctl)
  BY DEF Enter
<1>4. at'[c] = s /\ faults' \in 0 .. MaxFaults /\ lock # c /\ guarded
  BY <1>1, <1>2, CallFacts DEF Goto, IInv, TypeOK, Inside, Call
<1>5. Call(c)'
  BY <1>1, <1>2, <1>4 DEF Call, Open
<1> QED  BY <1>1, <1>2, <1>3, <1>4, <1>5, Stops, Places DEF Outside

LEMMA StepRecord ==
    ASSUME IInv, NEW c \in Calls, Record(c)
    PROVE  IInv'
<1>1. /\ at[c] = "record" /\ lock' = Nobody /\ Goto(c, "idle")
      /\ ckpt' \in {ckpt, "done"} /\ at \in [Calls -> Place]
      /\ UNCHANGED <<bound, ledger, guarded, approval, ctl, op, world>>
  BY DEF Record, IInv, TypeOK, Place
<1>2. at'[c] = "idle" /\ faults' \in 0 .. MaxFaults /\ lock = c /\ bound
  BY <1>1, FaultFacts, CallFacts DEF Record, Goto, IInv, Inside, Call
<1>3. Call(c)'
  BY <1>2 DEF Call, Open
<1> QED  BY <1>1, <1>2, <1>3, Stops, Places DEF Outside

LEMMA StepAdvance ==
    ASSUME IInv, NEW c \in Calls, Advance(c)
    PROVE  IInv'
<1>1. /\ at[c] = "advance" /\ at \in [Calls -> Place]
      /\ UNCHANGED <<bound, ledger, guarded, approval, lock, op, world>>
      /\ ckpt' \in {ckpt, "done"}
      /\ ctl' \in {ctl, Stop(ctl)} /\ (lock = Nobody \/ ctl' = ctl)
  BY DEF Advance, IInv, TypeOK, Place
<1>4. PICK s \in {"idle", "handler"} : Goto(c, s)
  BY DEF Advance
<1>2. at'[c] = s /\ faults' \in 0 .. MaxFaults /\ lock # c /\ bound /\ guarded
  BY <1>1, <1>4, FaultFacts, CallFacts DEF Advance, Goto, IInv, Inside, Call
<1>3. Call(c)'
  BY <1>1, <1>4, <1>2 DEF Call, Open
<1> QED  BY <1>1, <1>4, <1>2, <1>3, Stops, Places DEF Outside

LEMMA StepFail ==
    ASSUME IInv, NEW c \in Calls, Fail(c)
    PROVE  IInv'
<1>1. /\ at[c] = "fail" /\ lock' = Nobody /\ at \in [Calls -> Place]
      /\ UNCHANGED <<store, op, world, faults>>
      /\ UNCHANGED <<ckpt, bound, ledger, guarded, approval>>
      /\ ctl' \in {ctl, Stop(ctl)}
  BY DEF Fail, store, IInv, TypeOK, Place
<1>2. PICK s \in {"handler", "idle"} : Goto(c, s) /\ (s = "handler" => guarded)
  BY DEF Fail
<1>3. at'[c] = s /\ faults' \in 0 .. MaxFaults /\ lock = c
  BY <1>1, <1>2, CallFacts DEF Goto, IInv, TypeOK, Inside
<1>4. Call(c)'
  BY <1>1, <1>2, <1>3 DEF Call, Open
<1> QED  BY <1>1, <1>2, <1>3, <1>4, Stops, Places DEF Outside

LEMMA StepHandle ==
    ASSUME IInv, NEW c \in Calls, Handle(c)
    PROVE  IInv'
<1>1. /\ at[c] = "handler" /\ Goto(c, "idle") /\ at \in [Calls -> Place]
      /\ UNCHANGED <<bound, ledger, guarded, approval, lock, op, world, faults>>
      /\ ckpt' \in {ckpt, "pending"}
      /\ ctl' \in {ctl, Stop(ctl)} /\ (lock = Nobody \/ ctl' = ctl)
  BY DEF Handle, IInv, TypeOK, Place
<1>2. at'[c] = "idle" /\ faults' \in 0 .. MaxFaults /\ lock # c
  BY <1>1, CallFacts DEF Goto, IInv, TypeOK, Inside
<1>3. Call(c)'
  BY <1>2 DEF Call, Open
<1> QED  BY <1>1, <1>2, <1>3, Stops, Places DEF Outside

LEMMA StepBind ==
    ASSUME IInv, NEW c \in Calls, Bind(c)
    PROVE  IInv'
<1>1. /\ at[c] = "bind" /\ bound' = TRUE /\ at \in [Calls -> Place]
      /\ UNCHANGED <<ckpt, ledger, guarded, approval, ctl, op, world, faults>>
      /\ UNCHANGED <<done, staged, inflight, landed, sent>>
  BY DEF Bind, world, IInv, TypeOK, Place
<1>2. lock = c /\ AllApplied
  BY <1>1, CallFacts DEF Inside, Call
<1>3. PICK s \in {"advance", "record"} :
        Goto(c, s) /\ (s = "advance" => guarded /\ lock' = Nobody)
                   /\ (s = "record" => lock' = lock)
  BY DEF Bind
<1>4. at'[c] = s
  BY <1>1, <1>3 DEF Goto
<1>5. Call(c)'
  BY <1>1, <1>3, <1>4 DEF Call, Open
<1>6. DataOK' /\ op' \in [Calls -> Op]
  BY <1>1 DEF IInv, TypeOK, DataOK, Ctl
<1>7. WorldInv' /\ ControlInv'
  BY <1>1, KeepsWorld, KeepsControl DEF IsApplied
<1>8. BoundInv'
  BY <1>1, <1>2 DEF BoundInv, AllApplied, IsApplied
<1> QED  BY <1>1, <1>2, <1>3, <1>5, <1>6, <1>7, <1>8, Alone, Places DEF Outside, Inside

LEMMA StepResumeFirst ==
    ASSUME IInv, NEW c \in Calls, ResumeFirst(c)
    PROVE  IInv'
<1>1. bound /\ ckpt' = "done"
      /\ UNCHANGED <<bound, ledger, guarded, approval, ctl, lock, at, op, faults,
                     done, staged, inflight, landed, sent>>
  BY DEF ResumeFirst, world
<1>2. WorldInv' /\ BoundInv' /\ ControlInv'
  BY <1>1, KeepsWorld, KeepsBound, KeepsControl DEF IsApplied
<1>3. TypeOK'
  BY <1>1 DEF IInv, TypeOK
<1>4. CallInv'
  BY <1>1 DEF IInv, CallInv, Call, AllApplied, IsApplied
<1> QED  BY <1>2, <1>3, <1>4 DEF IInv

-----------------------------------------------------------------------------
(* The steps that open, reserve and complete under an approval               *)

(* What a new authorization opens has not been sent under: its serial is     *)
(* above the one before, or the approval is still open.                      *)
LEMMA AuthorizedFacts ==
    ASSUME IInv, MayAuthorize, ctl.pending = None, guarded,
           ctl' = Authorized(ctl), UNCHANGED <<guarded, approval, ledger, sent>>
    PROVE  ctl' \in Ctl /\ ControlInv'
<1>1. ctl \in Ctl /\ approval \in [serial : Serial, gen : Nat, valid : BOOLEAN]
      /\ sent \in [Op \X Serial -> Nat]
  BY DEF IInv, TypeOK, Ctl
<1>2. approval.valid /\ approval.gen = ctl.gen /\ approval.serial \in Serial
      /\ approval.serial >= 1 /\ (ctl.auth # approval.serial => ctl.stopped)
  BY <1>1 DEF MayAuthorize, IInv, ControlInv
<1>3. ctl.gen \in Nat /\ ctl.auth \in Nat /\ approval.serial \in Nat /\ ctl.auth \in Serial
  BY <1>1, <1>2, BootstrapAssumption DEF Ctl, Serial
<1>4. ControlInv
  BY DEF IInv
<1>5. CASE ctl.auth = approval.serial
  <2>1. ~ctl.stopped
    BY <1>2, <1>3, <1>4, <1>5 DEF ControlInv
  <2>2. ctl' = [ctl EXCEPT !.stopped = FALSE]
    BY <1>5 DEF Authorized
  <2>3. ctl' = ctl
    BY <1>1, <2>1, <2>2 DEF Ctl
  <2> QED  BY <1>1, <2>3, KeepsControl DEF IsApplied
<1>6. CASE ctl.auth # approval.serial
  <2>1. ctl' = [[ctl EXCEPT !.auth = approval.serial, !.attempts = [o \in Op |-> 0]]
                  EXCEPT !.stopped = FALSE]
    BY <1>6 DEF Authorized
  <2>2. [o \in Op |-> 0] \in [Op -> 0 .. Budget]
    BY BootstrapAssumption
  <2>3. /\ ctl' \in Ctl /\ ctl'.gen = ctl.gen /\ ctl'.auth = approval.serial
        /\ ~ctl'.stopped
    BY <1>1, <1>2, <2>1, <2>2 DEF Ctl
  <2>4. \A o \in Op : sent[<<o, approval.serial>>] = 0
    <3>1. ctl.auth < approval.serial
      BY <1>3, <1>4, <1>6 DEF ControlInv
    <3> QED  BY <1>2, <1>3, <1>4, <3>1 DEF ControlInv
  <2>5. \A o \in Op, s \in Serial : s > approval.serial => sent[<<o, s>>] = 0
    <3>1. \A s \in Serial : s > approval.serial => s > ctl.auth
      BY <1>3, <1>4, BootstrapAssumption DEF ControlInv, Serial
    <3> QED  BY <1>4, <3>1 DEF ControlInv
  <2>6. OneWritePerApproval'
    BY <1>4 DEF ControlInv, OneWritePerApproval
  <2>7. ~ctl'.stopped => /\ ctl'.auth > 0
                         /\ \A o \in Op : sent'[<<o, ctl'.auth>>] > 0
                               => IsApplied(o)' \/ ctl'.pending = o
    BY <1>2, <1>3, <2>3, <2>4
  <2> QED  BY <1>2, <1>3, <1>4, <2>3, <2>5, <2>6, <2>7 DEF ControlInv
<1> QED  BY <1>5, <1>6

LEMMA StepPrepare ==
    ASSUME IInv, NEW c \in Calls, Prepare(c)
    PROVE  IInv'
<1>1. /\ at[c] = "prepare" /\ at \in [Calls -> Place] /\ op \in [Calls -> Op]
      /\ UNCHANGED <<store, lock, world, faults>>
      /\ UNCHANGED <<ckpt, bound, ledger, guarded, approval, done, staged,
                     inflight, landed, sent>>
  BY DEF Prepare, store, world, IInv, TypeOK, Place
<1>2. lock = c
  BY <1>1, CallFacts DEF Inside
<1>3. CASE Goto(c, "fail") /\ UNCHANGED <<ctl, op>>
  <2>1. at'[c] = "fail" /\ faults' \in 0 .. MaxFaults
    BY <1>1, <1>3 DEF Goto, IInv, TypeOK
  <2>2. Call(c)'
    BY <2>1 DEF Call, Open
  <2> QED  BY <1>1, <1>2, <1>3, <2>1, <2>2, Silent, Places DEF Inside
<1>4. CASE /\ ~guarded \/ (ctl.pending = None /\ MayAuthorize)
           /\ ctl' = IF guarded THEN Authorized(ctl) ELSE ctl
           /\ Goto(c, "decide") /\ op' = [op EXCEPT ![c] = Commit]
  <2>1. at'[c] = "decide" /\ op'[c] = 1 /\ op' \in [Calls -> Op]
        /\ \A d \in Calls \ {c} : op'[d] = op[d]
    BY <1>1, <1>4, OpOrder DEF Goto, Commit
  <2>2. Call(c)'
    BY <2>1, OpOrder DEF Call, Open
  <2>3. ctl' \in Ctl /\ ControlInv'
    <3>1. CASE guarded
      BY <1>1, <1>4, <3>1, AuthorizedFacts
    <3>2. CASE ~guarded
      BY <1>1, <1>4, <3>2, KeepsControl DEF IsApplied, IInv, TypeOK, Ctl
    <3> QED  BY <3>1, <3>2
  <2>4. DataOK'
    BY <1>1, <2>3 DEF IInv, TypeOK, DataOK
  <2>5. WorldInv' /\ BoundInv'
    BY <1>1, KeepsWorld, KeepsBound DEF IsApplied, IInv, BoundInv
  <2> QED  BY <1>1, <1>2, <1>4, <2>1, <2>2, <2>3, <2>4, <2>5, Alone, Places
           DEF Inside
<1> QED  BY <1>3, <1>4 DEF Prepare

LEMMA StepReserve ==
    ASSUME IInv, NEW c \in Calls, Reserve(c)
    PROVE  IInv'
<1>1. /\ at[c] = "reserve" /\ at \in [Calls -> Place] /\ op \in [Calls -> Op]
      /\ UNCHANGED <<store, lock, op, world>>
      /\ UNCHANGED <<ckpt, bound, ledger, guarded, approval, done, staged,
                     inflight, landed, sent>>
      /\ ctl \in Ctl /\ sent \in [Op \X Serial -> Nat]
  BY DEF Reserve, store, world, IInv, TypeOK, Place, Ctl
<1>2. lock = c /\ Call(c) /\ op[c] \in Op
  BY <1>1, CallFacts DEF Inside
<1>3. faults' \in 0 .. MaxFaults
  BY FaultFacts DEF Reserve, Answer, IInv
<1>4. CASE ctl' = Stop(ctl) /\ Goto(c, "unknown")
  <2>1. at'[c] = "unknown"
    BY <1>1, <1>4 DEF Goto
  <2>2. Call(c)'
    BY <1>1, <1>2, <2>1 DEF Call, Open, IsApplied
  <2> QED  BY <1>1, <1>2, <1>3, <1>4, <2>2, Stops, Places DEF Inside
<1>5. CASE /\ Refresh /\ ctl.pending = None /\ ctl.attempts[op[c]] < Budget
           /\ ctl' = [ctl EXCEPT !.attempts[op[c]] = @ + 1, !.pending = op[c]]
           /\ Goto(c, "intent")
  <2>1. at'[c] = "intent"
    BY <1>1, <1>5 DEF Goto
  <2>2. [ctl.attempts EXCEPT ![op[c]] = @ + 1] \in [Op -> 0 .. Budget]
    BY <1>1, <1>2, <1>5, BootstrapAssumption DEF Ctl
  <2>3. PICK f \in [Op -> 0 .. Budget], q \in Op :
          ctl' = [ctl EXCEPT !.attempts = f, !.pending = q] /\ q = op[c]
    BY <1>2, <1>5, <2>2
  <2>4. /\ ctl' \in Ctl /\ ctl'.gen = ctl.gen /\ ctl'.auth = ctl.auth
        /\ ctl'.stopped = ctl.stopped /\ ctl'.pending = op[c]
    BY <1>1, <2>3 DEF Ctl
  <2>5. ~ctl.stopped /\ ctl.auth \in Serial /\ sent[<<op[c], ctl.auth>>] \in Nat
        /\ ~IsApplied(op[c]) /\ ctl.pending # op[c]
    BY <1>1, <1>2, <1>5, OpOrder DEF Refresh, Ctl, Call, Open
  <2>6. \A o \in Op : sent[<<o, ctl.auth>>] > 0 => IsApplied(o)
    BY <1>5, <2>5, OpOrder DEF IInv, ControlInv
  <2>7. sent[<<op[c], ctl.auth>>] = 0
    BY <1>2, <2>5, <2>6
  <2>8. Call(c)'
    BY <1>1, <1>2, <2>1, <2>4, <2>5, <2>7 DEF Call, Open, IsApplied
  <2>9. ControlInv'
    BY <1>1, <2>4, <2>5, <2>6 DEF IInv, ControlInv, OneWritePerApproval, IsApplied
  <2>10. DataOK'
    BY <1>1, <1>3, <2>4 DEF IInv, TypeOK, DataOK
  <2>11. WorldInv' /\ BoundInv'
    BY <1>1, KeepsWorld, KeepsBound DEF IsApplied, IInv, BoundInv
  <2> QED  BY <1>1, <1>2, <1>5, <2>4, <2>8, <2>9, <2>10, <2>11, Alone, Places
           DEF Inside
<1> QED  BY <1>4, <1>5 DEF Reserve

(* To the next operation, or to the binding once all three are recorded.     *)
LEMMA Proceeds ==
    ASSUME IInv, NEW c \in Calls, Proceed(c), UNCHANGED guarded,
           \A p \in Op : p <= op[c] => ledger'[p] = "APPLIED"
    PROVE  /\ \E s \in {"bind", "decide"} : Goto(c, s)
           /\ op' \in [Calls -> Op] /\ \A d \in Calls \ {c} : op'[d] = op[d]
           /\ Call(c)'
<1>1. at \in [Calls -> Place] /\ op \in [Calls -> Op] /\ op[c] \in {1, 2, 3}
  BY OpOrder DEF IInv, TypeOK, Place
<1>2. CASE op[c] = CreatePR /\ Goto(c, "bind") /\ UNCHANGED op
  <2>1. at'[c] = "bind"
    BY <1>1, <1>2 DEF Goto
  <2>2. AllApplied'
    BY <1>2, OpOrder DEF AllApplied, IsApplied, CreatePR
  <2> QED  BY <1>1, <1>2, <2>1, <2>2 DEF Call, Open
<1>3. CASE op[c] # CreatePR /\ Goto(c, "decide") /\ op' = [op EXCEPT ![c] = @ + 1]
  <2>1. at'[c] = "decide" /\ op'[c] = op[c] + 1 /\ op'[c] \in Op
        /\ op' \in [Calls -> Op] /\ \A d \in Calls \ {c} : op'[d] = op[d]
    BY <1>1, <1>3, OpOrder DEF Goto, CreatePR
  <2>2. \A p \in Op : p < op'[c] => ledger'[p] = "APPLIED"
    BY <1>1, <2>1, OpOrder
  <2> QED  BY <1>3, <2>1, <2>2 DEF Call, Open, IsApplied
<1> QED  BY <1>2, <1>3 DEF Proceed

LEMMA StepComplete ==
    ASSUME IInv, NEW c \in Calls, Complete(c)
    PROVE  IInv'
<1>1. /\ at[c] = "complete" /\ at \in [Calls -> Place] /\ op \in [Calls -> Op]
      /\ UNCHANGED <<store, lock, world, faults>>
      /\ UNCHANGED <<ckpt, bound, ledger, guarded, approval, done, staged,
                     inflight, landed, sent>>
      /\ ctl \in Ctl
  BY DEF Complete, store, world, IInv, TypeOK, Place, Ctl
<1>2. lock = c /\ Call(c) /\ op[c] \in Op
  BY <1>1, CallFacts DEF Inside
<1>3. CASE Goto(c, "fail") /\ UNCHANGED <<ctl, op>>
  <2>1. at'[c] = "fail" /\ faults' \in 0 .. MaxFaults
    BY <1>1, <1>3 DEF Goto, IInv, TypeOK
  <2>2. Call(c)'
    BY <2>1 DEF Call, Open
  <2> QED  BY <1>1, <1>2, <1>3, <2>1, <2>2, Silent, Places DEF Inside
<1>4. CASE /\ ~ctl.stopped /\ ctl.pending = op[c]
           /\ ctl' = [ctl EXCEPT !.pending = None] /\ Proceed(c)
  <2>1. /\ ctl' \in Ctl /\ ctl'.gen = ctl.gen /\ ctl'.auth = ctl.auth
        /\ ctl'.stopped = ctl.stopped /\ ctl'.pending = None
    BY <1>1, <1>4 DEF Ctl
  <2>2. \A p \in Op : p <= op[c] => ledger'[p] = "APPLIED"
    BY <1>1, <1>2, OpOrder DEF Call, IsApplied
  <2>3. /\ \E s \in {"bind", "decide"} : Goto(c, s)
        /\ op' \in [Calls -> Op] /\ \A d \in Calls \ {c} : op'[d] = op[d]
        /\ Call(c)'
    BY <1>1, <1>4, <2>2, Proceeds
  <2>4. ControlInv'
    BY <1>1, <1>2, <1>4, <2>1
       DEF IInv, ControlInv, OneWritePerApproval, IsApplied, Call
  <2>5. DataOK'
    BY <1>1, <2>1 DEF IInv, TypeOK, DataOK
  <2>6. WorldInv' /\ BoundInv'
    BY <1>1, KeepsWorld, KeepsBound DEF IsApplied, IInv, BoundInv
  <2> QED  BY <1>1, <1>2, <2>3, <2>4, <2>5, <2>6, Alone, Places DEF Inside
<1> QED  BY <1>3, <1>4 DEF Complete

-----------------------------------------------------------------------------
(* The steps that change the ledger *)

(* The operation of c becomes APPLIED after it took effect.                  *)
LEMMA Records ==
    ASSUME IInv, NEW c \in Calls, lock = c,
           op[c] \in done, \A p \in Op : p < op[c] => IsApplied(p),
           ledger' = [ledger EXCEPT ![op[c]] = "APPLIED"],
           UNCHANGED <<ckpt, bound, guarded, approval, ctl, lock, world>>,
           faults' \in 0 .. MaxFaults
    PROVE  /\ DataOK' /\ WorldInv' /\ BoundInv' /\ ControlInv'
           /\ \A p \in Op : p <= op[c] => ledger'[p] = "APPLIED"
<1>1. UNCHANGED <<done, staged, inflight, landed, sent>>
  BY DEF world
<1>2. op[c] \in Op /\ ledger \in [Op -> {"none", "INTENT", "UNKNOWN", "APPLIED"}]
  BY DEF IInv, TypeOK
<1>3. /\ ledger' \in [Op -> {"none", "INTENT", "UNKNOWN", "APPLIED"}]
      /\ ledger'[op[c]] = "APPLIED"
      /\ \A o \in Op : IsApplied(o) => ledger'[o] = "APPLIED"
      /\ \A o \in Op : ledger'[o] = "APPLIED" => o = op[c] \/ IsApplied(o)
  BY <1>2 DEF IsApplied
<1>4. DataOK'
  BY <1>1, <1>3 DEF IInv, TypeOK, DataOK, Ctl
<1>5. WorldInv'
  BY <1>1, <1>2, <1>3 DEF IInv, WorldInv, IsApplied
<1>6. BoundInv' /\ ControlInv'
  BY <1>1, <1>3, KeepsBound, KeepsControl DEF IInv, BoundInv
<1>7. \A p \in Op : p <= op[c] => ledger'[p] = "APPLIED"
  BY <1>2, <1>3, OpOrder
<1> QED  BY <1>4, <1>5, <1>6, <1>7

(* An operation that is not APPLIED gets another status.                     *)
LEMMA Marks ==
    ASSUME IInv, NEW c \in Calls, lock = c, ~IsApplied(op[c]),
           NEW s \in {"INTENT", "UNKNOWN"},
           ledger' = [ledger EXCEPT ![op[c]] = s],
           UNCHANGED <<ckpt, bound, guarded, approval, lock, world, faults>>,
           ctl' \in {ctl, Stop(ctl)}
    PROVE  /\ DataOK' /\ WorldInv' /\ BoundInv' /\ ControlInv'
           /\ \A o \in Op : ledger'[o] = "APPLIED" <=> IsApplied(o)
<1>1. UNCHANGED <<done, staged, inflight, landed, sent>>
  BY DEF world
<1>2. op[c] \in Op /\ ledger \in [Op -> {"none", "INTENT", "UNKNOWN", "APPLIED"}]
  BY DEF IInv, TypeOK
<1>3. /\ ledger' \in [Op -> {"none", "INTENT", "UNKNOWN", "APPLIED"}]
      /\ \A o \in Op : ledger'[o] = "APPLIED" <=> IsApplied(o)
  BY <1>2 DEF IsApplied
<1>4. ctl' \in Ctl /\ ControlInv'
  <2>1. CASE ctl' = ctl
    BY <1>1, <1>3, <2>1, KeepsControl DEF IInv, TypeOK, Ctl
  <2>2. CASE ctl' = Stop(ctl)
    BY <1>1, <2>2, StopControl
  <2> QED  BY <2>1, <2>2
<1>5. DataOK'
  BY <1>1, <1>3, <1>4 DEF IInv, TypeOK, DataOK
<1>6. WorldInv'
  BY <1>1, <1>3 DEF IInv, WorldInv, IsApplied
<1>7. BoundInv'
  BY <1>1, <1>3, KeepsBound DEF IInv, BoundInv
<1> QED  BY <1>3, <1>4, <1>5, <1>6, <1>7

LEMMA StepIntent ==
    ASSUME IInv, NEW c \in Calls, Intent(c)
    PROVE  IInv'
<1>1. /\ at[c] = "intent" /\ Goto(c, "write")
      /\ ledger' = [ledger EXCEPT ![op[c]] = "INTENT"]
      /\ UNCHANGED <<ckpt, bound, guarded, approval, ctl, lock, op, world, faults>>
      /\ UNCHANGED <<done, sent>>
      /\ at \in [Calls -> Place] /\ op \in [Calls -> Op]
  BY DEF Intent, world, IInv, TypeOK, Place
<1>2. lock = c /\ Call(c) /\ ~IsApplied(op[c]) /\ op[c] \in Op
  BY <1>1, CallFacts DEF Inside, Call, Open
<1>3. /\ DataOK' /\ WorldInv' /\ BoundInv' /\ ControlInv'
      /\ \A o \in Op : ledger'[o] = "APPLIED" <=> IsApplied(o)
  BY <1>1, <1>2, Marks
<1>4. at'[c] = "write"
  BY <1>1 DEF Goto
<1>5. Call(c)'
  BY <1>1, <1>2, <1>3, <1>4 DEF Call, Open, IsApplied
<1> QED  BY <1>1, <1>2, <1>3, <1>5, Alone, Places DEF Inside

LEMMA StepUnknown ==
    ASSUME IInv, NEW c \in Calls, Unknown(c)
    PROVE  IInv'
<1>1. /\ at[c] = "unknown" /\ Goto(c, "fail") /\ ctl' \in {ctl, Stop(ctl)}
      /\ ledger' = [ledger EXCEPT ![op[c]] = "UNKNOWN"]
      /\ UNCHANGED <<ckpt, bound, guarded, approval, lock, op, world, faults>>
      /\ UNCHANGED done
      /\ at \in [Calls -> Place] /\ op \in [Calls -> Op]
  BY DEF Unknown, world, IInv, TypeOK, Place
<1>2. lock = c /\ Call(c) /\ ~IsApplied(op[c])
  BY <1>1, CallFacts DEF Inside, Call, Open
<1>3. DataOK' /\ WorldInv' /\ BoundInv' /\ ControlInv'
  BY <1>1, <1>2, Marks
<1>4. at'[c] = "fail"
  BY <1>1 DEF Goto
<1>5. Call(c)'
  BY <1>4 DEF Call, Open
<1> QED  BY <1>1, <1>2, <1>3, <1>5, Alone, Places DEF Inside

LEMMA StepApplied ==
    ASSUME IInv, NEW c \in Calls, Applied(c)
    PROVE  IInv'
<1>1. /\ at[c] = "applied" /\ ledger' = [ledger EXCEPT ![op[c]] = "APPLIED"]
      /\ UNCHANGED <<ckpt, bound, guarded, approval, ctl, lock, world, faults>>
      /\ UNCHANGED done
      /\ at \in [Calls -> Place] /\ op \in [Calls -> Op]
      /\ faults' \in 0 .. MaxFaults
  BY DEF Applied, world, IInv, TypeOK, Place
<1>2. lock = c /\ Call(c) /\ op[c] \in done
      /\ \A p \in Op : p < op[c] => IsApplied(p)
  BY <1>1, CallFacts DEF Inside, Call, Open
<1>3. /\ DataOK' /\ WorldInv' /\ BoundInv' /\ ControlInv'
      /\ \A p \in Op : p <= op[c] => ledger'[p] = "APPLIED"
  BY <1>1, <1>2, Records
<1>4. CASE guarded /\ Goto(c, "complete") /\ UNCHANGED op
  <2>1. at'[c] = "complete"
    BY <1>1, <1>4 DEF Goto
  <2>2. Call(c)'
    BY <1>1, <1>3, <1>4, <2>1, OpOrder DEF Call, Open, IsApplied
  <2> QED  BY <1>1, <1>2, <1>3, <1>4, <2>2, Alone, Places DEF Inside
<1>5. CASE Proceed(c)
  <2>1. /\ \E s \in {"bind", "decide"} : Goto(c, s)
        /\ op' \in [Calls -> Op] /\ \A d \in Calls \ {c} : op'[d] = op[d]
        /\ Call(c)'
    BY <1>1, <1>3, <1>5, Proceeds
  <2> QED  BY <1>1, <1>2, <1>3, <2>1, Alone, Places DEF Inside
<1> QED  BY <1>1, <1>4, <1>5 DEF Applied

(* Only an operation the world holds is answered as APPLIED.                 *)
LEMMA AppliedIsDone ==
    ASSUME NEW o \in Op, Answer(o, "APPLIED")
    PROVE  o \in done
BY DEF Answer, Truth

LEMMA StepDecide ==
    ASSUME IInv, NEW c \in Calls, Decide(c)
    PROVE  IInv'
<1> DEFINE o == op[c]
<1>1. /\ at[c] = "decide"
      /\ UNCHANGED <<ckpt, bound, guarded, approval, lock, world>>
      /\ UNCHANGED <<done, staged, inflight, landed, sent>>
      /\ at \in [Calls -> Place] /\ op \in [Calls -> Op]
  BY DEF Decide, world, IInv, TypeOK, Place
<1>2. lock = c /\ Call(c) /\ op[c] \in Op /\ \A p \in Op : p < op[c] => IsApplied(p)
  BY <1>1, CallFacts DEF Inside, Call
<1>3. faults' \in 0 .. MaxFaults
  BY FaultFacts DEF Decide, Answer, IInv
<1>4. CASE ledger[o] # "APPLIED" /\ Goto(c, "revalidate") /\ UNCHANGED <<op, ledger, ctl>>
  <2>1. at'[c] = "revalidate"
    BY <1>1, <1>4 DEF Goto
  <2>2. Call(c)'
    BY <1>1, <1>2, <1>4, <2>1 DEF Call, Open, IsApplied
  <2>3. UNCHANGED <<store, ctl, op, world>>
    BY <1>1, <1>4 DEF store
  <2> QED  BY <1>1, <1>2, <1>3, <1>4, <2>2, <2>3, Silent, Places DEF Inside
<1>5. CASE Goto(c, "fail") /\ ctl' \in {ctl, Stop(ctl)} /\ UNCHANGED <<op, ledger>>
  <2>1. at'[c] = "fail"
    BY <1>1, <1>5 DEF Goto
  <2>2. Call(c)'
    BY <2>1 DEF Call, Open
  <2> QED  BY <1>1, <1>2, <1>3, <1>5, <2>2, Stops, Places DEF Inside
<1>6. CASE ledger[o] = "APPLIED" /\ Proceed(c) /\ UNCHANGED <<ledger, ctl>>
  <2>1. \A p \in Op : p <= op[c] => ledger'[p] = "APPLIED"
    BY <1>2, <1>6, OpOrder DEF IsApplied
  <2>2. /\ \E s \in {"bind", "decide"} : Goto(c, s)
        /\ op' \in [Calls -> Op] /\ \A d \in Calls \ {c} : op'[d] = op[d]
        /\ Call(c)'
    BY <1>1, <1>6, <2>1, Proceeds
  <2>3. DataOK'
    BY <1>1, <1>3, <1>6 DEF IInv, TypeOK, DataOK, Ctl
  <2>4. WorldInv' /\ BoundInv' /\ ControlInv'
    BY <1>1, <1>6, KeepsWorld, KeepsBound, KeepsControl DEF IsApplied, IInv, BoundInv
  <2> QED  BY <1>1, <1>2, <1>6, <2>2, <2>3, <2>4, Alone, Places DEF Inside
<1>7. CASE /\ Answer(o, "APPLIED") /\ ledger' = [ledger EXCEPT ![o] = "APPLIED"]
           /\ Proceed(c) /\ UNCHANGED ctl
  <2>1. op[c] \in done
    BY <1>2, <1>7, AppliedIsDone
  <2>2. /\ DataOK' /\ WorldInv' /\ BoundInv' /\ ControlInv'
        /\ \A p \in Op : p <= op[c] => ledger'[p] = "APPLIED"
    BY <1>1, <1>2, <1>3, <1>7, <2>1, Records
  <2>3. /\ \E s \in {"bind", "decide"} : Goto(c, s)
        /\ op' \in [Calls -> Op] /\ \A d \in Calls \ {c} : op'[d] = op[d]
        /\ Call(c)'
    BY <1>1, <1>7, <2>2, Proceeds
  <2> QED  BY <1>1, <1>2, <1>7, <2>2, <2>3, Alone, Places DEF Inside
<1> QED  BY <1>4, <1>5, <1>6, <1>7 DEF Decide

-----------------------------------------------------------------------------
(* The steps of the world *)

LEMMA LandFacts ==
    ASSUME IInv, NEW o \in Op, Land(o)
    PROVE  /\ done' \subseteq Op /\ done \subseteq done' /\ landed' \in [Op -> Nat]
           /\ \A p \in Op : landed'[p] > 0 <=> p \in done'
<1>1. landed \in [Op -> Nat] /\ done \subseteq Op /\ \A p \in Op : landed[p] > 0 <=> p \in done
  BY DEF IInv, TypeOK, WorldInv
<1>2. CASE UNCHANGED <<done, landed>>
  BY <1>1, <1>2
<1>3. CASE done' = done \cup {o} /\ landed' = [landed EXCEPT ![o] = @ + 1]
  <2>1. landed[o] + 1 > 0 /\ landed[o] + 1 \in Nat
    BY <1>1
  <2> QED  BY <1>1, <1>3, <2>1
<1> QED  BY <1>2, <1>3 DEF Land

(* The one write of the operation under the open approval.                   *)
LEMMA WriteControl ==
    ASSUME IInv, NEW c \in Calls, at[c] = "write", MayWrite(op[c]),
           sent' = [sent EXCEPT ![<<op[c], IF guarded THEN ctl.auth ELSE 0>>] = @ + 1],
           UNCHANGED <<ledger, guarded, ctl, approval>>
    PROVE  ControlInv' /\ sent' \in [Op \X Serial -> Nat]
<1>1. sent \in [Op \X Serial -> Nat] /\ ctl \in Ctl /\ op[c] \in Op /\ Call(c)
      /\ approval \in [serial : Serial, gen : Nat, valid : BOOLEAN]
  BY CallFacts DEF IInv, TypeOK, Ctl
<1>2. ctl.auth \in Serial /\ 0 \in Serial /\ \A s \in Serial : s \in Nat
  BY <1>1, BootstrapAssumption DEF Ctl, Serial
<1>3. PICK s \in Serial : s = (IF guarded THEN ctl.auth ELSE 0)
  BY <1>2
<1>4. sent' = [sent EXCEPT ![<<op[c], s>>] = @ + 1]
  BY <1>3
<1>5. /\ sent' \in [Op \X Serial -> Nat]
      /\ sent'[<<op[c], s>>] = sent[<<op[c], s>>] + 1
      /\ \A p \in Op, r \in Serial :
            p # op[c] \/ r # s => sent'[<<p, r>>] = sent[<<p, r>>]
  BY <1>1, <1>4
<1>6. ControlInv
  BY DEF IInv
<1>7. CASE guarded
  <2>1. s = ctl.auth /\ ~ctl.stopped /\ ctl.pending = op[c] /\ sent[<<op[c], s>>] = 0
    BY <1>1, <1>3, <1>7 DEF Call
  <2>2. OneWritePerApproval'
    <3>1. ASSUME NEW p \in Op, NEW r \in Serial \ {0} PROVE sent'[<<p, r>>] <= 1
      <4>1. CASE p = op[c] /\ r = s
        BY <1>5, <2>1, <4>1
      <4>2. CASE p # op[c] \/ r # s
        BY <1>5, <1>6, <4>2 DEF ControlInv, OneWritePerApproval
      <4> QED  BY <4>1, <4>2
    <3> QED  BY <3>1 DEF OneWritePerApproval
  <2>3. \A p \in Op, r \in Serial : r > ctl.auth => sent'[<<p, r>>] = 0
    BY <1>2, <1>5, <1>6, <2>1 DEF ControlInv
  <2>4. \A p \in Op : sent'[<<p, ctl.auth>>] > 0 => IsApplied(p) \/ ctl.pending = p
    BY <1>2, <1>5, <1>6, <2>1 DEF ControlInv
  <2> QED  BY <1>5, <1>6, <2>2, <2>3, <2>4 DEF ControlInv, IsApplied
<1>8. CASE ~guarded
  <2>1. s = 0 /\ ctl.auth = 0 /\ ctl.stopped
    BY <1>3, <1>6, <1>8 DEF ControlInv
  <2>2. OneWritePerApproval'
    BY <1>5, <1>6, <2>1 DEF ControlInv, OneWritePerApproval
  <2>3. ASSUME NEW p \in Op, NEW r \in Serial, r > ctl.auth
        PROVE  sent'[<<p, r>>] = 0
    <3>1. r # s
      BY <1>2, <2>1, <2>3
    <3>2. sent'[<<p, r>>] = sent[<<p, r>>]
      BY <1>5, <3>1
    <3> QED  BY <1>6, <2>3, <3>2 DEF ControlInv
  <2> QED  BY <1>5, <1>6, <1>8, <2>1, <2>2, <2>3 DEF ControlInv
<1> QED  BY <1>7, <1>8

LEMMA StepWrite ==
    ASSUME IInv, NEW c \in Calls, Write(c)
    PROVE  IInv'
<1>1. /\ at[c] = "write" /\ at \in [Calls -> Place] /\ op \in [Calls -> Op]
      /\ UNCHANGED <<store, ctl, lock, op>>
      /\ UNCHANGED <<ckpt, bound, ledger, guarded, approval>>
      /\ done \subseteq Op /\ inflight \subseteq Op /\ landed \in [Op -> Nat]
      /\ staged \in BOOLEAN
  BY DEF Write, store, IInv, TypeOK, Place
<1>2. lock = c /\ Call(c) /\ op[c] \in Op /\ ~IsApplied(op[c])
      /\ \A p \in Op : p < op[c] => IsApplied(p)
  BY <1>1, CallFacts DEF Inside, Call, Open
<1>3. faults' \in 0 .. MaxFaults
  BY FaultFacts DEF Write, IInv
<1>4. CASE Goto(c, "unknown") /\ UNCHANGED world
  <2>1. at'[c] = "unknown"
    BY <1>1, <1>4 DEF Goto
  <2>2. Call(c)'
    BY <1>1, <1>2, <2>1 DEF Call, Open, IsApplied
  <2> QED  BY <1>1, <1>2, <1>3, <1>4, <2>2, Silent, Places DEF Inside
<1>5. CASE /\ MayWrite(op[c]) /\ Goto(c, "verify")
           /\ sent' = [sent EXCEPT ![<<op[c], IF guarded THEN ctl.auth ELSE 0>>] = @ + 1]
           /\ Land(op[c]) \/ UNCHANGED <<done, landed>>
           /\ inflight' \in {inflight, inflight \cup {op[c]}}
           /\ staged' \in BOOLEAN
  <2>1. ControlInv' /\ sent' \in [Op \X Serial -> Nat]
    BY <1>1, <1>5, WriteControl
  <2>2. /\ done' \subseteq Op /\ done \subseteq done' /\ landed' \in [Op -> Nat]
        /\ \A p \in Op : landed'[p] > 0 <=> p \in done'
    <3>1. CASE Land(op[c])
      BY <1>2, <3>1, LandFacts
    <3>2. CASE UNCHANGED <<done, landed>>
      BY <1>1, <3>2 DEF IInv, WorldInv
    <3> QED  BY <1>5, <3>1, <3>2
  <2>3. DataOK'
    BY <1>1, <1>2, <1>3, <1>5, <2>1, <2>2 DEF IInv, TypeOK, DataOK, Ctl
  <2>4. WorldInv'
    BY <1>1, <1>2, <1>5, <2>2 DEF IInv, WorldInv, IsApplied
  <2>5. BoundInv'
    BY <1>1, KeepsBound DEF IInv, BoundInv, IsApplied
  <2>6. at'[c] = "verify"
    BY <1>1, <1>5 DEF Goto
  <2>7. Call(c)'
    BY <1>1, <1>2, <2>6 DEF Call, Open, IsApplied
  <2> QED  BY <1>1, <1>2, <1>5, <2>1, <2>2, <2>3, <2>4, <2>5, <2>7, Alone, Places
           DEF Inside
<1>6. (op[c] = Commit) \in BOOLEAN
  OBVIOUS
<1> QED  BY <1>1, <1>4, <1>5, <1>6 DEF Write

LEMMA StepLandLate ==
    ASSUME IInv, NEW o \in Op, LandLate(o)
    PROVE  IInv'
<1>1. /\ inflight' = inflight \ {o} /\ Land(o)
      /\ UNCHANGED <<store, ctl, lock, at, op, staged, sent, faults>>
      /\ UNCHANGED <<ckpt, bound, ledger, guarded, approval>>
  BY DEF LandLate, store
<1>2. /\ done' \subseteq Op /\ done \subseteq done' /\ landed' \in [Op -> Nat]
      /\ \A p \in Op : landed'[p] > 0 <=> p \in done'
  BY <1>1, LandFacts
<1>3. TypeOK'
  BY <1>1, <1>2 DEF IInv, TypeOK
<1>4. WorldInv'
  BY <1>1, <1>2 DEF IInv, WorldInv, IsApplied
<1>5. BoundInv' /\ ControlInv'
  BY <1>1, KeepsBound, KeepsControl DEF IInv, BoundInv, IsApplied
<1>6. CallInv'
  BY <1>1, <1>2 DEF IInv, CallInv, Call, AllApplied, IsApplied
<1> QED  BY <1>3, <1>4, <1>5, <1>6 DEF IInv

-----------------------------------------------------------------------------
(* The steps of the owner *)

LEMMA StepInstall ==
    ASSUME IInv, Install
    PROVE  IInv'
<1>1. /\ ~guarded /\ guarded' = TRUE /\ \A c \in Calls : at[c] = "idle"
      /\ UNCHANGED <<ckpt, bound, ledger, approval, ctl, lock, at, op, faults,
                     done, staged, inflight, landed, sent>>
  BY DEF Install, Quiet, world
<1>2. TypeOK' /\ WorldInv' /\ BoundInv'
  BY <1>1, KeepsWorld, KeepsBound DEF IInv, TypeOK, BoundInv, IsApplied
<1>3. CallInv'
  BY <1>1 DEF CallInv, Call, Open
<1>4. ControlInv'
  BY <1>1 DEF IInv, ControlInv, OneWritePerApproval, IsApplied
<1> QED  BY <1>2, <1>3, <1>4 DEF IInv

LEMMA StepApprove ==
    ASSUME IInv, Approve
    PROVE  IInv'
<1>1. /\ approval' = [serial |-> approval.serial + 1, gen |-> ctl.gen, valid |-> TRUE]
      /\ approval.serial < MaxApprovals
      /\ UNCHANGED <<ckpt, bound, ledger, guarded, ctl, lock, at, op,
                     done, staged, inflight, landed, sent>>
  BY DEF Approve, world
<1>2. faults' \in 0 .. MaxFaults
  BY FaultFacts DEF Approve, IInv
<1>3. approval.serial \in Nat /\ ctl.gen \in Nat /\ ctl.auth \in Nat
      /\ ctl.auth <= approval.serial
  BY BootstrapAssumption DEF IInv, TypeOK, ControlInv, Serial
<1>4. approval' \in [serial : Serial, gen : Nat, valid : BOOLEAN]
      /\ approval'.serial = approval.serial + 1 /\ approval'.gen = ctl.gen
  <2>1. approval.serial + 1 \in Serial
    BY <1>1, <1>3, BootstrapAssumption DEF Serial
  <2> QED  BY <1>1, <1>3, <2>1
<1>5. TypeOK'
  BY <1>1, <1>2, <1>4 DEF IInv, TypeOK
<1>6. WorldInv' /\ BoundInv'
  BY <1>1, KeepsWorld, KeepsBound DEF IInv, BoundInv, IsApplied
<1>7. CallInv'
  BY <1>1 DEF IInv, CallInv, Call, AllApplied, IsApplied
<1>8. ControlInv'
  <2>1. ctl.auth # approval'.serial /\ ctl.auth <= approval'.serial
        /\ approval'.gen <= ctl.gen /\ approval'.serial >= 1
    BY <1>3, <1>4
  <2> QED  BY <1>1, <2>1 DEF IInv, ControlInv, OneWritePerApproval, IsApplied
<1> QED  BY <1>5, <1>6, <1>7, <1>8 DEF IInv

LEMMA StepRevoke ==
    ASSUME IInv, Revoke
    PROVE  IInv'
<1>1. /\ approval' = [approval EXCEPT !.valid = FALSE]
      /\ UNCHANGED <<ckpt, bound, ledger, guarded, ctl, lock, at, op,
                     done, staged, inflight, landed, sent>>
  BY DEF Revoke, world
<1>2. faults' \in 0 .. MaxFaults
  BY FaultFacts DEF Revoke, IInv
<1>3. approval' \in [serial : Serial, gen : Nat, valid : BOOLEAN]
      /\ approval'.serial = approval.serial /\ approval'.gen = approval.gen
      /\ ~approval'.valid
  BY <1>1 DEF IInv, TypeOK
<1>4. TypeOK'
  BY <1>1, <1>2, <1>3 DEF IInv, TypeOK
<1>5. WorldInv' /\ BoundInv'
  BY <1>1, KeepsWorld, KeepsBound DEF IInv, BoundInv, IsApplied
<1>6. CallInv'
  BY <1>1 DEF IInv, CallInv, Call, AllApplied, IsApplied
<1>7. ControlInv'
  BY <1>1, <1>3 DEF IInv, ControlInv, OneWritePerApproval, IsApplied
<1> QED  BY <1>4, <1>5, <1>6, <1>7 DEF IInv

LEMMA StepOwnerStop ==
    ASSUME IInv, OwnerStop
    PROVE  IInv'
<1>1. /\ lock = Nobody /\ ctl' = Stop(ctl)
      /\ UNCHANGED <<ckpt, bound, ledger, guarded, approval, lock, at, op,
                     done, staged, inflight, landed, sent>>
  BY DEF OwnerStop, store, world
<1>2. faults' \in 0 .. MaxFaults
  BY FaultFacts DEF OwnerStop, IInv
<1>3. ControlInv' /\ ctl' \in Ctl
  BY <1>1, StopControl
<1>4. TypeOK'
  BY <1>1, <1>2, <1>3 DEF IInv, TypeOK, Ctl
<1>5. WorldInv' /\ BoundInv'
  BY <1>1, KeepsWorld, KeepsBound DEF IInv, BoundInv, IsApplied
<1>6. \A c \in Calls : at[c] \notin Inside
  BY <1>1, CallFacts
<1>7. CallInv'
  BY <1>1, <1>6 DEF IInv, CallInv, Call, AllApplied, IsApplied, Open, Inside
<1> QED  BY <1>3, <1>4, <1>5, <1>7 DEF IInv

LEMMA StepSame ==
    ASSUME IInv, staged' \in BOOLEAN,
           UNCHANGED <<ckpt, bound, ledger, guarded, approval, ctl, lock, at, op,
                       done, inflight, landed, sent, faults>>
    PROVE  IInv'
<1>1. TypeOK' /\ WorldInv' /\ BoundInv' /\ ControlInv'
  BY KeepsWorld, KeepsBound, KeepsControl DEF IInv, TypeOK, BoundInv, IsApplied
<1>2. CallInv'
  BY DEF IInv, CallInv, Call, AllApplied, IsApplied
<1> QED  BY <1>1, <1>2 DEF IInv

-----------------------------------------------------------------------------
(* The theorems *)

LEMMA InitIInv == Init => IInv
<1> SUFFICES ASSUME Init PROVE IInv
  OBVIOUS
<1>1. 0 \in Serial /\ 0 \in 0 .. MaxFaults /\ 0 \in 0 .. Budget /\ Commit \in Op
  BY BootstrapAssumption DEF Serial, Op
<1>2. [o \in Op |-> 0] \in [Op -> 0 .. Budget] /\ None \in Op \cup {None}
      /\ [o \in Op |-> 0] \in [Op -> Nat]
      /\ [x \in Op \X Serial |-> 0] \in [Op \X Serial -> Nat]
  BY <1>1
<1>3. ctl \in Ctl
  BY <1>1, <1>2 DEF Init, Ctl, None
<1>4. approval \in [serial : Serial, gen : Nat, valid : BOOLEAN]
  BY <1>1 DEF Init
<1>5. "idle" \notin Inside /\ "idle" \in Outside
  BY DEF Inside, Outside
<1>6. TypeOK
  <2>1. ckpt \in {"ready", "pending", "done"} /\ bound \in BOOLEAN
        /\ ledger \in [Op -> {"none", "INTENT", "UNKNOWN", "APPLIED"}]
        /\ guarded \in BOOLEAN
    BY DEF Init
  <2>2. /\ lock \in Calls \cup {Nobody} /\ op \in [Calls -> Op]
        /\ at \in [Calls -> Outside \cup Inside]
        /\ \A c \in Calls : at[c] \in Inside <=> lock = c
    BY <1>1, <1>5, BootstrapAssumption DEF Init
  <2>3. /\ done \subseteq Op /\ staged \in BOOLEAN /\ inflight \subseteq Op
        /\ landed \in [Op -> Nat] /\ sent \in [Op \X Serial -> Nat]
        /\ faults \in 0 .. MaxFaults
    BY <1>1, <1>2 DEF Init
  <2> QED  BY <1>3, <1>4, <2>1, <2>2, <2>3 DEF TypeOK, Ctl
<1>7. CallInv
  BY DEF Init, CallInv, Call, Open
<1>8. WorldInv /\ BoundInv
  BY DEF Init, WorldInv, BoundInv, IsApplied
<1>9. ControlInv
  <2>1. ctl.stopped /\ ctl.auth = 0 /\ ctl.gen = 0 /\ approval.gen = 0
        /\ approval.serial = 0 /\ ~approval.valid
    BY DEF Init, None
  <2>2. \A o \in Op, s \in Serial : sent[<<o, s>>] = 0
    BY DEF Init
  <2> QED  BY <2>1, <2>2 DEF ControlInv, OneWritePerApproval
<1> QED  BY <1>6, <1>7, <1>8, <1>9 DEF IInv

LEMMA StepIInv == IInv /\ [Next]_vars => IInv'
<1> SUFFICES ASSUME IInv, [Next]_vars PROVE IInv'
  OBVIOUS
<1>1. CASE UNCHANGED vars
  BY <1>1, StepSame DEF vars, store, world, IInv, TypeOK
<1>2. ASSUME NEW c \in Calls, Start(c) PROVE IInv'
  BY <1>2, StepStartFirst, StepResumeFirst, StepStartRecovery DEF Start
<1>3. ASSUME NEW c \in Calls, Deliver(c) PROVE IInv'
  BY <1>3, StepDecide, StepRevalidate, StepReserve, StepIntent, StepWrite,
     StepVerify, StepUnknown, StepApplied, StepComplete DEF Deliver
<1>4. ASSUME NEW c \in Calls, Step(c) PROVE IInv'
  BY <1>3, <1>4, StepEnter, StepBegin, StepPrepare, StepPrepareFails, StepBlocked,
     StepBind, StepRecord, StepAdvance, StepFail, StepHandle DEF Step
<1>5. ASSUME NEW c \in Calls, Crash(c) PROVE IInv'
  BY <1>5, StepCrash
<1>6. ASSUME NEW o \in Op, LandLate(o) PROVE IInv'
  BY <1>6, StepLandLate
<1>7. CASE Install \/ Approve \/ Revoke \/ OwnerStop
  BY <1>7, StepInstall, StepApprove, StepRevoke, StepOwnerStop
<1>8. CASE Unstage
  BY <1>8, StepSame DEF Unstage, store
<1> QED  BY <1>1, <1>2, <1>4, <1>5, <1>6, <1>7, <1>8 DEF Next

LEMMA Invariance == Spec => []IInv
BY InitIInv, StepIInv, PTL DEF Spec

(* Every variable is what the code stores there, and a call runs the body of *)
(* the bootstrap exactly while it holds the lock of the effect.              *)
THEOREM TypeCorrect == Spec => []TypeOK
<1>1. IInv => TypeOK
  BY DEF IInv
<1> QED  BY <1>1, Invariance, PTL

(* OneWritePerApproval: an approval buys at most one write of each operation, *)
(* for any budget it names, any number of overlapping calls, crashes and     *)
(* late answers.                                                             *)
THEOREM ApprovalBuysOneWrite == Spec => []OneWritePerApproval
<1>1. IInv => OneWritePerApproval
  BY DEF IInv, ControlInv
<1> QED  BY <1>1, Invariance, PTL

(* BoundIsReal: the checkpoint and the artifact name the pull request only   *)
(* when commit, push and pull request are in the world and in the ledger.    *)
THEOREM BoundIsAlwaysReal == Spec => []BoundIsReal
<1>1. IInv => BoundIsReal
  BY DEF IInv, BoundInv, WorldInv, TypeOK, BoundIsReal, AllApplied, IsApplied
<1> QED  BY <1>1, Invariance, PTL

(* StopEndsApproval: after a stop, whoever made it, only another approval    *)
(* opens the recovery again.                                                 *)
THEOREM StopsAreFinal == Spec => StopEndsApproval
<1>1. ASSUME IInv, [Next]_vars
      PROVE  [ctl.stopped /\ ~ctl'.stopped => ctl'.auth # ctl.auth]_vars
  <2> SUFFICES ASSUME ctl.stopped, ~ctl'.stopped
               PROVE  ctl'.auth # ctl.auth
    OBVIOUS
  <2>1. ctl \in Ctl /\ ctl' # ctl /\ ctl' # Stop(ctl)
    <3>1. ctl \in Ctl
      BY <1>1 DEF IInv, TypeOK, Ctl
    <3> QED  BY <3>1, StopFacts
  <2>2. PICK c \in Calls : Prepare(c) \/ Reserve(c) \/ Complete(c)
    <3>1. ~UNCHANGED vars
      BY <2>1 DEF vars
    <3>2. ASSUME NEW c \in Calls, Step(c)
          PROVE  Prepare(c) \/ Reserve(c) \/ Complete(c)
      BY <2>1, <3>2 DEF Step, Deliver, Enter, Begin, PrepareFails, Blocked,
         Decide, Revalidate, Intent, Write, Verify, Unknown, Applied,
         Bind, Record, Advance, Fail, Handle
    <3>3. ASSUME NEW c \in Calls PROVE ~Start(c) /\ ~Crash(c)
      BY <2>1 DEF Start, StartFirst, ResumeFirst, StartRecovery, Crash
    <3>4. \A o \in Op : ~LandLate(o)
      BY <2>1 DEF LandLate
    <3>5. ~Install /\ ~Approve /\ ~Revoke /\ ~OwnerStop /\ ~Unstage
      BY <2>1 DEF Install, Approve, Revoke, OwnerStop, Unstage
    <3> QED  BY <1>1, <3>1, <3>2, <3>3, <3>4, <3>5 DEF Next
  <2>3. ~Reserve(c) /\ ~Complete(c)
    BY <2>1 DEF Reserve, Complete, Refresh
  <2>4. MayAuthorize /\ ctl' = Authorized(ctl)
    BY <2>1, <2>2, <2>3 DEF Prepare
  <2>5. approval.serial >= 1 /\ approval.gen = ctl.gen /\ ctl.gen \in Nat
    BY <1>1, <2>1, <2>4 DEF MayAuthorize, IInv, ControlInv, Ctl
  <2>6. ctl.auth # approval.serial
    <3>1. approval.serial \in Nat
      BY <1>1, BootstrapAssumption DEF IInv, TypeOK, Serial
    <3>2. ctl.stopped /\ ctl.auth = approval.serial /\ ctl.auth > 0
            => approval.gen < ctl.gen
      BY <1>1 DEF IInv, ControlInv
    <3> QED  BY <2>5, <3>1, <3>2
  <2>7. ctl' = [[ctl EXCEPT !.auth = approval.serial, !.attempts = [o \in Op |-> 0]]
                  EXCEPT !.stopped = FALSE]
    BY <2>4, <2>6 DEF Authorized
  <2>8. ctl'.auth = approval.serial
    BY <2>1, <2>7 DEF Ctl
  <2> QED  BY <2>6, <2>8
<1> QED  BY <1>1, Invariance, PTL DEF Spec, StopEndsApproval

-----------------------------------------------------------------------------
(* The chain of the phases *)

(* The operations that are recorded are the first ones: counting them gives  *)
(* the last.                                                                 *)
LEMMA CountsPrefix ==
    ASSUME NEW L,
           \A o, p \in Op : p < o /\ L[o] = "APPLIED" => L[p] = "APPLIED"
    PROVE  /\ Cardinality({o \in Op : L[o] = "APPLIED"}) \in 0 .. 3
           /\ \A o \in Op : L[o] = "APPLIED"
                            <=> o <= Cardinality({p \in Op : L[p] = "APPLIED"})
<1> DEFINE A == {o \in Op : L[o] = "APPLIED"}
<1>1. A \in {{}, {1}, {1, 2}, {1, 2, 3}}
  BY OpOrder
<1>2. IsFiniteSet({}) /\ Cardinality({}) = 0
  BY FS_EmptySet
<1>3. IsFiniteSet({1}) /\ Cardinality({1}) = 1
  BY FS_Singleton
<1>4. IsFiniteSet({1, 2}) /\ Cardinality({1, 2}) = 2
  <2>1. {1, 2} = {1} \cup {2} /\ 2 \notin {1}
    OBVIOUS
  <2> QED  BY <1>3, <2>1, FS_AddElement
<1>5. Cardinality({1, 2, 3}) = 3
  <2>1. {1, 2, 3} = {1, 2} \cup {3} /\ 3 \notin {1, 2}
    OBVIOUS
  <2> QED  BY <1>4, <2>1, FS_AddElement
<1>6. Cardinality(A) \in 0 .. 3 /\ \A o \in Op : o \in A <=> o <= Cardinality(A)
  <2>1. CASE A = {}
    BY <1>2, <2>1, OpOrder
  <2>2. CASE A = {1}
    BY <1>3, <2>2, OpOrder
  <2>3. CASE A = {1, 2}
    BY <1>4, <2>3, OpOrder
  <2>4. CASE A = {1, 2, 3}
    BY <1>5, <2>4, OpOrder
  <2> QED  BY <1>1, <2>1, <2>2, <2>3, <2>4
<1> QED  BY <1>6

Recorded == Cardinality({o \in Op : ledger[o] = "APPLIED"})

LEMMA RecordedFacts ==
    /\ IInv => Recorded \in 0 .. 3 /\ \A o \in Op : IsApplied(o) <=> o <= Recorded
    /\ IInv' => Recorded' \in 0 .. 3
                /\ \A o \in Op : ledger'[o] = "APPLIED" <=> o <= Recorded'
<1>1. IInv => \A o, p \in Op : p < o /\ ledger[o] = "APPLIED" => ledger[p] = "APPLIED"
  BY DEF IInv, WorldInv, IsApplied
<1>2. IInv' => \A o, p \in Op : p < o /\ ledger'[o] = "APPLIED" => ledger'[p] = "APPLIED"
  BY DEF IInv, WorldInv, IsApplied
<1> QED  BY <1>1, <1>2, CountsPrefix DEF Recorded, IsApplied

LEMMA ChainStutter ==
    ASSUME \A o \in Op : ledger'[o] = "APPLIED" <=> IsApplied(o), landed' = landed
    PROVE  UNCHANGED <<Recorded, landed>>
<1>1. {o \in Op : ledger'[o] = "APPLIED"} = {o \in Op : ledger[o] = "APPLIED"}
  BY DEF IsApplied
<1> QED  BY <1>1 DEF Recorded

LEMMA ChainRecord ==
    ASSUME IInv, IInv', NEW o \in Op, o \in done, ~IsApplied(o),
           \A p \in Op : p < o => IsApplied(p),
           ledger' = [ledger EXCEPT ![o] = "APPLIED"], landed' = landed
    PROVE  Chain!Record
<1>1. ledger \in [Op -> {"none", "INTENT", "UNKNOWN", "APPLIED"}] /\ landed[o] > 0
  BY DEF IInv, TypeOK, WorldInv
<1>2. /\ Recorded \in 0 .. 3 /\ Recorded' \in 0 .. 3
      /\ \A p \in Op : IsApplied(p) <=> p <= Recorded
      /\ \A p \in Op : ledger'[p] = "APPLIED" <=> p <= Recorded'
  BY RecordedFacts
<1>3. \A p \in Op : ledger'[p] = "APPLIED" <=> p = o \/ IsApplied(p)
  BY <1>1 DEF IsApplied
<1>4. o = Recorded + 1
  BY <1>2, OpOrder
<1>5. Recorded' = Recorded + 1 /\ Recorded < 3
  BY <1>2, <1>3, <1>4, OpOrder
<1> QED  BY <1>1, <1>4, <1>5 DEF Chain!Record, Recorded

LEMMA ChainLand ==
    ASSUME IInv, NEW o \in Op, Land(o), landed' # landed, ledger' = ledger,
           \A p \in Op : p < o => IsApplied(p)
    PROVE  \E p \in 1 .. 3 : Chain!Effect(p)
<1>1. /\ landed' = [landed EXCEPT ![o] = @ + 1] /\ Takes(o)
      /\ landed \in [Op -> Nat] /\ \A p \in Op : landed[p] > 0 <=> p \in done
      /\ (IsApplied(o) => o \in done)
  BY DEF Land, IInv, TypeOK, WorldInv
<1>2. Recorded \in 0 .. 3 /\ \A p \in Op : IsApplied(p) <=> p <= Recorded
  BY RecordedFacts
<1>3. Recorded' = Recorded
  BY DEF Recorded
<1>4. o <= Recorded + 1
  BY <1>2, OpOrder
<1>5. o # Push => o = Recorded + 1 /\ landed[o] = 0
  <2> SUFFICES ASSUME o # Push PROVE o = Recorded + 1 /\ landed[o] = 0
    OBVIOUS
  <2>1. o \notin done /\ ~IsApplied(o) /\ landed[o] \in Nat
    BY <1>1 DEF Takes
  <2> QED  BY <1>1, <1>2, <1>4, <2>1, OpOrder
<1>6. Chain!Effect(o)
  BY <1>1, <1>3, <1>4, <1>5 DEF Chain!Effect, Recorded
<1> QED  BY <1>6, OpOrder

LEMMA ChainSteps ==
    ASSUME IInv, IInv', [Next]_vars
    PROVE  [Chain!Next]_<<Recorded, landed>>
<1>1. CASE UNCHANGED <<ledger, landed>>
  BY <1>1, ChainStutter DEF IsApplied
<1>2. ASSUME NEW c \in Calls, Decide(c) \/ Applied(c),
             ~UNCHANGED <<ledger, landed>>
      PROVE  [Chain!Next]_<<Recorded, landed>>
  <2>1. /\ at[c] \in {"decide", "applied"} /\ op[c] \in Op /\ landed' = landed
        /\ ledger' = [ledger EXCEPT ![op[c]] = "APPLIED"] /\ op[c] \in done
    <3>1. op[c] \in Op /\ Call(c)
      BY CallFacts
    <3>2. CASE Decide(c)
      <4>1. ledger' # ledger /\ landed' = landed
        BY <1>2, <3>2 DEF Decide, world
      <4>2. Answer(op[c], "APPLIED") /\ ledger' = [ledger EXCEPT ![op[c]] = "APPLIED"]
        BY <3>2, <4>1 DEF Decide
      <4> QED  BY <3>1, <3>2, <4>1, <4>2, AppliedIsDone DEF Decide
    <3>3. CASE Applied(c)
      BY <3>1, <3>3 DEF Applied, Call, world
    <3> QED  BY <1>2, <3>2, <3>3
  <2>2. \A p \in Op : p < op[c] => IsApplied(p)
    BY <2>1, CallFacts DEF Call, Open
  <2>3. ~IsApplied(op[c])
    <3>1. ledger' # ledger /\ ledger \in [Op -> {"none", "INTENT", "UNKNOWN", "APPLIED"}]
      BY <1>2, <2>1 DEF IInv, TypeOK
    <3> QED  BY <2>1, <3>1 DEF IsApplied
  <2>4. Chain!Record
    BY <2>1, <2>2, <2>3, ChainRecord
  <2> QED  BY <2>4 DEF Chain!Next
<1>3. ASSUME NEW c \in Calls, Intent(c) \/ Unknown(c)
      PROVE  [Chain!Next]_<<Recorded, landed>>
  <2>1. PICK s \in {"INTENT", "UNKNOWN"} :
          ledger' = [ledger EXCEPT ![op[c]] = s]
    BY <1>3 DEF Intent, Unknown
  <2>2. ~IsApplied(op[c]) /\ landed' = landed
        /\ ledger \in [Op -> {"none", "INTENT", "UNKNOWN", "APPLIED"}]
    BY <1>3, CallFacts DEF Intent, Unknown, Call, Open, world, IInv, TypeOK
  <2>3. \A o \in Op : ledger'[o] = "APPLIED" <=> IsApplied(o)
    BY <2>1, <2>2 DEF IsApplied
  <2> QED  BY <2>2, <2>3, ChainStutter
<1>4. ASSUME NEW o \in Op, Land(o), ledger' = ledger, landed' # landed,
             \A p \in Op : p < o => IsApplied(p)
      PROVE  [Chain!Next]_<<Recorded, landed>>
  BY <1>4, ChainLand DEF Chain!Next
<1>5. ASSUME NEW c \in Calls, Write(c), ~UNCHANGED <<ledger, landed>>
      PROVE  [Chain!Next]_<<Recorded, landed>>
  <2>1. /\ at[c] = "write" /\ ledger' = ledger /\ landed' # landed
        /\ Land(op[c])
    BY <1>5 DEF Write, store, world
  <2>2. op[c] \in Op /\ \A p \in Op : p < op[c] => IsApplied(p)
    BY <2>1, CallFacts DEF Call, Open
  <2> QED  BY <1>4, <2>1, <2>2
<1>6. ASSUME NEW o \in Op, LandLate(o), ~UNCHANGED <<ledger, landed>>
      PROVE  [Chain!Next]_<<Recorded, landed>>
  <2>1. o \in inflight /\ Land(o) /\ ledger' = ledger /\ landed' # landed
    BY <1>6 DEF LandLate, store
  <2>2. \A p \in Op : p < o => IsApplied(p)
    BY <2>1 DEF IInv, WorldInv
  <2> QED  BY <1>4, <2>1, <2>2
<1>7. CASE ~UNCHANGED <<ledger, landed>>
  <2>1. \/ \E c \in Calls : \/ Decide(c) \/ Applied(c) \/ Intent(c)
                            \/ Unknown(c) \/ Write(c)
        \/ \E o \in Op : LandLate(o)
    <3>1. ASSUME NEW c \in Calls, Step(c)
          PROVE  Decide(c) \/ Applied(c) \/ Intent(c) \/ Unknown(c) \/ Write(c)
      BY <1>7, <3>1 DEF Step, Deliver, Enter, Begin, Prepare, PrepareFails, Blocked,
         Revalidate, Reserve, Verify, Complete, Bind, Record, Advance, Fail,
         Handle, store, world
    <3>2. ASSUME NEW c \in Calls PROVE ~Start(c) /\ ~Crash(c)
      BY <1>7 DEF Start, StartFirst, ResumeFirst, StartRecovery, Crash, store, world
    <3>3. ~Install /\ ~Approve /\ ~Revoke /\ ~OwnerStop /\ ~Unstage /\ ~UNCHANGED vars
      BY <1>7 DEF Install, Approve, Revoke, OwnerStop, Unstage, vars, store, world
    <3> QED  BY <1>7, <3>1, <3>2, <3>3 DEF Next
  <2> QED  BY <1>2, <1>3, <1>5, <1>6, <1>7, <2>1
<1> QED  BY <1>1, <1>7

(* ImplementsPhaseChain: commit, push and pull request take effect in their  *)
(* order, each is recorded after it took effect, and only the push can take  *)
(* effect again, over calls that overlap and writes that land late.          *)
THEOREM BootstrapImplementsChain == Spec => ImplementsPhaseChain
<1>1. Init => Chain!Init
  <2> SUFFICES ASSUME Init PROVE Chain!Init
    OBVIOUS
  <2>1. {o \in Op : ledger[o] = "APPLIED"} = {}
    BY DEF Init
  <2>2. Cardinality({o \in Op : ledger[o] = "APPLIED"}) = 0
    BY <2>1, FS_EmptySet
  <2>3. Op = 1 .. 3 /\ landed = [o \in Op |-> 0]
    BY OpOrder DEF Init
  <2> QED  BY <2>2, <2>3 DEF Chain!Init
<1>2. IInv /\ IInv' /\ [Next]_vars => [Chain!Next]_<<Recorded, landed>>
  BY ChainSteps
<1> QED  BY <1>1, <1>2, Invariance, PTL
         DEF Spec, ImplementsPhaseChain, Chain!Spec, Recorded
================================================================================

----------------------------- MODULE Bootstrap -----------------------------
(***************************************************************************)
(* The bootstrap of a task: commit the reviewed snapshot, push it, open the*)
(* pull request (tools/agent_epic_bootstrap.py), each through deliver() of *)
(* tools/agent_epic_delivery.py with its ledger, and the recovery of a     *)
(* partial bootstrap under owner approvals (tools/agent_epic_recovery.py,  *)
(* ADR-284) that follows when the first call stopped halfway.              *)
(*                                                                         *)
(* A call dies at any step; a write that was sent may take effect after the*)
(* call that sent it ended; any read may fail.  The ledger, the recovery   *)
(* state, the artifact and the checkpoint are four files, each replaced    *)
(* atomically, so a call dies between any two of them.                     *)
(*                                                                         *)
(* Data abstraction: an operation is its position in the fixed order, its  *)
(* request and receipt are exact or the answer is UNKNOWN; an approval is  *)
(* its serial number (its digest) with the generation it names; `valid`    *)
(* stands for its time window, the mandate and the bindings it is checked  *)
(* against.  PermissionDenied is raised by no transport, so the status     *)
(* FAILED does not occur.                                                  *)
(***************************************************************************)
EXTENDS Naturals, FiniteSets

CONSTANTS
    Calls,        \* calls of resume() that may overlap
    Nobody,       \* the lock is free
    Budget,       \* attempts an approval grants to each operation: 1 to 3
    MaxApprovals, \* bound: approvals the owner issues
    MaxFaults     \* bound: crashes, failed reads, lost writes, overlaps

ASSUME BootstrapAssumption ==
    /\ Nobody \notin Calls
    /\ Budget \in 1 .. 3
    /\ MaxApprovals \in Nat /\ MaxFaults \in Nat

VARIABLES
    ckpt,     \* epic-loop-checkpoint.json: RUN_TASK not begun, pending or completed
    bound,    \* the reviewed artifact holds the delivery identity
    ledger,   \* delivery-ledger.json: the status of each operation
    guarded,  \* the recovery profile is installed
    ctl,      \* bootstrap-recovery.json
    approval, \* bootstrap-recovery-approval.json with its pinned digest
    lock,     \* the call holding the lock of the effect
    at, op,   \* what each call does next, and for which operation
    done,     \* the world: operations that took effect
    staged,   \* the world: the index holds the snapshot, the branch does not yet
    inflight, \* the world: writes that may still take effect
    landed,   \* history: how often each operation took effect
    sent,     \* history: writes of each operation under each approval
    faults    \* history, for MaxFaults

store == <<ckpt, bound, ledger, guarded, approval>>
world == <<done, staged, inflight, landed, sent>>
vars  == <<store, ctl, lock, at, op, world, faults>>

Commit == 1
Push == 2
CreatePR == 3
Op == {Commit, Push, CreatePR}
None == 0
Serial == 0 .. MaxApprovals

Outside == {"idle", "entry", "begin", "advance", "handler"}
Inside  == {"prepare", "decide", "revalidate", "reserve", "intent", "write",
            "verify", "applied", "complete", "bind", "record", "unknown", "fail"}

(* Every variable is what the code stores there, and a call runs the body of *)
(* the bootstrap exactly while it holds the lock.                            *)
TypeOK ==
    /\ ckpt \in {"ready", "pending", "done"} /\ bound \in BOOLEAN
    /\ ledger \in [Op -> {"none", "INTENT", "UNKNOWN", "APPLIED"}]
    /\ guarded \in BOOLEAN
    /\ ctl \in [gen : Nat, stopped : BOOLEAN, auth : Serial,
                attempts : [Op -> 0 .. Budget], pending : Op \cup {None}]
    /\ approval \in [serial : Serial, gen : Nat, valid : BOOLEAN]
    /\ lock \in Calls \cup {Nobody}
    /\ at \in [Calls -> Outside \cup Inside] /\ op \in [Calls -> Op]
    /\ done \subseteq Op /\ staged \in BOOLEAN /\ inflight \subseteq Op
    /\ landed \in [Op -> Nat] /\ sent \in [Op \X Serial -> Nat]
    /\ faults \in 0 .. MaxFaults
    /\ \A c \in Calls : at[c] \in Inside <=> lock = c

Init ==
    /\ ckpt = "ready" /\ bound = FALSE
    /\ ledger = [o \in Op |-> "none"]
    /\ guarded = FALSE
    /\ ctl = [gen |-> 0, stopped |-> TRUE, auth |-> None,
              attempts |-> [o \in Op |-> 0], pending |-> None]
    /\ approval = [serial |-> 0, gen |-> 0, valid |-> FALSE]
    /\ lock = Nobody
    /\ at = [c \in Calls |-> "idle"] /\ op = [c \in Calls |-> Commit]
    /\ done = {} /\ staged = FALSE /\ inflight = {}
    /\ landed = [o \in Op |-> 0]
    /\ sent = [x \in Op \X Serial |-> 0]
    /\ faults = 0

Quiet == \A c \in Calls : at[c] = "idle"
Goto(c, s) == at' = [at EXCEPT ![c] = s]
Fault == faults < MaxFaults /\ faults' = faults + 1
NoFault == UNCHANGED faults

-----------------------------------------------------------------------------
(* tools/agent_epic_recovery.py *)

(* Mutant: a stop keeps the generation, so the approval stays usable. *)
StopSameGeneration(v) == [v EXCEPT !.stopped = TRUE, !.pending = None]

(* Mutant: a stop keeps the reservation. *)
StopKeepsPending(v) ==
    IF v.stopped /\ v.gen > 0 THEN v ELSE [v EXCEPT !.gen = @ + 1, !.stopped = TRUE]

(* Control.stop(). *)
Stop(v) ==
    IF v.stopped /\ v.gen > 0 /\ v.pending = None THEN v
    ELSE [v EXCEPT !.gen = @ + 1, !.stopped = TRUE, !.pending = None]

(* command_entry(): the read-only check of the approval before the child. *)
EntryOK ==
    /\ ctl.pending = None
    /\ approval.valid /\ approval.gen = ctl.gen

(* Control.authorize() after its pending check. *)
MayAuthorize ==
    /\ approval.valid /\ approval.gen = ctl.gen
    /\ ctl.auth # approval.serial => ctl.stopped

Authorized(v) ==
    [IF v.auth = approval.serial THEN v
     ELSE [v EXCEPT !.auth = approval.serial, !.attempts = [o \in Op |-> 0]]
        EXCEPT !.stopped = FALSE]

(* BootstrapRecovery.refresh(). *)
Refresh ==
    /\ ~ctl.stopped
    /\ approval.valid
    /\ approval.serial = ctl.auth /\ approval.gen = ctl.gen

(* What the reconciliation of an operation proves when its reads succeed: the *)
(* recovery asks for a remote operation only once the commit is proved, and a *)
(* snapshot left in the index is no state the commit can be told from.       *)
Truth(o) ==
    IF o \in done THEN "APPLIED"
    ELSE IF o = Commit /\ staged THEN "UNKNOWN"
    ELSE IF guarded /\ o # Commit /\ Commit \notin done THEN "UNKNOWN"
    ELSE "NOT_APPLIED"

(* The answer of a reconciliation; a failed read makes it UNKNOWN. *)
Answer(o, a) ==
    \/ a = Truth(o) /\ NoFault
    \/ a = "UNKNOWN" /\ Truth(o) # a /\ Fault

-----------------------------------------------------------------------------
(* resume(): the first call, and the calls of the recovery *)

(* advance() saves the intent under its lock and runs the effect there.  The *)
(* checks of _run() before its first write end the call with PhaseBlocked,   *)
(* which clears the intent.                                                  *)
StartFirst(c) ==
    /\ at[c] = "idle" /\ ~guarded /\ ckpt = "ready" /\ lock = Nobody
    /\ lock' = c /\ ckpt' = "pending" /\ Goto(c, "prepare")
    /\ UNCHANGED <<bound, ledger, guarded, approval, ctl, op, world, faults>>

Blocked(c) ==
    /\ at[c] = "prepare" /\ ~guarded /\ Fault
    /\ ckpt' = "ready" /\ lock' = Nobody /\ Goto(c, "idle")
    /\ UNCHANGED <<bound, ledger, guarded, approval, ctl, op, world>>

(* Without the recovery profile a pending RUN_TASK is completed only from the *)
(* delivery identity in the artifact; otherwise the call escalates.          *)
ResumeFirst(c) ==
    /\ at[c] = "idle" /\ ~guarded /\ ckpt = "pending" /\ lock = Nobody /\ bound
    /\ ckpt' = "done"
    /\ UNCHANGED <<bound, ledger, guarded, approval, ctl, lock, at, op, world, faults>>

(* The owner installs the profile over a stopped bootstrap. *)
Install ==
    /\ ~guarded /\ ckpt = "pending" /\ ~bound
    /\ Quiet
    /\ guarded' = TRUE
    /\ UNCHANGED <<ckpt, bound, ledger, approval, ctl, lock, at, op, world, faults>>

(* resume() has loaded a checkpoint with the intent of RUN_TASK; a call that *)
(* overlaps another one counts as a fault.                                   *)
StartRecovery(c) ==
    /\ at[c] = "idle" /\ guarded /\ ckpt = "pending"
    /\ IF Quiet THEN NoFault ELSE Fault
    /\ Goto(c, "entry")
    /\ UNCHANGED <<store, ctl, lock, op, world>>

(* command_entry() fails when the lock is held, too. *)
Enter(c) ==
    /\ at[c] = "entry"
    /\ IF lock # Nobody THEN Goto(c, "handler") /\ UNCHANGED ctl
       ELSE /\ ctl' = IF ctl.pending # None THEN Stop(ctl) ELSE ctl
            /\ Goto(c, IF EntryOK THEN "begin" ELSE "handler")
    /\ UNCHANGED <<store, lock, op, world, faults>>

(* CommandRuntimeAdapter.effect() checks the entry again, and the bootstrap  *)
(* takes the lock, loads the checkpoint and asks for the approval.           *)
Begin(c) ==
    /\ at[c] = "begin"
    /\ IF lock # Nobody \/ ~EntryOK
       THEN Goto(c, "handler") /\ UNCHANGED lock
       ELSE lock' = c /\ Goto(c, IF ckpt = "pending" THEN "prepare" ELSE "fail")
    /\ UNCHANGED <<store, ctl, op, world, faults>>

(* The checks of _run() and BootstrapRecovery.prepare(); a check that fails  *)
(* in the recovery stops the approval.                                       *)
Prepare(c) ==
    /\ at[c] = "prepare"
    /\ IF ~guarded \/ (ctl.pending = None /\ MayAuthorize)
       THEN /\ ctl' = IF guarded THEN Authorized(ctl) ELSE ctl
            /\ Goto(c, "decide") /\ op' = [op EXCEPT ![c] = Commit]
       ELSE Goto(c, "fail") /\ UNCHANGED <<ctl, op>>
    /\ UNCHANGED <<store, lock, world, faults>>

PrepareFails(c) ==
    /\ at[c] = "prepare" /\ guarded /\ Fault
    /\ Goto(c, "fail")
    /\ UNCHANGED <<store, ctl, lock, op, world>>

-----------------------------------------------------------------------------
(* deliver() for the operation of the call *)

(* To the next operation, or to the binding of the pull request. *)
Proceed(c) ==
    IF op[c] = CreatePR THEN Goto(c, "bind") /\ UNCHANGED op
    ELSE Goto(c, "decide") /\ op' = [op EXCEPT ![c] = @ + 1]

(* An operation the ledger holds as APPLIED is verified by the recovery; one *)
(* with an uncertain outcome is reconciled.                                  *)
Decide(c) ==
    /\ at[c] = "decide"
    /\ LET o == op[c] IN
       \/ /\ ledger[o] = "none"
          /\ Goto(c, "revalidate") /\ NoFault /\ UNCHANGED <<op, ledger, ctl>>
       \/ /\ ledger[o] = "APPLIED" /\ UNCHANGED ledger
          /\ \E a \in {"APPLIED", "NOT_APPLIED", "UNKNOWN"} :
                /\ Answer(o, a)
                /\ IF ~guarded \/ a = "APPLIED" THEN Proceed(c) /\ UNCHANGED ctl
                   ELSE Goto(c, "fail") /\ ctl' = Stop(ctl) /\ UNCHANGED op
       \/ /\ ledger[o] \in {"INTENT", "UNKNOWN"}
          /\ \E a \in {"APPLIED", "NOT_APPLIED", "UNKNOWN"} :
                /\ Answer(o, a)
                /\ \/ /\ a = "APPLIED"
                      /\ ledger' = [ledger EXCEPT ![o] = "APPLIED"]
                      /\ Proceed(c) /\ UNCHANGED ctl
                   \/ /\ a = "NOT_APPLIED"
                      /\ Goto(c, "revalidate") /\ UNCHANGED <<op, ledger, ctl>>
                   \/ /\ a = "UNKNOWN" /\ Goto(c, "fail")
                      /\ ctl' = IF guarded THEN Stop(ctl) ELSE ctl
                      /\ UNCHANGED <<op, ledger>>
    /\ UNCHANGED <<ckpt, bound, guarded, approval, lock, world>>

(* live_revalidate() and the second look at binding and mandate. *)
Revalidate(c) ==
    /\ at[c] = "revalidate"
    /\ \/ /\ guarded => Refresh
          /\ NoFault /\ Goto(c, IF guarded THEN "reserve" ELSE "intent")
       \/ /\ Goto(c, "fail")
          /\ IF guarded /\ ~Refresh THEN NoFault ELSE Fault
    /\ UNCHANGED <<store, ctl, lock, op, world>>

(* before_effect(): absence proved, approval fresh, attempt reserved. *)
Reserve(c) ==
    /\ at[c] = "reserve"
    /\ \E a \in {"APPLIED", "NOT_APPLIED", "UNKNOWN"} :
          /\ Answer(op[c], a)
          /\ IF /\ Refresh /\ a = "NOT_APPLIED"
                /\ ctl.pending = None /\ ctl.attempts[op[c]] < Budget
             THEN /\ ctl' = [ctl EXCEPT !.attempts[op[c]] = @ + 1,
                                        !.pending = op[c]]
                  /\ Goto(c, "intent")
             ELSE ctl' = Stop(ctl) /\ Goto(c, "unknown")
    /\ UNCHANGED <<store, lock, op, world>>

(* Mutant: the outcome is recorded before the effect. *)
RecordsEarly(c) ==
    /\ at[c] = "intent"
    /\ ledger' = [ledger EXCEPT ![op[c]] = "APPLIED"]
    /\ Goto(c, "write")
    /\ UNCHANGED <<ckpt, bound, guarded, approval, ctl, lock, op, world, faults>>

(* ledger.save() of the intent. *)
Intent(c) ==
    /\ at[c] = "intent"
    /\ ledger' = [ledger EXCEPT ![op[c]] = "INTENT"]
    /\ Goto(c, "write")
    /\ UNCHANGED <<ckpt, bound, guarded, approval, ctl, lock, op, world, faults>>

(* The world takes the operation: git moves the branch from its old value    *)
(* only, GitHub opens no second pull request and none for an unpushed branch.*)
Takes(o) ==
    \/ o = Commit /\ o \notin done
    \/ o = Push
    \/ o = CreatePR /\ Push \in done /\ o \notin done

Land(o) ==
    IF Takes(o)
    THEN done' = done \cup {o} /\ landed' = [landed EXCEPT ![o] = @ + 1]
    ELSE UNCHANGED <<done, landed>>

(* The last checks before the command of a write. *)
MayWrite(o) ==
    /\ guarded => Refresh
    /\ o = CreatePR => Push \in done

(* The write command takes effect at once, later, or never; the commit may die *)
(* between its two git commands, read-tree and update-ref.                   *)
Write(c) ==
    /\ at[c] = "write"
    /\ LET o == op[c]
           s == IF guarded THEN ctl.auth ELSE 0 IN
       \/ /\ MayWrite(o)
          /\ sent' = [sent EXCEPT ![<<o, s>>] = @ + 1]
          /\ Goto(c, "verify")
          /\ \/ Land(o) /\ NoFault /\ UNCHANGED <<staged, inflight>>
             \/ /\ o # Commit /\ inflight' = inflight \cup {o}
                /\ Fault /\ UNCHANGED <<done, staged, landed>>
             \/ /\ Fault /\ UNCHANGED <<done, landed, inflight>>
                /\ staged' \in {staged, o = Commit}
       \/ /\ Goto(c, "unknown") /\ UNCHANGED world
          /\ IF MayWrite(o) THEN Fault ELSE NoFault
    /\ UNCHANGED <<store, ctl, lock, op>>

(* A write of a call that has gone on takes effect. *)
LandLate(o) ==
    /\ o \in inflight
    /\ inflight' = inflight \ {o} /\ Land(o)
    /\ UNCHANGED <<store, ctl, lock, at, op, staged, sent, faults>>

(* Mutant: the exit status of the command is taken for the receipt. *)
TrustsExit(c) ==
    /\ at[c] = "verify" /\ Goto(c, "applied") /\ NoFault
    /\ UNCHANGED <<store, ctl, lock, op, world>>

(* effect() ends with a reconciliation, and the recovery compares its receipt *)
(* with another one.                                                         *)
Verify(c) ==
    /\ at[c] = "verify"
    /\ \/ op[c] \in done /\ Goto(c, "applied") /\ NoFault
       \/ /\ Goto(c, "unknown")
          /\ IF op[c] \in done THEN Fault ELSE NoFault
    /\ UNCHANGED <<store, ctl, lock, op, world>>

(* The except branches: stop the approval, save UNKNOWN, escalate. *)
Unknown(c) ==
    /\ at[c] = "unknown"
    /\ ctl' = IF guarded THEN Stop(ctl) ELSE ctl
    /\ ledger' = [ledger EXCEPT ![op[c]] = "UNKNOWN"]
    /\ Goto(c, "fail")
    /\ UNCHANGED <<ckpt, bound, guarded, approval, lock, op, world, faults>>

Applied(c) ==
    /\ at[c] = "applied"
    /\ ledger' = [ledger EXCEPT ![op[c]] = "APPLIED"]
    /\ IF guarded THEN Goto(c, "complete") /\ UNCHANGED op ELSE Proceed(c)
    /\ UNCHANGED <<ckpt, bound, guarded, approval, ctl, lock, world, faults>>

(* Control.complete(). *)
Complete(c) ==
    /\ at[c] = "complete"
    /\ IF ~ctl.stopped /\ ctl.pending = op[c]
       THEN ctl' = [ctl EXCEPT !.pending = None] /\ Proceed(c)
       ELSE Goto(c, "fail") /\ UNCHANGED <<ctl, op>>
    /\ UNCHANGED <<store, lock, world, faults>>

-----------------------------------------------------------------------------
(* After the three operations *)

(* The artifact gets the delivery identity; a recovery releases its lock. *)
Bind(c) ==
    /\ at[c] = "bind"
    /\ bound' = TRUE
    /\ IF guarded THEN lock' = Nobody /\ Goto(c, "advance")
       ELSE Goto(c, "record") /\ UNCHANGED lock
    /\ UNCHANGED <<ckpt, ledger, guarded, approval, ctl, op, world, faults>>

(* The first call completes the checkpoint, or escalates when the live       *)
(* identity is not that of the pull request.                                 *)
Record(c) ==
    /\ at[c] = "record"
    /\ \/ ckpt' = "done" /\ NoFault
       \/ Fault /\ UNCHANGED ckpt
    /\ lock' = Nobody /\ Goto(c, "idle")
    /\ UNCHANGED <<bound, ledger, guarded, approval, ctl, op, world>>

(* advance() after a recovery: the approval must still be open with nothing  *)
(* pending, and the live identity that of the pull request; otherwise the    *)
(* approval is stopped.  A failed read of the live identity, and a lock that *)
(* is held when the stop wants it, leave through the handler.                *)
Advance(c) ==
    /\ at[c] = "advance"
    /\ LET open == ~ctl.stopped /\ ctl.pending = None IN
       \/ /\ open /\ ckpt' = "done" /\ NoFault /\ UNCHANGED ctl
          /\ Goto(c, "idle")
       \/ /\ IF open THEN Fault ELSE NoFault
          /\ ctl' = IF lock = Nobody THEN Stop(ctl) ELSE ctl
          /\ Goto(c, IF lock = Nobody THEN "idle" ELSE "handler")
          /\ UNCHANGED ckpt
       \/ Fault /\ Goto(c, "handler") /\ UNCHANGED <<ctl, ckpt>>
    /\ UNCHANGED <<bound, ledger, guarded, approval, lock, op, world>>

(* An error in the body: the recovery stops the approval before it releases   *)
(* the lock.                                                                 *)
Fail(c) ==
    /\ at[c] = "fail"
    /\ lock' = Nobody
    /\ ctl' = IF guarded THEN Stop(ctl) ELSE ctl
    /\ Goto(c, IF guarded THEN "handler" ELSE "idle")
    /\ UNCHANGED <<store, op, world, faults>>

(* resume() stops the approval under the lock and then saves the checkpoint  *)
(* it loaded at its start, outside of any lock.                              *)
Handle(c) ==
    /\ at[c] = "handler"
    /\ IF lock # Nobody THEN UNCHANGED <<ctl, ckpt>>
       ELSE ctl' = Stop(ctl) /\ ckpt' = "pending"
    /\ Goto(c, "idle")
    /\ UNCHANGED <<bound, ledger, guarded, approval, lock, op, world, faults>>

(* The process dies; its lock goes with it. *)
Crash(c) ==
    /\ at[c] # "idle" /\ Fault
    /\ lock' = IF lock = c THEN Nobody ELSE lock
    /\ Goto(c, "idle")
    /\ UNCHANGED <<store, ctl, op, world>>

-----------------------------------------------------------------------------
(* The owner *)

(* A new approval names the generation the state is in; one issued while a   *)
(* call runs, or the index is not clean, counts as a fault.                  *)
Approve ==
    /\ guarded /\ ckpt = "pending" /\ approval.serial < MaxApprovals
    /\ ~approval.valid \/ approval.gen # ctl.gen
    /\ IF Quiet /\ ~staged THEN NoFault ELSE Fault
    /\ approval' = [serial |-> approval.serial + 1, gen |-> ctl.gen, valid |-> TRUE]
    /\ UNCHANGED <<ckpt, bound, ledger, guarded, ctl, lock, at, op, world>>

(* The approval expires, or it or the mandate is revoked. *)
Revoke ==
    /\ approval.valid /\ Fault
    /\ approval' = [approval EXCEPT !.valid = FALSE]
    /\ UNCHANGED <<ckpt, bound, ledger, guarded, ctl, lock, at, op, world>>

(* The documented owner stop: Control.stop() under the lock. *)
OwnerStop ==
    /\ guarded /\ lock = Nobody /\ ~ctl.stopped /\ Fault
    /\ ctl' = Stop(ctl)
    /\ UNCHANGED <<store, lock, at, op, world>>

(* What a commit left in the index is taken out by hand; no code does it. *)
Unstage ==
    /\ staged /\ Quiet
    /\ staged' = FALSE
    /\ UNCHANGED <<store, ctl, lock, at, op, done, inflight, landed, sent, faults>>

Deliver(c) ==
    \/ Decide(c) \/ Revalidate(c) \/ Reserve(c) \/ Intent(c) \/ Write(c)
    \/ Verify(c) \/ Unknown(c) \/ Applied(c) \/ Complete(c)

Step(c) ==
    \/ Enter(c) \/ Begin(c) \/ Prepare(c) \/ PrepareFails(c) \/ Blocked(c)
    \/ Deliver(c) \/ Bind(c) \/ Record(c) \/ Advance(c) \/ Fail(c) \/ Handle(c)

Start(c) == StartFirst(c) \/ ResumeFirst(c) \/ StartRecovery(c)

Next ==
    \/ \E c \in Calls : Start(c) \/ Step(c) \/ Crash(c)
    \/ \E o \in Op : LandLate(o)
    \/ Install \/ Approve \/ Revoke \/ OwnerStop \/ Unstage

Spec == Init /\ [][Next]_vars

(* A call that runs goes on, a stopped bootstrap is resumed when nothing else *)
(* runs, and the owner answers a stop, between two calls, with a new approval *)
(* and a clean index.                                                        *)
FairSpec ==
    /\ Spec
    /\ \A c \in Calls : WF_vars(Step(c))
    /\ WF_vars(\E c \in Calls : Start(c) /\ Quiet)
    /\ WF_vars(Install) /\ SF_vars(Approve /\ Quiet /\ ~staged) /\ SF_vars(Unstage)

-----------------------------------------------------------------------------
(* Attempts are reserved before the write and never refunded: whatever calls *)
(* crash, overlap or are answered late, an approval buys at most one write of*)
(* each operation, also when its budget names more.                          *)
OneWritePerApproval ==
    \A o \in Op, s \in Serial \ {0} : sent[<<o, s>>] <= 1

(* The checkpoint, and the artifact, name the pull request only after the    *)
(* reviewed commit, its push and the pull request are all in the world and   *)
(* in the ledger.                                                            *)
BoundIsReal ==
    bound \/ ckpt = "done" =>
        /\ bound /\ done = Op
        /\ \A o \in Op : ledger[o] = "APPLIED"

(* A stop is the end of its approval: only another one opens the next        *)
(* generation, a later successful read never does.                           *)
StopEndsApproval ==
    [][ctl.stopped /\ ~ctl'.stopped => ctl'.auth # ctl.auth]_vars

(* The three operations take effect in their order and are recorded after    *)
(* that; only the push, which GitHub takes again, may take effect twice.     *)
Chain == INSTANCE PhaseChain WITH
    Last <- 3, Repeatable <- {Push},
    recorded <- Cardinality({o \in Op : ledger[o] = "APPLIED"}),
    effects <- landed
ImplementsPhaseChain == Chain!Spec

(* A bootstrap that stopped halfway is finished in the end, by approvals the *)
(* owner keeps issuing.                                                      *)
BootstrapIsBound == <>[](ckpt = "done")

(* A completed RUN_TASK stays completed. *)
DoneStays == [][ckpt = "done" => ckpt' = "done"]_vars
=============================================================================

----------------------------- MODULE EpicLoop ------------------------------
(***************************************************************************)
(* The supervisor of one task of an epic (tools/agent_epic_loop.py, without*)
(* the recovery mode of ADR-284) and the rate-limit pause of its checkpoint*)
(* (tools/agent_rate_limit.py).                                            *)
(*                                                                         *)
(* `resume` loads the checkpoint, reconciles a pending effect and reads the*)
(* live identity, and only then takes the runner lock, in which advance()  *)
(* loads the checkpoint again, writes the intent, runs the effect and      *)
(* writes its outcome.  Several operators may call resume at once, and a   *)
(* call dies at any step; the checkpoint is replaced atomically.           *)
(*                                                                         *)
(* Data abstraction: a phase is its index in PHASES and the completed list *)
(* is the prefix up to it (validate_checkpoint() admits nothing else); an  *)
(* identity is the one before the task has a pull request ("base"), the one*)
(* the pull request gives it ("made"), or a foreign one ("other").         *)
(***************************************************************************)
EXTENDS Naturals, FiniteSets

CONSTANTS
    Last,       \* index of NEXT_TASK: 7 with the phases of the code
    Demo,       \* index of DEMO
    Reading,    \* phases that only read: PR_CI, POST_MERGE, DEMO, NEXT_TASK
    Unprovable, \* phases never reconciled as NOT_APPLIED: RUN_TASK, TASK_DONE
    Runners,    \* calls of resume that may overlap
    Nobody,     \* the lock is free
    Delayed,    \* TRUE: an effect may happen after the call that began it ended
    Drift,      \* TRUE: the live identity may change under the runner
    MaxFaults   \* bound: crashes, failures and pauses in a behaviour

ASSUME EpicLoopAssumption ==
    /\ Last \in Nat \ {0} /\ Demo \in 2 .. Last
    /\ Reading \subseteq 2 .. Last /\ Demo \in Reading
    /\ Unprovable \subseteq (1 .. Last) \ Reading /\ 1 \in Unprovable
    /\ Nobody \notin Runners
    /\ Delayed \in BOOLEAN /\ Drift \in BOOLEAN
    /\ MaxFaults \in Nat

VARIABLES
    ckpt,     \* epic-loop-checkpoint.json
    lock,     \* the runner holding epic-loop.lock
    step,     \* what each call does next
    want,     \* resume: the checkpoint a call loaded before the lock
    recon,    \* resume: the answer of the reconciliation made before the lock
    facts,    \* resume: the live identity read before the lock
    live,     \* the world: the identity of the task's delivery
    artifact, \* the world: RUN_TASK has recorded the pull request it made
    applied,  \* the world: how often each phase took effect
    inflight, \* the world: effects of ended calls that may still happen
    faults    \* history, for MaxFaults

world == <<live, artifact, applied, inflight>>
calls == <<step, want, recon, facts>>
vars  == <<ckpt, lock, step, want, recon, facts, live, artifact, applied, inflight,
           faults>>

Phase == 1 .. Last
Identity == {"base", "made", "other"}
Status == {"READY", "RUNNING", "ESCALATE", "BLOCKED", "PAUSED_RATE_LIMIT", "TASK_DONE"}

(* validate_checkpoint(): what save() accepts and load() returns. *)
Checkpoint ==
    {c \in [phase : 0 .. Last, pending : BOOLEAN, status : Status,
            ident : {"base", "made"}] :
        /\ c.phase = Last => c.status = "TASK_DONE" /\ ~c.pending
        /\ c.ident = "base" => c.phase = 0}

Outside == {"idle", "loop", "reconcile", "live", "lock"}
Inside  == {"check", "resolve", "intent", "effect", "applied"}

(* Every variable is what the code stores there, and a call is between lock  *)
(* and unlock exactly when it holds the lock.                                *)
TypeOK ==
    /\ ckpt \in Checkpoint
    /\ lock \in Runners \cup {Nobody}
    /\ step \in [Runners -> Outside \cup Inside]
    /\ want \in [Runners -> Checkpoint]
    /\ recon \in [Runners -> {"none", "APPLIED", "NOT_APPLIED"}]
    /\ facts \in [Runners -> Identity]
    /\ live \in Identity
    /\ artifact \in BOOLEAN
    /\ applied \in [Phase -> Nat]
    /\ inflight \subseteq Phase
    /\ faults \in 0 .. MaxFaults
    /\ \A r \in Runners : step[r] \in Inside <=> lock = r
    /\ \A r \in Runners : step[r] \in (Outside \ {"idle", "loop"}) \cup Inside
                              => want[r].phase < Last

(* A planned task has no pull request yet (checkpoint schemas 2.0 and 3.0);  *)
(* one that has (schema 1.0) the adapter's RUN_TASK refuses.                 *)
Init ==
    /\ live = "base"
    /\ artifact = FALSE
    /\ ckpt = [phase |-> 0, pending |-> FALSE, status |-> "READY", ident |-> live]
    /\ lock = Nobody
    /\ step = [r \in Runners |-> "idle"]
    /\ want = [r \in Runners |-> ckpt]
    /\ recon = [r \in Runners |-> "none"]
    /\ facts = [r \in Runners |-> live]
    /\ applied = [p \in Phase |-> 0]
    /\ inflight = {}
    /\ faults = 0

Target(r) == want[r].phase + 1
Goto(r, s) == step' = [step EXCEPT ![r] = s]
Fault == faults < MaxFaults /\ faults' = faults + 1

(* The call leaves the lock and ends, or goes on with the next phase. *)
Leave(r, s) == Goto(r, s) /\ lock' = Nobody

(* Mutant: the pause record is dropped from the saved copy. *)
SavesAnyway(new) == ckpt' = new

(* save(): an invalid checkpoint is not written and raises LoopError.  The   *)
(* pause record stays in the checkpoint advance() copies, and with it no     *)
(* status but PAUSED_RATE_LIMIT is valid.                                    *)
Saves(new) == ckpt.status # "PAUSED_RATE_LIMIT" /\ ckpt' = new

-----------------------------------------------------------------------------
(* resume(), before the lock *)

(* The command returns a pause, and a finished task, at once. *)
Start(r) ==
    /\ step[r] = "idle"
    /\ ckpt.status # "PAUSED_RATE_LIMIT"
    /\ ckpt.phase < Last
    /\ Goto(r, "loop")
    /\ UNCHANGED <<ckpt, lock, want, recon, facts, world, faults>>

(* One round for each phase; a round does not look for a pause. *)
Load(r) ==
    /\ step[r] = "loop"
    /\ IF ckpt.phase = Last
       THEN Goto(r, "idle") /\ UNCHANGED want
       ELSE /\ want' = [want EXCEPT ![r] = ckpt]
            /\ Goto(r, IF ckpt.pending THEN "reconcile" ELSE "live")
    /\ recon' = [recon EXCEPT ![r] = "none"]
    /\ UNCHANGED <<ckpt, lock, facts, world, faults>>

(* The evidence that a phase took effect: of RUN_TASK the pull request named  *)
(* in the artifact of its workflow, of the others the world itself.          *)
Evident(p) == IF p = 1 THEN artifact ELSE applied[p] > 0

(* What the adapter's reconciliation may answer.  Of RUN_TASK and TASK_DONE   *)
(* it never says that nothing happened: without evidence they stay UNKNOWN.  *)
(* A phase that only reads is read again, which here is to run its effect    *)
(* again, and NEXT_TASK always.                                              *)
Answers(p) ==
    {a \in {"APPLIED", "NOT_APPLIED", "UNKNOWN"} :
        /\ a = "APPLIED" => Evident(p)
        /\ a = "NOT_APPLIED" => p \in Reading \/ ~(Evident(p) \/ p \in Unprovable)
        /\ a = "UNKNOWN" => ~Evident(p) /\ p \in Unprovable}

(* ESCALATE_UNKNOWN_OUTCOME ends the call; the checkpoint keeps its intent.  *)
Reconcile(r) ==
    /\ step[r] = "reconcile"
    /\ \E a \in Answers(Target(r)) :
           IF a = "UNKNOWN" THEN Goto(r, "idle") /\ UNCHANGED recon
           ELSE Goto(r, "live") /\ recon' = [recon EXCEPT ![r] = a]
    /\ UNCHANGED <<ckpt, lock, want, facts, world, faults>>

ReadLive(r) ==
    /\ step[r] = "live"
    /\ facts' = [facts EXCEPT ![r] = live]
    /\ Goto(r, "lock")
    /\ UNCHANGED <<ckpt, lock, want, recon, world, faults>>

(* The lock does not wait: RUNNER_LOCKED ends the call. *)
Acquire(r) ==
    /\ step[r] = "lock"
    /\ IF lock = Nobody THEN lock' = r /\ Goto(r, "check")
                        ELSE UNCHANGED lock /\ Goto(r, "idle")
    /\ UNCHANGED <<ckpt, want, recon, facts, world, faults>>

-----------------------------------------------------------------------------
(* advance(), in the lock *)

(* RUN_TASK of a task that has no pull request yet gives it one. *)
Bootstrap(r) == ckpt.ident = "base" /\ ckpt.phase = 0 /\ Target(r) = 1

(* Mutant: a bootstrap that may have happened is held to the old identity. *)
IdentityHoldsAlways(r) == ckpt.ident = want[r].ident /\ facts[r] = want[r].ident

(* A bootstrap that may have happened is not held to the old identity. *)
IdentityHolds(r) ==
    /\ ckpt.ident = want[r].ident
    /\ ~(Bootstrap(r) /\ ckpt.pending) => facts[r] = want[r].ident

(* Mutant: no check that the target still is the next phase. *)
CheckIdentityOnly(r) ==
    /\ step[r] = "check"
    /\ IF ~IdentityHolds(r) THEN Leave(r, "idle")
       ELSE Goto(r, IF ckpt.pending THEN "resolve" ELSE "intent") /\ UNCHANGED lock
    /\ UNCHANGED <<ckpt, want, recon, facts, world, faults>>

(* Identity, then NO_OP for a phase completed meanwhile, then the order.     *)
Check(r) ==
    /\ step[r] = "check"
    /\ IF ~IdentityHolds(r) THEN Leave(r, "idle")
       ELSE IF Target(r) = ckpt.phase THEN Leave(r, "loop")
       ELSE IF Target(r) # ckpt.phase + 1 THEN Leave(r, "idle")
       ELSE Goto(r, IF ckpt.pending THEN "resolve" ELSE "intent") /\ UNCHANGED lock
    /\ UNCHANGED <<ckpt, want, recon, facts, world, faults>>

(* Mutant: _complete() without the binding. *)
CompletedUnbound(c) ==
    [phase |-> c.phase + 1, pending |-> FALSE, ident |-> c.ident,
     status |-> IF c.phase + 1 = Last THEN "TASK_DONE" ELSE "RUNNING"]

(* _complete() with the binding of _delivery_binding(): a bootstrap needs a  *)
(* fresh live identity equal to the receipt's.                               *)
Completed(c) ==
    [phase |-> c.phase + 1, pending |-> FALSE, ident |-> "made",
     status |-> IF c.phase + 1 = Last THEN "TASK_DONE" ELSE "RUNNING"]

Complete(r) ==
    /\ Bootstrap(r) => live = "made"
    /\ Saves(Completed(ckpt))
    /\ Leave(r, "loop")

(* The answer from before the lock is used, if there is one. *)
Answered(r) == IF recon[r] = "none" THEN Answers(Target(r)) ELSE {recon[r]}

ResolveApplied(r) ==
    /\ step[r] = "resolve"
    /\ "APPLIED" \in Answered(r)
    /\ Complete(r)
    /\ UNCHANGED <<want, recon, facts, world, faults>>

ResolveNotApplied(r) ==
    /\ step[r] = "resolve"
    /\ "NOT_APPLIED" \in Answered(r)
    /\ facts[r] = ckpt.ident
    /\ Goto(r, "intent")
    /\ UNCHANGED <<ckpt, lock, want, recon, facts, world, faults>>

(* A pause, a foreign identity, a binding that live does not confirm or an   *)
(* answer UNKNOWN: ESCALATE with the checkpoint as it is.                    *)
Refuse(r) ==
    /\ \/ step[r] = "resolve"
          /\ \/ "APPLIED" \in Answered(r) /\ Bootstrap(r) /\ live # "made"
             \/ "APPLIED" \in Answered(r) /\ ckpt.status = "PAUSED_RATE_LIMIT"
             \/ "NOT_APPLIED" \in Answered(r) /\ facts[r] # ckpt.ident
             \/ "UNKNOWN" \in Answered(r)
       \/ step[r] = "intent" /\ ckpt.status = "PAUSED_RATE_LIMIT"
    /\ Leave(r, "idle")
    /\ UNCHANGED <<ckpt, want, recon, facts, world, faults>>

WriteIntent(r) ==
    /\ step[r] = "intent"
    /\ Saves([ckpt EXCEPT !.pending = TRUE, !.status = "RUNNING"])
    /\ Goto(r, "effect")
    /\ UNCHANGED <<lock, want, recon, facts, world, faults>>

TakeEffect(p) == applied' = [applied EXCEPT ![p] = @ + 1]

(* The phase takes effect.  RUN_TASK creates the pull request, and last      *)
(* records it in the artifact, from which live() then takes the identity.    *)
RunEffect(r) ==
    /\ step[r] = "effect"
    /\ TakeEffect(Target(r))
    /\ artifact' = (artifact \/ Target(r) = 1)
    /\ live' = IF Target(r) = 1 /\ live = "base" THEN "made" ELSE live
    /\ Goto(r, "applied")
    /\ UNCHANGED <<ckpt, lock, want, recon, facts, inflight, faults>>

(* A valid receipt completes the phase. *)
ReceiveReceipt(r) ==
    /\ step[r] = "applied"
    /\ Complete(r)
    /\ UNCHANGED <<want, recon, facts, world, faults>>

(* Mutant: an unknown outcome clears the intent as BLOCKED does. *)
OutcomeForgotten(r) ==
    /\ step[r] \in {"effect", "applied"}
    /\ Fault
    /\ ckpt' = [ckpt EXCEPT !.status = "ESCALATE", !.pending = FALSE]
    /\ Leave(r, "idle")
    /\ UNCHANGED <<want, recon, facts, world>>

(* How far an effect cut short has got: nowhere, to a request that is on its *)
(* way when the adapter's processes die with the call (_run()), or, with     *)
(* RUN_TASK, to a pull request that no artifact records.                     *)
SetOff(r) ==
    \/ UNCHANGED <<applied, inflight>>
    \/ /\ Delayed /\ step[r] = "effect"
       /\ inflight' = inflight \cup {Target(r)}
       /\ UNCHANGED applied
    \/ step[r] = "effect" /\ Target(r) = 1 /\ TakeEffect(1) /\ UNCHANGED inflight

(* A timeout, a transport failure, an empty or invalid receipt, or a binding *)
(* that live does not confirm: the intent stays and reconciliation decides.  *)
OutcomeUnknown(r) ==
    /\ step[r] \in {"effect", "applied"}
    /\ IF Bootstrap(r) /\ step[r] = "applied" /\ live # "made"
       THEN UNCHANGED faults ELSE Fault
    /\ ckpt' = [ckpt EXCEPT !.status = "ESCALATE"]
    /\ Leave(r, "idle")
    /\ SetOff(r)
    /\ UNCHANGED <<want, recon, facts, live, artifact>>

(* PhaseBlocked, the adapter's statement that nothing happened, clears the   *)
(* intent; so does a demo whose receipt, or reconciled receipt, is invalid.  *)
Block(r) ==
    /\ \/ step[r] = "effect"
       \/ step[r] = "applied" /\ Target(r) = Demo
       \/ /\ step[r] = "resolve" /\ Target(r) = Demo /\ "APPLIED" \in Answered(r)
          /\ ckpt.status # "PAUSED_RATE_LIMIT"
    /\ Fault
    /\ ckpt' = [ckpt EXCEPT !.status = "BLOCKED", !.pending = FALSE]
    /\ Leave(r, "idle")
    /\ UNCHANGED <<want, recon, facts, world>>

(* The call dies, or an adapter call other than the effect fails: nothing is *)
(* written, and the lock is let go.                                          *)
Stop(r) ==
    /\ step[r] # "idle"
    /\ Fault
    /\ Goto(r, "idle")
    /\ lock' = IF lock = r THEN Nobody ELSE lock
    /\ SetOff(r)
    /\ UNCHANGED <<ckpt, want, recon, facts, live, artifact>>

-----------------------------------------------------------------------------
(* The rate limit, and the world *)

(* pause(): under the lock, of a checkpoint that has the live identity. *)
Pause ==
    /\ lock = Nobody
    /\ ckpt.phase < Last
    /\ live = ckpt.ident
    /\ Fault
    /\ ckpt' = [ckpt EXCEPT !.status = "PAUSED_RATE_LIMIT"]
    /\ UNCHANGED <<lock, calls, world>>

(* agent_rate_limit.resume() once no window is exhausted. *)
Unpause ==
    /\ lock = Nobody
    /\ ckpt.status = "PAUSED_RATE_LIMIT"
    /\ live = ckpt.ident
    /\ ckpt' = [ckpt EXCEPT !.status = "READY"]
    /\ UNCHANGED <<lock, calls, world, faults>>

(* A late pull request is in no artifact. *)
LateEffect ==
    /\ \E p \in inflight : TakeEffect(p) /\ inflight' = inflight \ {p}
    /\ UNCHANGED <<ckpt, lock, calls, live, artifact, faults>>

IdentityDrifts ==
    /\ Drift /\ Fault
    /\ live' = "other"
    /\ UNCHANGED <<ckpt, lock, calls, artifact, applied, inflight>>

-----------------------------------------------------------------------------
(* The steps a call takes of itself. *)
Proceed(r) ==
    \/ Start(r) \/ Load(r) \/ Reconcile(r) \/ ReadLive(r) \/ Acquire(r)
    \/ Check(r) \/ ResolveApplied(r) \/ ResolveNotApplied(r) \/ Refuse(r)
    \/ WriteIntent(r) \/ RunEffect(r) \/ ReceiveReceipt(r)

Next ==
    \/ \E r \in Runners :
           Proceed(r) \/ OutcomeUnknown(r) \/ Block(r) \/ Stop(r)
    \/ Pause \/ Unpause \/ LateEffect \/ IdentityDrifts

Spec == Init /\ [][Next]_vars

(* The operator calls resume again whenever a call has ended, and polls the  *)
(* quota while the task is paused.                                           *)
FairSpec == Spec /\ WF_vars(Unpause) /\ \A r \in Runners : WF_vars(Proceed(r))

-----------------------------------------------------------------------------
(* Properties *)

(* One operator and no late effect: no phase that writes takes effect twice, *)
(* whatever crashes and lost answers come between (ADR-253: an uncertain     *)
(* transition is not repeated until reconciliation proves NOT_APPLIED).      *)
AppliedOnce == \A p \in Phase \ Reading : applied[p] <= 1

(* The loop, with its crashes, retries, pauses and overlapping calls,        *)
(* implements the chain of phases; effects may only be repeated where        *)
(* AppliedOnce does not hold.                                                *)
Serial == ~Delayed /\ \A r, s \in Runners : r = s

Chain ==
    INSTANCE PhaseChain WITH
        Repeatable <- IF Serial THEN Reading ELSE Phase,
        recorded <- ckpt.phase, effects <- applied

ImplementsPhaseChain == Chain!Spec

(* Write-ahead: an effect that is not recorded as completed is covered by a  *)
(* pending intent, so that no later call can take it for not attempted.      *)
(* Again phases that only read are the exception, and late effects.          *)
IntentCoversEffect ==
    \A p \in Phase \ Reading : p > ckpt.phase /\ applied[p] > 0 => ckpt.pending

(* A rate-limit pause neither completes nor repeats a phase (ADR-250), even  *)
(* one that arrives while a call is between its load and the lock: until it  *)
(* is lifted the checkpoint keeps its phase and intent and no effect starts. *)
PauseHolds ==
    [][ckpt.status = "PAUSED_RATE_LIMIT" =>
          /\ ckpt'.phase = ckpt.phase /\ ckpt'.pending = ckpt.pending
          /\ ckpt'.ident = ckpt.ident
          /\ \A r \in Runners : step'[r] = "effect" => step[r] = "effect"]_vars

(* A task past PLAN is bound to the pull request its RUN_TASK made, and to   *)
(* no other identity, also when the call that made it died.                  *)
BoundToDelivery ==
    ckpt.phase > 0 => ckpt.ident = "made" /\ applied[1] > 0

(* The effect of a pending intent is unproven, and no reconciliation of the  *)
(* adapter will ever say that nothing happened: every further call ends with *)
(* ESCALATE_UNKNOWN_OUTCOME until the owner steps in.                        *)
Stuck == ckpt.pending /\ "UNKNOWN" \in Answers(ckpt.phase + 1)

(* Once the faults cease resume finishes the task, unless an effect of       *)
(* RUN_TASK or TASK_DONE was cut short: no other crash, refusal or pause     *)
(* leaves a checkpoint it cannot get on from, in particular not a crash      *)
(* between the recorded pull request and the checkpoint that binds it.       *)
TaskIsDone == <>[](ckpt.status = "TASK_DONE" \/ Stuck)
=============================================================================

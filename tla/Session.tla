------------------------------ MODULE Session ------------------------------
(***************************************************************************)
(* The session of an epic: task after task in the approved order, then the *)
(* final delivery (tools/agent_epic_session, agent_epic_session_runtime,   *)
(* agent_epic_queue, agent_epic_handover and the task phases of            *)
(* agent_epic_runtime).  One process runs at a time (the runner lock of    *)
(* session-control is held for the whole call); it dies at any step and is *)
(* started again, and others move the roadmap branch, add children to the  *)
(* epic, close and reopen them.                                            *)
(*                                                                         *)
(* The intents and the lost outcomes inside one task are those of EpicLoop *)
(* and Bootstrap; here a phase of a task happens, the call ends, or the    *)
(* phase stays unknown for good.  A commit of the roadmap is its number.   *)
(***************************************************************************)
EXTENDS FinalDelivery, Sequences

CONSTANTS
    Order,     \* approved_order: a sequence of issues
    Blocker,   \* the dependencies of each issue
    NoTask,    \* None
    Limit      \* max_task_iterations of the mandate

Task == {Order[i] : i \in DOMAIN Order}
Seed == Order[1]

ASSUME SessionAssumption ==
    /\ Order \in Seq(Child) /\ Len(Order) > 0
    /\ \A i, j \in DOMAIN Order : Order[i] = Order[j] => i = j
    /\ Blocker \in [Child -> SUBSET Child] /\ Blocker[Seed] = {}
    /\ NoTask \notin Child
    /\ Limit \in Nat \ {0}
    /\ MaxFaults \in Nat

VARIABLES
    cursor,  \* session-control/cursor.json
    phase,   \* the checkpoint of each task: the last of its phases that is done,
             \* or the one whose outcome stays unknown
    base,    \* base_sha of its checkpoint
    merge,   \* merge_sha of its checkpoint
    head,    \* the world: the head of the roadmap branch while it grows
    at,      \* what the call does next
    plan,    \* the queue plan the call has read
    seen     \* the head of the roadmap branch the call has read

progress == <<phase, base, merge, head>>
svars == <<cursor, progress, at, plan, seen>>
vars == <<fvars, svars, faults>>

Unknown == {"RUN_TASK_UNKNOWN", "TASK_DONE_UNKNOWN"}
Phases == {"absent", "partial", "PLAN", "PR_CI", "MERGE", "TASK_DONE", "NEXT_TASK"}
          \cup Unknown
Plans == [state : {"FINAL_GATE", "BLOCKED"}, task : {NoTask}]
         \cup [state : {"RUN_TASK"}, task : Task]
Steps == {"idle", "loop", "task", "select", "complete", "choose", "prepare",
          "mutate", "save", "adopt", "final"}

(* Every variable is what the code stores there, and the final delivery runs *)
(* only inside a call of the session.                                        *)
TypeOK ==
    /\ FinalTypeOK
    /\ cursor \in [current : Task, completed : SUBSET Task,
                   pending : Task \cup {NoTask}, mode : {"TASK", "FINAL", "DONE"}]
    /\ phase \in [Task -> Phases]
    /\ base \in [Task -> Nat] /\ merge \in [Task -> Nat] /\ head \in Nat
    /\ at \in Steps /\ plan \in Plans /\ seen \in Nat
    /\ fat = "off" <=> at # "final"

(* The owner has planned the first task and opened the others. *)
Init ==
    /\ FinalInit /\ faults = 0
    /\ issue = [c \in Child |-> IF c \in Task THEN "OPEN" ELSE "none"]
    /\ cursor = [current |-> Seed, completed |-> {}, pending |-> NoTask,
                 mode |-> "TASK"]
    /\ phase = [t \in Task |-> IF t = Seed THEN "PLAN" ELSE "absent"]
    /\ base = [t \in Task |-> 0] /\ merge = [t \in Task |-> 0] /\ head = 0
    /\ at = "idle" /\ plan = [state |-> "BLOCKED", task |-> NoTask] /\ seen = 0

Current == cursor.current
Goto(s) == at' = s
Outside == UNCHANGED <<fcall, entries, evidence, owner, remote, finflight, flanded>>

-----------------------------------------------------------------------------
(* tools/agent_epic_queue.py: plan_queue() over a fresh snapshot *)

Position(t) == CHOOSE i \in DOMAIN Order : Order[i] = t
OpenBlockers(c) == Blocker[c] \cap Opened

(* A blocker that is open and comes later in the order, also of a task that is *)
(* closed; a cycle of open blockers has one, too.                            *)
OrderConflict ==
    \E c \in Task : \E b \in OpenBlockers(c) \cap Task : Position(b) > Position(c)

(* positions[] is asked for the place of every child with an open blocker: a *)
(* child that is closed and not in the order ends the call with KeyError.    *)
NoPosition ==
    \E c \in Child \ Task : issue[c] # "none" /\ OpenBlockers(c) # {}

Ready == {t \in Opened : OpenBlockers(t) = {}}

QueuePlan ==
    IF Opened = {} THEN [state |-> "FINAL_GATE", task |-> NoTask]
    ELSE IF ~(Opened \subseteq Task) \/ OrderConflict \/ NoPosition \/ Ready = {}
    THEN [state |-> "BLOCKED", task |-> NoTask]
    ELSE [state |-> "RUN_TASK",
          task |-> CHOOSE t \in Ready : \A u \in Ready : Position(t) <= Position(u)]

-----------------------------------------------------------------------------
(* Session.resume() *)

Start ==
    /\ at = "idle" /\ cursor.mode # "DONE"
    /\ Goto("loop")
    /\ UNCHANGED <<cursor, progress, plan, seen, faults>> /\ Outside

(* final_resume() before FinalRuntime.resume(): the approval, and _sync_final(). *)
FinalSync ==
    /\ owner = "valid" /\ roadmap = "approved"
    /\ IF entries[Create] = "APPLIED" /\ pr = "merged"
       THEN main \in {"merge", "odd"} ELSE main = "base"

Loop ==
    /\ at = "loop"
    /\ IF cursor.mode = "FINAL"
       THEN IF FinalSync THEN Goto("final") /\ fat' = "decide" /\ fop' = Create
            ELSE Goto("idle") /\ UNCHANGED fcall
       ELSE /\ Goto(IF phase[Current] = "NEXT_TASK" THEN "select" ELSE "task")
            /\ UNCHANGED fcall
    /\ UNCHANGED <<cursor, progress, plan, seen, entries, evidence, owner, remote,
                   finflight, flanded, faults>>

(* structural_queue(): anything but a task to run or the final gate ends the *)
(* call, and so does a read that fails.                                      *)
Select ==
    /\ at = "select"
    /\ \/ QueuePlan.state # "BLOCKED" /\ plan' = QueuePlan /\ Goto("complete") /\ NoFault
       \/ /\ Goto("idle") /\ UNCHANGED plan
          /\ IF QueuePlan.state = "BLOCKED" THEN NoFault ELSE Fault
    /\ UNCHANGED <<cursor, progress, seen>> /\ Outside

Complete ==
    /\ at = "complete"
    /\ cursor' = [cursor EXCEPT !.completed = @ \cup {Current}]
    /\ Goto("choose")
    /\ UNCHANGED <<progress, plan, seen, faults>> /\ Outside

(* reconcile_plan(): only a successor saved in full proves the preparation. *)
Prepared(t) == phase[t] = "PLAN" /\ base[t] = merge[Current]

(* Mutant: the final gate is entered with a successor pending. *)
ChooseFinalAnyway ==
    /\ at = "choose"
    /\ IF plan.state = "FINAL_GATE"
       THEN cursor' = [cursor EXCEPT !.mode = "FINAL"] /\ Goto("loop")
       ELSE IF cursor.pending = NoTask /\ plan.task \notin cursor.completed
       THEN cursor' = [cursor EXCEPT !.pending = plan.task] /\ Goto("prepare")
       ELSE Goto("idle") /\ UNCHANGED cursor
    /\ UNCHANGED <<progress, plan, seen, faults>> /\ Outside

(* Mutant: a pending successor is forgotten when the queue names another. *)
ChooseAnother ==
    /\ at = "choose"
    /\ IF plan.state = "FINAL_GATE" \/ plan.task \in cursor.completed
       THEN Goto("idle") /\ UNCHANGED cursor
       ELSE cursor' = [cursor EXCEPT !.pending = plan.task] /\ Goto("prepare")
    /\ UNCHANGED <<progress, plan, seen, faults>> /\ Outside

Choose ==
    /\ at = "choose"
    /\ \/ /\ plan.state = "FINAL_GATE" /\ cursor.pending = NoTask
          /\ cursor' = [cursor EXCEPT !.mode = "FINAL"] /\ Goto("loop")
       \/ /\ plan.state = "RUN_TASK" /\ plan.task \notin cursor.completed
          /\ cursor.pending = NoTask
          /\ cursor' = [cursor EXCEPT !.pending = plan.task] /\ Goto("prepare")
       \/ /\ plan.state = "RUN_TASK" /\ plan.task \notin cursor.completed
          /\ cursor.pending = plan.task /\ Prepared(plan.task)
          /\ Goto("adopt") /\ UNCHANGED cursor
       \/ /\ \/ plan.state = "FINAL_GATE" /\ cursor.pending # NoTask
             \/ plan.state = "RUN_TASK" /\ plan.task \in cursor.completed
             \/ plan.state = "RUN_TASK" /\ cursor.pending \notin {NoTask, plan.task}
             \/ plan.state = "RUN_TASK" /\ cursor.pending = plan.task /\ ~Prepared(plan.task)
          /\ Goto("idle") /\ UNCHANGED cursor
    /\ UNCHANGED <<progress, plan, seen, faults>> /\ Outside

-----------------------------------------------------------------------------
(* SessionRuntime.prepare() *)

(* mandate_lifecycle_code(): the task budget. *)
WithinLimit == Cardinality(cursor.completed) < Limit

(* What prepare() and the planner's _validate_inputs() ask before any change. *)
MayPrepare == head = merge[Current] /\ WithinLimit

(* prepare_branch(): the task is open and the roadmap where it was read. *)
BranchReady == issue[plan.task] = "OPEN" /\ head = seen

(* Mutant: the head of the roadmap is not compared with the last merge. *)
PrepareStale ==
    /\ at = "prepare"
    /\ seen' = head
    /\ Goto("mutate") /\ NoFault
    /\ UNCHANGED <<cursor, progress, plan>> /\ Outside

(* Everything before the first change to the repository: a refusal clears    *)
(* the intent; a read of GitHub that fails raises GitHubError, which keeps it.*)
Prepare ==
    /\ at = "prepare"
    /\ seen' = head
    /\ \/ MayPrepare /\ Goto("mutate") /\ NoFault /\ UNCHANGED cursor
       \/ /\ ~MayPrepare
          /\ cursor' = [cursor EXCEPT !.pending = NoTask]
          /\ Goto("idle") /\ NoFault
       \/ Fault /\ Goto("idle") /\ UNCHANGED cursor
    /\ UNCHANGED <<progress, plan>> /\ Outside

(* Fetch, fast-forward, task branch, switch, handover; every refusal is now  *)
(* an unknown outcome.                                                       *)
Mutate ==
    /\ at = "mutate"
    /\ phase' = [phase EXCEPT ![plan.task] = "partial"]
    /\ \/ BranchReady /\ Goto("save") /\ NoFault
       \/ Goto("idle") /\ (IF BranchReady THEN Fault ELSE NoFault)
    /\ UNCHANGED <<cursor, base, merge, head, plan, seen>> /\ Outside

(* The checkpoint of the successor. *)
Save ==
    /\ at = "save"
    /\ phase' = [phase EXCEPT ![plan.task] = "PLAN"]
    /\ base' = [base EXCEPT ![plan.task] = seen]
    /\ Goto("adopt")
    /\ UNCHANGED <<cursor, merge, head, plan, seen, faults>> /\ Outside

(* The successor must stand on the merge of the task it follows. *)
Adopt ==
    /\ at = "adopt"
    /\ IF Prepared(plan.task)
       THEN /\ cursor' = [cursor EXCEPT !.current = plan.task, !.pending = NoTask]
            /\ Goto("loop")
       ELSE Goto("idle") /\ UNCHANGED cursor
    /\ UNCHANGED <<progress, plan, seen, faults>> /\ Outside

-----------------------------------------------------------------------------
(* TaskPhaseRuntime: the phases of the current task *)

ToPhase(p) == phase' = [phase EXCEPT ![Current] = p]

(* assess() before and after the merge: the base, or the merge, of the task   *)
(* is the head of the roadmap.                                               *)
AssessPR == head = base[Current]
AssessMerged == head = merge[Current]

(* What the next phase of the current task asks for. *)
PhaseReady ==
    \/ phase[Current] = "PLAN" /\ AssessPR /\ issue[Current] = "OPEN"
    \/ phase[Current] = "PR_CI" /\ AssessPR
    \/ phase[Current] = "MERGE" /\ AssessMerged
    \/ phase[Current] = "TASK_DONE" /\ QueuePlan.state # "BLOCKED"

(* RUN_TASK and PR_CI. *)
TaskToPR ==
    /\ phase[Current] = "PLAN" /\ ToPhase("PR_CI")
    /\ UNCHANGED <<base, merge, head, issue>>

(* merge_task_pr. *)
TaskToMerge ==
    /\ phase[Current] = "PR_CI" /\ ToPhase("MERGE")
    /\ head' = head + 1 /\ merge' = [merge EXCEPT ![Current] = head + 1]
    /\ UNCHANGED <<base, issue>>

(* POST_MERGE, DEMO and TASK_DONE. *)
TaskToDone ==
    /\ phase[Current] = "MERGE" /\ ToPhase("TASK_DONE")
    /\ issue' = [issue EXCEPT ![Current] = "CLOSED"]
    /\ UNCHANGED <<base, merge, head>>

(* NEXT_TASK: the queue has a task to run or is exhausted. *)
TaskToNext ==
    /\ phase[Current] = "TASK_DONE" /\ ToPhase("NEXT_TASK")
    /\ UNCHANGED <<base, merge, head, issue>>

TaskMoves == PhaseReady /\ (TaskToPR \/ TaskToMerge \/ TaskToDone \/ TaskToNext)

(* RUN_TASK or TASK_DONE is cut short behind its intent: the adapter will    *)
(* never say that it did not happen (EpicLoop's Stuck).  Of TASK_DONE the    *)
(* issue may be closed already.  A closed issue stops RUN_TASK only there.   *)
CutShort ==
    /\ \/ /\ phase[Current] = "PLAN" /\ AssessPR
          /\ ToPhase("RUN_TASK_UNKNOWN") /\ UNCHANGED issue
       \/ /\ phase[Current] = "MERGE" /\ AssessMerged
          /\ ToPhase("TASK_DONE_UNKNOWN")
          /\ issue' \in {issue, [issue EXCEPT ![Current] = "CLOSED"]}
    /\ UNCHANGED <<base, merge, head>>

(* A phase that cannot be done now ends the call. *)
TaskStep ==
    /\ at = "task"
    /\ \/ TaskMoves /\ NoFault
          /\ Goto(IF phase'[Current] = "NEXT_TASK" THEN "select" ELSE "task")
       \/ /\ Goto("idle")
          /\ CutShort \/ UNCHANGED <<progress, issue>>
          /\ IF PhaseReady THEN Fault ELSE NoFault
    /\ UNCHANGED <<cursor, plan, seen, fcall, entries, evidence, owner, roadmap, main, pr,
                   ci, epic, comments, finflight, flanded>>

-----------------------------------------------------------------------------
(* The final delivery inside the call *)


FinalEnds ==
    /\ at = "final" /\ fat \in {"finished", "stopped"}
    /\ cursor' = IF fat = "finished" THEN [cursor EXCEPT !.mode = "DONE"] ELSE cursor
    /\ fat' = "off" /\ Goto("idle")
    /\ UNCHANGED <<progress, plan, seen, fop, entries, evidence, owner, remote, finflight,
                   flanded, faults>>

Crash ==
    /\ at # "idle" /\ Fault
    /\ Goto("idle") /\ fat' = "off"
    /\ UNCHANGED <<cursor, progress, plan, seen, fop, entries, evidence, owner, remote,
                   finflight, flanded>>

-----------------------------------------------------------------------------
(* Others, and the owner *)

ForeignPush ==
    /\ roadmap = "growing" /\ Fault
    /\ head' = head + 1
    /\ UNCHANGED <<cursor, phase, base, merge, at, plan, seen>> /\ Outside

(* Somebody adds a child to the epic, closes or reopens one. *)
IssueMoves(c) ==
    /\ Fault
    /\ \/ issue[c] = "none" /\ \E s \in {"OPEN", "CLOSED"} : issue' = [issue EXCEPT ![c] = s]
       \/ issue[c] = "OPEN" /\ issue' = [issue EXCEPT ![c] = "CLOSED"]
       \/ issue[c] = "CLOSED" /\ issue' = [issue EXCEPT ![c] = "OPEN"]
    /\ UNCHANGED <<svars, fcall, entries, evidence, owner, roadmap, main, pr, ci, epic,
                   comments, finflight, flanded>>

(* The owner confirms the demo of the finished tasks: the final approval     *)
(* names the head of the roadmap.                                            *)
OwnerApproves ==
    /\ cursor.mode = "FINAL" /\ owner = "none"
    /\ owner' = "valid" /\ roadmap' = "approved"
    /\ UNCHANGED <<svars, fcall, entries, evidence, issue, main, pr, ci, epic,
                   comments, finflight, flanded, faults>>

InFinal == at = "final" /\ FinalStep /\ UNCHANGED svars
Outsiders == FinalWorld /\ UNCHANGED svars

Step ==
    \/ Loop \/ Select \/ Complete \/ Choose \/ Prepare \/ Mutate \/ Save \/ Adopt
    \/ TaskStep \/ InFinal \/ FinalEnds

Next ==
    \/ Start \/ Step \/ Crash
    \/ ForeignPush \/ OwnerApproves \/ Outsiders
    \/ \E c \in Child : IssueMoves(c)

Spec == Init /\ [][Next]_vars

(* A call that runs goes on, the session is started again, the owner gives   *)
(* the final approval (again), and GitHub finishes the checks.               *)
FairSpec ==
    /\ Spec
    /\ WF_vars(Step) /\ WF_vars(Start)
    /\ WF_vars(OwnerApproves) /\ SF_vars(Reinstate /\ UNCHANGED svars)
    /\ \A s \in {"pr", "main"} :
          SF_vars(Check(s) /\ ci'[s] = "SUCCESS" /\ UNCHANGED svars)

-----------------------------------------------------------------------------
(* One task at a time: whatever calls die and whatever the queue says next,  *)
(* at most one task is begun and not finished, it is the one the cursor      *)
(* names, and none is begun before the task it follows is finished.          *)
OneTaskAtATime ==
    LET begun == {t \in Task : phase[t] \notin {"absent", "NEXT_TASK"}} IN
    /\ \A t, u \in begun : t = u
    /\ begun \subseteq {cursor.current, cursor.pending}

(* The roadmap is a line of task merges: a task starts on the merge of a     *)
(* completed one, never on a commit of somebody else, and no two tasks start *)
(* on the same commit.                                                       *)
StartsOnMerge ==
    LET started == {t \in Task : phase[t] \notin {"absent", "partial"}} IN
    /\ \A t \in started \ {Seed} : \E p \in cursor.completed : base[t] = merge[p]
    /\ \A t, u \in started : base[t] = base[u] => t = u

(* main gets the roadmap only with every task that was begun finished, and   *)
(* the session is done only with all four final operations in effect.        *)
ShipsWholeTasks ==
    /\ \A o \in FOp : flanded[o] > 0 => \A t \in Task : phase[t] \in {"absent", "NEXT_TASK"}
    /\ cursor.mode = "DONE" => \A o \in FOp : flanded[o] > 0

(* What the session leaves to the owner, by design or by the code. *)
NeedsOwner ==
    \/ QueuePlan.state = "BLOCKED"
    \/ Cardinality(cursor.completed) >= Limit
    \/ cursor.mode = "TASK" /\
         \/ phase[Current] \in Unknown
         \/ phase[Current] # "NEXT_TASK" /\ ~PhaseReady
         \/ phase[Current] = "NEXT_TASK" /\ ~AssessMerged
         \/ QueuePlan.task \in cursor.completed \cup {Current}
         \/ cursor.pending # NoTask /\ phase[cursor.pending] # "PLAN"
         \/ cursor.pending # NoTask /\ QueuePlan.task # cursor.pending
    \/ cursor.mode = "FINAL" /\
         \/ Opened # {} \/ roadmap = "moved" \/ main \in {"moved", "odd", "ahead"}
         \/ comments > 1

=============================================================================

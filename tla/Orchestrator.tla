------------------------------ MODULE Orchestrator ------------------------------
(***************************************************************************)
(* The bounded executor / gate / controller loop of one task:              *)
(* agent_orchestrate.run(), the snapshot gate it calls (agent_gate), the   *)
(* retrospective memory it appends to (agent_memory) and the wrapper that  *)
(* turns an approved run into the artifact of the epic                     *)
(* (agent_epic_workflow.ReviewedWorkflow.run).                             *)
(*                                                                         *)
(* A call is one process.  Calls of one contract share the work tree, the  *)
(* run state file, the memory and the artifact.  In mode "epic" they are   *)
(* made under the lock of the supervisor, one at a time; in mode "cli"     *)
(* (agent_orchestrate.main) nothing keeps them apart and there is no       *)
(* artifact.                                                               *)
(*                                                                         *)
(* A version of the work tree is a member of Trees; what the code finds    *)
(* out about it is constant: Broken[t] is the set of checks that fail on   *)
(* it, Outside the versions with a change outside the allowlist, Policy    *)
(* the versions that touch a protected path below an allowed one.          *)
(***************************************************************************)
EXTENDS Naturals, FiniteSets

CONSTANTS
  Calls,       \* the processes that run the task
  Trees,       \* the versions of the work tree
  Pristine,    \* the version the first call finds
  Checks,      \* the checks of the mandatory profile
  Broken,      \* Broken[t]: the checks that fail on version t
  Outside,     \* versions that change a path outside the allowlist
  Policy,      \* versions that change a protected path
  MaxRepairs,  \* contract.max_repair_iterations
  MaxFaults,   \* bound, for each mode: crashes and failed writes
  MaxEdits,    \* bound, for each mode: changes of the tree by no running call
  None

ASSUME OrchestratorAssumption ==
  /\ IsFiniteSet(Calls)
  /\ Pristine \in Trees
  /\ Broken \in [Trees -> SUBSET Checks]
  /\ Outside \subseteq Trees
  /\ Policy \subseteq Trees
  /\ MaxRepairs \in 0..2
  /\ MaxFaults \in [{"epic", "cli"} -> Nat]
  /\ MaxEdits \in [{"epic", "cli"} -> Nat]
  /\ None \notin Calls \cup Trees

VARIABLES
  mode,      \* "epic" or "cli"
  delivery,  \* the contract has criteria only an external gate can check
  tree,      \* the work tree
  run,       \* run[c]: the locals of call c
  state,     \* the run state file of the contract
  memory,    \* the readable records of retrospectives.jsonl
  unended,   \* the last of them, while its line has no end yet
  torn,      \* the file holds a line that is no record: nothing reads it again
  lost,      \* history: ids whose append returned and left no record
  artifact,  \* the artifact the epic goes on with
  ran,       \* history: executor calls made for a run id
  approved,  \* history: <<id, version approved, version read>> of passing reviews
  faults, edits

vars == <<mode, delivery, tree, run, state, memory, unended, torn, lost, artifact,
          ran, approved, faults, edits>>

Working == {"preflight", "execute", "scope", "gate", "repair", "bind",
            "diff", "review", "record", "line", "save", "returning", "publish"}
Over    == {"ended", "raised", "crashed"}
Outcomes == {"PASS", "PENDING", "FAIL"}
Accepted == {"PASS", "PENDING"}

InScope(t) == t \notin Outside /\ t \notin Policy

Local == [at: {"idle"} \cup Working \cup Over, id: Calls \cup {None},
          repairs: 0..MaxRepairs, snap: Trees \cup {None},
          read: Trees \cup {None}, captured: Trees \cup {None},
          out: Outcomes, again: BOOLEAN,
          last: 0..MaxRepairs, storable: BOOLEAN]

\* The largest number of executor calls the history counts up to.
Cap == MaxRepairs + 2

TypeOK ==
  /\ mode \in {"epic", "cli"}
  /\ delivery \in BOOLEAN
  /\ tree \in Trees
  /\ run \in [Calls -> Local]
  /\ state \in [kind: {"none", "running", "terminal"}, id: Calls \cup {None},
                repairs: 0..MaxRepairs, out: Outcomes]
  /\ memory \subseteq [id: Calls, out: Outcomes, by: Calls]
  /\ unended \subseteq memory
  /\ torn \in BOOLEAN
  /\ lost \subseteq Calls
  /\ artifact \in [id: Calls, tree: Trees] \cup {None}
  /\ ran \in [Calls -> 0..Cap]
  /\ approved \subseteq Calls \X Trees \X Trees
  /\ faults \in 0..MaxFaults[mode]
  /\ edits \in 0..MaxEdits[mode]

\* The locals of a process that has not begun, and of one that is gone.
Blank == [at |-> "idle", id |-> None, repairs |-> 0, snap |-> None,
          read |-> None, captured |-> None, out |-> "FAIL", again |-> FALSE, last |-> 0,
          storable |-> TRUE]

Init ==
  /\ mode \in {"epic", "cli"}
  /\ delivery \in BOOLEAN
  /\ tree = Pristine
  /\ run = [c \in Calls |-> Blank]
  /\ state = [kind |-> "none", id |-> None, repairs |-> 0, out |-> "FAIL"]
  /\ memory = {}
  /\ unended = {}
  /\ torn = FALSE
  /\ lost = {}
  /\ artifact = None
  /\ ran = [c \in Calls |-> 0]
  /\ approved = {}
  /\ faults = 0
  /\ edits = 0

-----------------------------------------------------------------------------
At(c, place) == run[c].at = place
Go(c, place) == run' = [run EXCEPT ![c].at = place]
End(c, place) == run' = [run EXCEPT ![c] = [Blank EXCEPT !.at = place]]

\* finish(): the outcome is fixed and what the rounds kept is forgotten; memory,
\* state and caller come after it.
Closed(r, outcome) ==
  [r EXCEPT !.at = "record", !.out = outcome, !.snap = None, !.read = None, !.last = 0]

Finish(c) == run' = [run EXCEPT ![c] = Closed(@, "FAIL")]

\* An exception inside run()'s try is finished outside of it.
Raise(c) == run' = [run EXCEPT ![c] = [Closed(@, "FAIL") EXCEPT !.again = TRUE]]

\* Mutant of Repair: the counter stays where it is.
RepairUncounted(c, r) ==
  run' = [run EXCEPT ![c] =
            IF r.repairs >= MaxRepairs
            THEN Closed(r, "FAIL")
            ELSE [r EXCEPT !.at = "repair"]]

\* Another round if the contract allows one, with the counter saved first.
Repair(c, r) ==
  run' = [run EXCEPT ![c] =
            IF r.repairs >= MaxRepairs
            THEN Closed(r, "FAIL")
            ELSE [r EXCEPT !.at = "repair", !.repairs = @ + 1]]

Fault == faults < MaxFaults[mode] /\ faults' = faults + 1

outside == <<mode, delivery>>
shared  == <<state, memory, unended, torn, lost, artifact>>
history == <<ran, approved, edits>>

-----------------------------------------------------------------------------

\* Mutant of Begin: only an accepted outcome is an answer.
BeginUnlessAccepted(c) ==
  CASE state.kind = "terminal" /\ state.out \in Accepted ->
         [run[c] EXCEPT !.at = "returning", !.id = state.id,
                        !.repairs = state.repairs, !.out = state.out]
    [] state.kind = "running" ->
         [run[c] EXCEPT !.at = "record", !.id = state.id,
                        !.repairs = state.repairs, !.again = TRUE]
    [] OTHER -> [run[c] EXCEPT !.at = "preflight", !.id = c]

\* ReviewedWorkflow.run() returns a stored artifact; otherwise run() loads the
\* state.  A terminal state is the answer; a saved repair cannot be continued
\* without its feedback and is closed as failed; anything else is a new run.
Begin(c) ==
  CASE state.kind = "terminal" ->
         [run[c] EXCEPT !.at = "returning", !.id = state.id,
                        !.repairs = state.repairs, !.out = state.out]
    [] state.kind = "running" ->
         [run[c] EXCEPT !.at = "record", !.id = state.id,
                        !.repairs = state.repairs, !.again = TRUE]
    [] OTHER -> [run[c] EXCEPT !.at = "preflight", !.id = c]

\* The handover is validated against GitHub and the mandate again each time.
Refuse(c) == mode = "epic" /\ End(c, "raised")

Start(c) ==
  /\ At(c, "idle")
  /\ mode = "epic" => \A d \in Calls: run[d].at \notin Working
  /\ IF artifact # None
     THEN End(c, "ended")
     ELSE run' = [run EXCEPT ![c] = Begin(c)] \/ Refuse(c)
  /\ UNCHANGED <<tree, faults, outside, shared, history>>

\* Branch, base, private files, scope and trusted policy, before the loop.
Preflight(c) ==
  /\ At(c, "preflight")
  /\ \/ Raise(c)
     \/ InScope(tree) /\ Go(c, "execute")
  /\ UNCHANGED <<tree, faults, outside, shared, history>>

\* The process of a role may fail, run out of its time, answer too much or not
\* in the expected form: each of these ends the run.
Answered(c, place) == Raise(c) \/ Go(c, place)

\* One round of the executor.  Whatever it reports, it may have changed the
\* tree; a failed process, a malformed report or a moved HEAD ends the run.
Execute(c) ==
  /\ At(c, "execute")
  /\ \/ Finish(c) /\ UNCHANGED <<tree, ran>>            \* time budget
     \/ /\ ran' = [ran EXCEPT ![run[c].id] = IF @ < Cap THEN @ + 1 ELSE @]
        /\ tree' \in Trees
        /\ Answered(c, "scope") \/ Finish(c)            \* moved HEAD
  /\ UNCHANGED <<faults, outside, shared, approved, edits>>

Scope(c) ==
  /\ At(c, "scope")
  /\ IF InScope(tree) THEN Go(c, "gate") ELSE Raise(c)
  /\ UNCHANGED <<tree, faults, outside, shared, history>>

\* What the profile can report on a checkout of version t.
Statuses == {"passed", "failed", "timeout", "parse_error"}
Results(t) == {r \in [Checks -> Statuses]:
                 \A k \in Checks: r[k] = "passed" => k \notin Broken[t]}
Evidence(r) == [executed |-> DOMAIN r,
                status |-> IF \A k \in Checks: r[k] = "passed"
                           THEN "passed" ELSE "failed"]
GatePassing(e) == e.executed = Checks /\ e.status = "passed"

\* The session of the gate enforces the allowlist, not the protected paths.
SessionOpens == tree \notin Outside

\* The profile runs on a checkout of the snapshot the session takes; the
\* interpreter has to import the package from that checkout.
Gate(c) ==
  /\ At(c, "gate")
  /\ \/ Raise(c)                                        \* GateError
     \/ /\ SessionOpens
        /\ \E r \in Results(tree):
             IF GatePassing(Evidence(r))
             THEN run' = [run EXCEPT ![c].at = "bind", ![c].snap = tree]
             ELSE Repair(c, run[c])
  /\ UNCHANGED <<tree, faults, outside, shared, history>>

\* The counter of a repair is saved before the next round starts.
SaveRunning(c) ==
  /\ At(c, "repair")
  /\ \/ /\ state' = [kind |-> "running", id |-> run[c].id,
                     repairs |-> run[c].repairs, out |-> "FAIL"]
        /\ Go(c, "execute")
        /\ UNCHANGED faults
     \/ Fault /\ Raise(c) /\ UNCHANGED state
  /\ UNCHANGED <<tree, outside, memory, unended, torn, lost, artifact, history>>

\* Mutant of SameTree: only the tree is compared.
SameTreeOnly(c) == tree = run[c].snap

\* The tree is snapshotted again, protected paths included this time.
SameTree(c) == tree = run[c].snap /\ InScope(tree)

\* It has to be the one the evidence names.
Bind(c) ==
  /\ At(c, "bind")
  /\ \/ Raise(c)
     \/ SameTree(c) /\ Go(c, "diff")
  /\ UNCHANGED <<tree, faults, outside, shared, history>>

\* The diff for the controller is read from the work tree as it is by then.
Diff(c) ==
  /\ At(c, "diff")
  /\ \/ Raise(c)                                        \* git, OUTPUT_LIMIT
     \/ run' = [run EXCEPT ![c].at = "review", ![c].read = tree]
  /\ UNCHANGED <<tree, faults, outside, shared, history>>

-----------------------------------------------------------------------------
\* The text of a finding as redaction sees it: plain, a path, a secret, or a
\* path behind a character that redaction removes after it looked for paths.
Texts == {"plain", "path", "secret", "quoted path"}
Redacted(text) == CASE text = "plain" -> "plain"
                    [] text = "quoted path" -> "path"
                    [] OTHER -> "dropped"
\* validate_record() refuses a path in any string of the evidence.
Storable(text) == Redacted(text) # "path"

\* The verdict history of the record: the controller numbers its iterations
\* itself, and the memory takes only a history in order.  With the verdict
\* the round is over, and its versions are forgotten.
Noted(r, n, storable) ==
  [r EXCEPT !.last = n, !.storable = @ /\ storable /\ n >= r.last,
            !.snap = None, !.read = None]

\* The wrapper captures the snapshot of a passing review; any other review
\* makes it forget an earlier one.
Capture(c) == IF mode = "epic" THEN run[c].snap ELSE None

\* The controller reviews the diff it is given; what it passes is the snapshot
\* the evidence names.
Review(c) ==
  /\ At(c, "review")
  /\ \/ Raise(c) /\ UNCHANGED approved                  \* adapter, malformed
     \/ \E n \in 0..MaxRepairs:
          /\ approved' = approved \cup {<<run[c].id, run[c].snap, run[c].read>>}
          /\ run' = [run EXCEPT ![c] =
               [Closed(Noted(run[c], n, TRUE),
                       IF delivery THEN "PENDING" ELSE "PASS")
                  EXCEPT !.captured = Capture(c)]]
     \/ \E n \in 0..MaxRepairs, text \in Texts:
          LET r == [Noted(run[c], n, Storable(text)) EXCEPT !.captured = None]
          IN /\ \/ Repair(c, r)                         \* FAIL_RETRY
                \/ run' = [run EXCEPT ![c] = Closed(r, "FAIL")]  \* FAIL_ESCALATE
             /\ UNCHANGED approved
  /\ UNCHANGED <<tree, faults, outside, shared, ran, edits>>

-----------------------------------------------------------------------------
\* RetrospectiveStore.append(): the record is validated and every line is read
\* back first.  A second record of a run differs from the first in its time,
\* so it never counts as the same one.
Record(c) ==
  /\ At(c, "record")
  /\ IF torn \/ ~run[c].storable \/ \E m \in memory: m.id = run[c].id
     THEN run' = [run EXCEPT ![c].at = "save", ![c].out = "FAIL"]
     ELSE Go(c, "line")
  /\ UNCHANGED <<tree, faults, outside, shared, history>>

Entry(c) == [id |-> run[c].id, out |-> run[c].out, by |-> c]

\* How much of a line is in the file when its append is over.
Parts == {"none", "some", "unended", "whole"}

\* Whatever follows part of a line, or a line without its end, makes one line
\* with it that is no record.
Put(c, part) ==
  \/ part = "none" /\ UNCHANGED <<memory, unended, torn>>
  \/ /\ part \in {"unended", "whole"} /\ ~torn /\ unended = {}
     /\ memory' = memory \cup {Entry(c)}
     /\ unended' = IF part = "unended" THEN {Entry(c)} ELSE {}
     /\ UNCHANGED torn
  \/ /\ part = "some" \/ (part # "none" /\ (torn \/ unended # {}))
     /\ memory' = memory \ unended
     /\ unended' = {}
     /\ torn' = TRUE

\* The append returned; the history notes whether its record is there.
Appended(c) ==
  /\ Go(c, "save")
  /\ lost' = IF Entry(c) \in memory' THEN lost ELSE lost \cup {run[c].id}

\* Mutant of Line: a failed append is not a failure of the run.
LineBestEffort(c) ==
  /\ At(c, "line")
  /\ \/ Put(c, "whole") /\ UNCHANGED faults
     \/ Fault /\ Put(c, "none")
  /\ Go(c, "save")
  /\ UNCHANGED <<tree, outside, state, lost, artifact, history>>

\* The append raises and the run fails, whatever is in the file by then (only
\* os.fsync or os.chmod failed); or os.write wrote less than it was given, and
\* nobody looks at the length it returns.
Line(c) ==
  /\ At(c, "line")
  /\ \/ Put(c, "whole") /\ Appended(c) /\ UNCHANGED faults
     \/ /\ Fault
        /\ \/ /\ \E part \in Parts: Put(c, part)
              /\ run' = [run EXCEPT ![c].at = "save", ![c].out = "FAIL"]
              /\ UNCHANGED lost
           \/ \E part \in {"some", "unended"}: Put(c, part) /\ Appended(c)
  /\ UNCHANGED <<tree, outside, state, artifact, history>>

\* The terminal state.  A failed write inside run()'s try is finished once
\* more, as a failure; one outside of it leaves run() as an exception.
SaveTerminal(c) ==
  /\ At(c, "save")
  /\ \/ /\ state' = [kind |-> "terminal", id |-> run[c].id,
                     repairs |-> run[c].repairs, out |-> run[c].out]
        /\ Go(c, "returning")
        /\ UNCHANGED faults
     \/ /\ Fault
        /\ IF run[c].again
           THEN End(c, "raised")
           ELSE Raise(c)
        /\ UNCHANGED state
  /\ UNCHANGED <<tree, outside, memory, unended, torn, lost, artifact, history>>

\* run() returns.  The wrapper goes on only with an accepted outcome of a
\* review it captured itself.
Return(c) ==
  /\ At(c, "returning")
  /\ IF mode = "cli" THEN End(c, "ended")
     ELSE IF run[c].captured # None /\ run[c].out \in Accepted
          THEN Go(c, "publish")
          ELSE End(c, "raised")                  \* WORKFLOW_REVIEW_NOT_VERIFIED
  /\ UNCHANGED <<tree, faults, outside, shared, history>>

Publish(c) ==
  /\ At(c, "publish")
  /\ \/ /\ artifact' = [id |-> run[c].id, tree |-> run[c].captured]
        /\ End(c, "ended")
        /\ UNCHANGED faults
     \/ Fault /\ End(c, "raised") /\ UNCHANGED artifact
  /\ UNCHANGED <<tree, outside, state, memory, unended, torn, lost, history>>

-----------------------------------------------------------------------------
\* The process dies.  In the middle of an append any part of the line is left.
Crash(c) ==
  /\ run[c].at \in Working
  /\ Fault
  /\ End(c, "crashed")
  /\ IF At(c, "line") THEN \E part \in Parts: Put(c, part)
                      ELSE UNCHANGED <<memory, unended, torn>>
  /\ UNCHANGED <<tree, outside, state, lost, artifact, history>>

\* The tree changes under the calls: a process an executor left behind (only
\* the direct child of a call is killed on a timeout), or the owner.
Edit ==
  /\ edits < MaxEdits[mode]
  /\ edits' = edits + 1
  /\ tree' \in Trees
  /\ UNCHANGED <<run, faults, outside, shared, ran, approved>>

Step(c) ==
  \/ Preflight(c) \/ Execute(c) \/ Scope(c) \/ Gate(c) \/ SaveRunning(c)
  \/ Bind(c) \/ Diff(c) \/ Review(c) \/ Record(c) \/ Line(c) \/ SaveTerminal(c)
  \/ Return(c) \/ Publish(c)

Next ==
  \/ \E c \in Calls: Start(c) \/ Step(c) \/ Crash(c)
  \/ Edit

Spec == Init /\ [][Next]_vars
\* Adapter and gate processes run under timeouts, so a live call goes on.
FairSpec == Spec /\ \A c \in Calls: WF_vars(Step(c))

-----------------------------------------------------------------------------
\* Nobody but the supervisor's own run has touched the work tree.
Undisturbed == mode = "epic" /\ edits = 0

Verified(id, t) ==
  /\ Broken[t] = {} /\ InScope(t)
  /\ \E s \in Trees: <<id, t, s>> \in approved /\ (Undisturbed => s = t)

\* Whatever says a run was accepted - a memory record, the saved state, the
\* artifact - stands on a version of the tree that a controller passed for
\* that very run, on which every check of the profile had passed and which
\* changes no path outside the scope; also when the tree is changed by
\* others in the middle of the run and when runs overlap.  Unless others
\* changed it, that version is also the one whose diff the controller read.
PassIsVerified ==
  /\ \A m \in memory: m.out \in Accepted => \E t \in Trees: Verified(m.id, t)
  /\ state.kind = "terminal" /\ state.out \in Accepted
       => \E t \in Trees: Verified(state.id, t)
  /\ artifact # None => Verified(artifact.id, artifact.tree)

\* The controller reads the version its verdict is bound to
\* (agent_orchestrate.py:784).
ReadIsGated == \A a \in approved: a[2] = a[3]

\* Under the supervisor nothing is reported before it is recorded, but for one
\* cause: an accepted state has its record in the memory, over crashes, failed
\* saves and every append that raises, unless the append of that very run
\* returned over a write the file system cut short (its own, or an earlier one
\* it was written behind); and then no later record is taken either.  The
\* artifact belongs to the run the state names, and a run has one record.
ReportedIsRecorded ==
  mode = "epic" =>
    /\ state.kind = "terminal" /\ state.out \in Accepted
         => \/ \E m \in memory: m.id = state.id /\ m.out = state.out
            \/ state.id \in lost /\ torn
    /\ artifact # None => /\ state.kind = "terminal"
                          /\ state.id = artifact.id
                          /\ state.out \in Accepted
    /\ \A m1, m2 \in memory: m1.id = m2.id => m1 = m2

\* Every run that ends as accepted has its record (ADR-166, lines 15-16).  An
\* append that was cut short violates it (README, section 6).
AcceptedIsRecorded ==
  mode = "epic" /\ state.kind = "terminal" /\ state.out \in Accepted
    => \E m \in memory: m.id = state.id

\* No run calls the executor more often than its contract allows, over
\* crashes and resumptions: a repair whose feedback is lost is not repeated.
BoundedExecutor == \A c \in Calls: ran[c] <= MaxRepairs + 1

\* Under the supervisor the outcome of a contract is final.
TerminalIsFinal ==
  [][mode = "epic" /\ state.kind = "terminal" => state' = state]_state

\* Every call ends: rounds, repairs and second finishes are all bounded.
CallsEnd == \A c \in Calls: run[c].at \in Working ~> run[c].at \in Over
=============================================================================

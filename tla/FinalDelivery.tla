--------------------------- MODULE FinalDelivery ---------------------------
(***************************************************************************)
(* The delivery of a finished epic to main: open the roadmap pull request, *)
(* merge it, close the epic, report on it (tools/agent_epic_final_runtime, *)
(* agent_epic_final_delivery, agent_epic_final and agent_epic_final_       *)
(* transport).  deliver() asks the final gate twice, saves the intent in   *)
(* the final ledger, asks for the authority again, and the transport asks  *)
(* the gate a third time before its write.                                 *)
(*                                                                         *)
(* The world moves between any two of these steps: checks finish, others   *)
(* push to main or to the roadmap, open or close issues.  A write may take *)
(* effect after the call that sent it ended, or never.                     *)
(***************************************************************************)
EXTENDS Naturals, FiniteSets

CONSTANTS
    Child,     \* the issues that may be sub-issues of the epic
    MaxFaults  \* bound: crashes, failures and moves of others in a behaviour

VARIABLES
    fat, fop,    \* what the call does next, and for which operation
    entries,     \* final-ledger/delivery-ledger.json: status of each operation
    evidence,    \* final-artifacts: gate, negative tests and review of the roadmap
    owner,       \* the owner's final approval: none, valid or withdrawn
    issue,       \* the world: the state of each sub-issue; "none" is no sub-issue
    roadmap,     \* the world: the roadmap branch against the approved commit
    main,        \* the world: the main branch against the approved one
    pr,          \* the world: the roadmap pull request
    ci,          \* the world: the five checks on the pull request and on the merge
    epic,        \* the world: the epic issue
    comments,    \* the world: completion comments on the epic
    finflight,   \* the world: writes that may still take effect
    flanded,     \* history: how often each operation took effect
    faults       \* history, for MaxFaults

Create == 1
Merge  == 2
Close  == 3
Update == 4
FOp == {Create, Merge, Close, Update}
PostMerge == {Close, Update}

remote == <<issue, roadmap, main, pr, ci, epic, comments>>
fcall  == <<fat, fop>>
fvars  == <<fcall, entries, evidence, owner, remote, finflight, flanded>>

FSteps == {"off", "decide", "gate", "regate", "intent", "authority", "write",
           "verify", "unknown", "applied", "finished", "stopped"}

FinalTypeOK ==
    /\ fat \in FSteps /\ fop \in FOp
    /\ entries \in [FOp -> {"none", "INTENT", "UNKNOWN", "APPLIED"}]
    /\ evidence \in BOOLEAN
    /\ owner \in {"none", "valid", "withdrawn"}
    /\ issue \in [Child -> {"none", "OPEN", "CLOSED"}]
    /\ roadmap \in {"growing", "approved", "moved"}
    /\ main \in {"base", "moved", "merge", "odd", "ahead"}
    /\ pr \in {"none", "open", "merged"}
    /\ ci \in [{"pr", "main"} -> {"pending", "SUCCESS", "FAILURE"}]
    /\ epic \in {"OPEN", "CLOSED"} /\ comments \in Nat
    /\ finflight \subseteq FOp
    /\ flanded \in [FOp -> Nat]
    /\ faults \in 0 .. MaxFaults

FinalInit ==
    /\ fat = "off" /\ fop = Create
    /\ entries = [o \in FOp |-> "none"]
    /\ evidence = FALSE /\ owner = "none"
    /\ roadmap = "growing" /\ main = "base" /\ pr = "none"
    /\ ci = [s \in {"pr", "main"} |-> "pending"]
    /\ epic = "OPEN" /\ comments = 0
    /\ finflight = {} /\ flanded = [o \in FOp |-> 0]

Opened == {c \in Child : issue[c] = "OPEN"}
FGoto(s) == fat' = s /\ UNCHANGED fop
Fault == faults < MaxFaults /\ faults' = faults + 1
NoFault == UNCHANGED faults

-----------------------------------------------------------------------------
(* tools/agent_epic_final.py and FinalRuntime.gate() *)

(* assess_final_gate() and, for the merge, assess_roadmap_pr(). *)
ReadyForRelease(o) ==
    /\ roadmap = "approved" /\ main = "base" /\ Opened = {}
    /\ o = Merge => pr = "open" /\ ci["pr"] = "SUCCESS"

(* assess_main_post_merge(): the merge is main, and main's own checks passed. *)
RoadmapDone ==
    /\ roadmap = "approved" /\ Opened = {}
    /\ pr = "merged" /\ main = "merge" /\ ci["main"] = "SUCCESS"

(* Mutant: after the merge the gate still asks for the pull request's checks. *)
GateOfPR(o) ==
    owner = "valid" /\
        IF o \in PostMerge
        THEN roadmap = "approved" /\ Opened = {} /\ pr = "merged" /\ ci["pr"] = "SUCCESS"
        ELSE ReadyForRelease(o)

Gate(o) ==
    owner = "valid" /\ IF o \in PostMerge THEN RoadmapDone ELSE ReadyForRelease(o)

(* GhFinalTransport.reconcile() when its reads succeed. *)
Truth(o) ==
    CASE o = Create -> IF pr = "none" THEN "NOT_APPLIED"
                       ELSE IF pr = "open" /\ roadmap = "approved" /\ main = "base"
                            THEN "APPLIED" ELSE "UNKNOWN"
      [] o = Merge  -> IF main = "odd" THEN "UNKNOWN"
                       ELSE IF pr = "merged" THEN "APPLIED"
                       ELSE IF pr = "open" /\ roadmap = "approved" /\ main = "base"
                            THEN "NOT_APPLIED" ELSE "UNKNOWN"
      [] o = Close  -> IF epic = "CLOSED" THEN "APPLIED" ELSE "NOT_APPLIED"
      [] o = Update -> IF comments = 0 THEN "NOT_APPLIED"
                       ELSE IF comments = 1 THEN "APPLIED" ELSE "UNKNOWN"

Answer(o, a) ==
    \/ a = Truth(o) /\ NoFault
    \/ a = "UNKNOWN" /\ Truth(o) # a /\ Fault

-----------------------------------------------------------------------------
(* FinalRuntime.resume() and deliver() *)

(* To the next operation, or ROADMAP_DONE. *)
FProceed ==
    IF fop = Update THEN FGoto("finished") ELSE fat' = "decide" /\ fop' = fop + 1

(* _request(), the authority, and the ledger. *)
FDecide ==
    /\ fat = "decide"
    /\ \/ /\ owner # "valid"
          /\ FGoto("stopped") /\ NoFault /\ UNCHANGED entries
       \/ /\ owner = "valid" /\ entries[fop] = "none"
          /\ FGoto("gate") /\ NoFault /\ UNCHANGED entries
       \/ /\ owner = "valid" /\ entries[fop] = "APPLIED"
          /\ FProceed /\ NoFault /\ UNCHANGED entries
       \/ /\ owner = "valid" /\ entries[fop] \in {"INTENT", "UNKNOWN"}
          /\ \E a \in {"APPLIED", "NOT_APPLIED", "UNKNOWN"} :
                /\ Answer(fop, a)
                /\ \/ /\ a = "APPLIED" /\ FProceed
                      /\ entries' = [entries EXCEPT ![fop] = "APPLIED"]
                   \/ a = "NOT_APPLIED" /\ FGoto("gate") /\ UNCHANGED entries
                   \/ a = "UNKNOWN" /\ FGoto("stopped") /\ UNCHANGED entries
    /\ UNCHANGED <<evidence, owner, remote, finflight, flanded>>

(* The gate, twice; before the merge it needs the evidence _prepare() saves   *)
(* once for the approval: local gate, negative tests and controller review.  *)
FGate ==
    /\ fat \in {"gate", "regate"}
    /\ \/ /\ Gate(fop)
          /\ evidence' = (evidence \/ fop \notin PostMerge)
          /\ FGoto(IF fat = "gate" THEN "regate" ELSE "intent") /\ NoFault
       \/ /\ ~Gate(fop) /\ FGoto("stopped") /\ NoFault /\ UNCHANGED evidence
       \/ /\ Gate(fop) /\ Fault /\ FGoto("stopped") /\ UNCHANGED evidence
    /\ UNCHANGED <<entries, owner, remote, finflight, flanded>>

FIntent ==
    /\ fat = "intent"
    /\ entries' = [entries EXCEPT ![fop] = "INTENT"]
    /\ FGoto("authority")
    /\ UNCHANGED <<evidence, owner, remote, finflight, flanded, faults>>

(* A mandate that is gone now leaves the intent behind. *)
FAuthority ==
    /\ fat = "authority"
    /\ FGoto(IF owner = "valid" THEN "write" ELSE "stopped")
    /\ UNCHANGED <<entries, evidence, owner, remote, finflight, flanded, faults>>

(* What GitHub does with the write: one pull request per branch, a merge of  *)
(* the commit named, a closed issue stays closed, a comment is added.        *)
FLand(o) ==
    LET takes == \/ o = Create /\ pr = "none"
                 \/ o = Merge /\ pr = "open" /\ roadmap = "approved"
                 \/ o \in PostMerge IN
    /\ pr' = IF takes /\ o = Create THEN "open"
             ELSE IF takes /\ o = Merge THEN "merged" ELSE pr
    /\ main' = IF takes /\ o = Merge
               THEN IF main = "base" THEN "merge" ELSE "odd" ELSE main
    /\ epic' = IF o = Close THEN "CLOSED" ELSE epic
    /\ comments' = IF o = Update THEN comments + 1 ELSE comments
    /\ flanded' = IF takes THEN [flanded EXCEPT ![o] = @ + 1] ELSE flanded
    /\ UNCHANGED <<issue, roadmap, ci>>

FWrite ==
    /\ fat = "write"
    /\ \/ /\ Gate(fop)
          /\ \/ FLand(fop) /\ NoFault /\ UNCHANGED finflight
             \/ /\ finflight' = finflight \cup {fop}
                /\ Fault /\ UNCHANGED <<remote, flanded>>
             \/ Fault /\ UNCHANGED <<remote, flanded, finflight>>
          /\ FGoto("verify")
       \/ /\ ~Gate(fop) /\ FGoto("unknown")
          /\ NoFault /\ UNCHANGED <<remote, flanded, finflight>>
    /\ UNCHANGED <<entries, evidence, owner>>

LandLate(o) ==
    /\ o \in finflight
    /\ finflight' = finflight \ {o} /\ FLand(o)
    /\ UNCHANGED <<fcall, entries, evidence, owner, faults>>

(* Mutant: the write is taken for its receipt. *)
FVerifyNothing ==
    /\ fat = "verify" /\ FGoto("applied") /\ NoFault
    /\ UNCHANGED <<entries, evidence, owner, remote, finflight, flanded>>

(* The receipt is what the reconciliation after the write proves. *)
FVerify ==
    /\ fat = "verify"
    /\ \E a \in {"APPLIED", "NOT_APPLIED", "UNKNOWN"} :
          /\ Answer(fop, a)
          /\ FGoto(IF a = "APPLIED" THEN "applied" ELSE "unknown")
    /\ UNCHANGED <<entries, evidence, owner, remote, finflight, flanded>>

FUnknown ==
    /\ fat = "unknown"
    /\ entries' = [entries EXCEPT ![fop] = "UNKNOWN"]
    /\ FGoto("stopped")
    /\ UNCHANGED <<evidence, owner, remote, finflight, flanded, faults>>

FApplied ==
    /\ fat = "applied"
    /\ entries' = [entries EXCEPT ![fop] = "APPLIED"]
    /\ FProceed
    /\ UNCHANGED <<evidence, owner, remote, finflight, flanded, faults>>

FinalStep ==
    \/ FDecide \/ FGate \/ FIntent \/ FAuthority \/ FWrite \/ FVerify
    \/ FUnknown \/ FApplied

-----------------------------------------------------------------------------
(* The world and the owner *)

(* GitHub finishes the checks of the pull request or of main; failed ones may *)
(* be run again.                                                             *)
Check(s) ==
    /\ s = "pr" => pr # "none"
    /\ s = "main" => main \in {"merge", "odd", "ahead"}
    /\ ci[s] # "SUCCESS"
    /\ \/ ci' = [ci EXCEPT ![s] = "SUCCESS"] /\ NoFault
       \/ ci[s] = "pending" /\ ci' = [ci EXCEPT ![s] = "FAILURE"] /\ Fault
    /\ UNCHANGED <<fcall, entries, evidence, owner, issue, roadmap, main, pr, epic,
                   comments, finflight, flanded>>

(* Somebody else pushes to main. *)
MainMoves ==
    /\ Fault
    /\ main' = IF main = "base" THEN "moved" ELSE IF main = "merge" THEN "ahead" ELSE main
    /\ main' # main
    /\ UNCHANGED <<fcall, entries, evidence, owner, issue, roadmap, pr, ci, epic,
                   comments, finflight, flanded>>

(* Somebody else pushes to the approved roadmap branch. *)
RoadmapMoves ==
    /\ roadmap = "approved" /\ Fault
    /\ roadmap' = "moved"
    /\ UNCHANGED <<fcall, entries, evidence, owner, issue, main, pr, ci, epic,
                   comments, finflight, flanded>>

(* The owner withdraws the final approval, or gives it back. *)
Withdraw ==
    /\ owner = "valid" /\ Fault /\ owner' = "withdrawn"
    /\ UNCHANGED <<fcall, entries, evidence, remote, finflight, flanded>>

Reinstate ==
    /\ owner = "withdrawn" /\ owner' = "valid"
    /\ UNCHANGED <<fcall, entries, evidence, remote, finflight, flanded, faults>>

FinalWorld ==
    \/ \E o \in FOp : LandLate(o)
    \/ \E s \in {"pr", "main"} : Check(s)
    \/ MainMoves \/ RoadmapMoves \/ Withdraw \/ Reinstate

-----------------------------------------------------------------------------
(* The epic is closed and reported on only after the roadmap pull request is *)
(* merged and the merge commit passed its own five checks; the merge needs   *)
(* the reviewed evidence and the checks of the pull request (ADR-256).  The  *)
(* intents, crashes and late writes of several calls lie between.            *)
EpicClosedOnGreen ==
    /\ flanded[Merge] > 0 => evidence /\ ci["pr"] = "SUCCESS"
    /\ epic = "CLOSED" \/ comments > 0 =>
           pr = "merged" /\ ci["main"] = "SUCCESS"

(* The four operations take effect in their order and are recorded after     *)
(* that; only a close and a comment, which GitHub takes again, may repeat.   *)
FChain == INSTANCE PhaseChain WITH
    Last <- 4, Repeatable <- PostMerge,
    recorded <- Cardinality({o \in FOp : entries[o] = "APPLIED"}),
    effects <- flanded
FinalChain == FChain!Spec
=============================================================================

---------------------------- MODULE PhaseChain -----------------------------
(***************************************************************************)
(* What the epic loop promises of a task (ADR-253): its phases take effect *)
(* in the fixed order, each is recorded only after it took effect and the  *)
(* next one only starts after that, and except for the repeatable ones     *)
(* none takes effect twice.                                                *)
(***************************************************************************)
EXTENDS Naturals

CONSTANTS
    Last,       \* the number of phases after PLAN
    Repeatable  \* the phases that may take effect again

VARIABLES
    recorded,   \* the last phase recorded as completed; 0 is PLAN
    effects     \* how often each phase took effect

Init ==
    /\ recorded = 0
    /\ effects = [p \in 1 .. Last |-> 0]

(* The next phase takes effect, or a repeatable one that has been started.   *)
Effect(p) ==
    /\ \/ p = recorded + 1 /\ effects[p] = 0
       \/ p <= recorded + 1 /\ p \in Repeatable
    /\ effects' = [effects EXCEPT ![p] = @ + 1]
    /\ UNCHANGED recorded

Record ==
    /\ recorded < Last
    /\ effects[recorded + 1] > 0
    /\ recorded' = recorded + 1
    /\ UNCHANGED effects

Next == Record \/ \E p \in 1 .. Last : Effect(p)

Spec == Init /\ [][Next]_<<recorded, effects>>
=============================================================================

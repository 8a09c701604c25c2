----------------------------- MODULE MC_Orchestrator -----------------------------
EXTENDS Orchestrator

CONSTANTS fine, faulty, stray, guarded

\* A version that passes, one that fails a check, one with a change outside the
\* allowlist and one with a change of a protected path, the last two passing.
MCTrees == {fine, faulty, stray, guarded}
MCChecks == {"pytest", "ruff"}
MCBroken == [t \in MCTrees |-> IF t = faulty THEN {"pytest"} ELSE {}]
MCOutside == {stray}
MCPolicy == {guarded}
MCMaxFaults == [epic |-> 2, cli |-> 1]
MCMaxEdits == [epic |-> 1, cli |-> 0]
==================================================================================

SPECIFICATION FairSpec

CONSTANTS
    Calls = {c1, c2}
    Nobody = Nobody
    Budget = 2
    MaxApprovals = 6
    MaxFaults = 3

\* a bound task is a state without a step
CHECK_DEADLOCK FALSE

INVARIANT OneWritePerApproval
INVARIANT BoundIsReal
PROPERTY ImplementsPhaseChain
PROPERTY BootstrapIsBound

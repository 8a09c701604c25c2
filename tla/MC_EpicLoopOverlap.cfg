SPECIFICATION Spec

CONSTANTS
    Last = 5
    Demo = 3
    Reading = {3, 5}
    Unprovable = {1, 4}
    Runners = {r1, r2}
    Nobody = Nobody
    Delayed = TRUE
    Drift = TRUE
    MaxFaults = 2

SYMMETRY RunnerSymmetry

\* a finished task is a state without a step
CHECK_DEADLOCK FALSE

PROPERTY ImplementsPhaseChain
PROPERTY PauseHolds

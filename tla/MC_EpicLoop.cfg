SPECIFICATION FairSpec

CONSTANTS
    Last = 7
    Demo = 5
    Reading = {2, 4, 5, 7}
    Unprovable = {1, 6}
    Runners = {r1}
    Nobody = Nobody
    Delayed = FALSE
    Drift = FALSE
    MaxFaults = 3

\* a finished task is a state without a step
CHECK_DEADLOCK FALSE

INVARIANT IntentCoversEffect
INVARIANT BoundToDelivery
PROPERTY TaskIsDone

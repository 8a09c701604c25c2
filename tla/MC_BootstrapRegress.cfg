SPECIFICATION Spec

CONSTANTS
    Calls = {c1, c2}
    Nobody = Nobody
    Budget = 2
    MaxApprovals = 6
    MaxFaults = 2

CHECK_DEADLOCK FALSE

PROPERTY DoneStays

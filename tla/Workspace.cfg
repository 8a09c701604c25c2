SPECIFICATION FairSpec

CONSTANTS
    Own = Own
    Decoys = {o1, o2}
    Discards = {d1, d2}
    Home = Home
    Absent = Absent
    MaxMoves = 3

\* every call is one invocation, so finished calls are a state without a step
CHECK_DEADLOCK FALSE

INVARIANT WholeOrAway
INVARIANT SomeDiscardWins
PROPERTY OnlyOwnEmptied
PROPERTY DiscardedIsGone

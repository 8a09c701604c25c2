SPECIFICATION FairSpec

CONSTANTS
    small = small
    again = again
    large = large
    plain = plain
    Runs = {small, large, plain}
    Restores = {q1}
    Keys = {k1, k2}
    Tokens <- MCTokens
    TokensOf <- MCTokensOf
    Overwriters = {}
    Fallible = {small, large, plain}
    Absent = Absent
    Plain = Plain

\* every process is one invocation, so a finished run is a state without a step
CHECK_DEADLOCK FALSE

INVARIANT OkMeansOwnSet
INVARIANT RestoredFromOwnPrompt
PROPERTY ImplementsWriteOnce
PROPERTY SomeRunWins

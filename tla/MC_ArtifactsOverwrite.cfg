SPECIFICATION Spec

CONSTANTS
    small = small
    again = again
    large = large
    plain = plain
    Runs = {small, again, large, plain}
    Restores = {}
    Keys = {k1}
    Tokens <- MCTokens
    TokensOf <- MCTokensOf
    Overwriters = {large, plain}
    Fallible = {small, again, large, plain}
    Absent = Absent
    Plain = Plain

\* every process is one invocation, so a finished run is a state without a step
CHECK_DEADLOCK FALSE

INVARIANT SetIsOneRun
INVARIANT RouteLast
PROPERTY NoClobber

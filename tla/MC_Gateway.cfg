SPECIFICATION Spec

CONSTANTS
    small = small
    plain = plain
    Keys = {k1, k2, k3}
    Writers = {w1}
    NoKey = NoKey
    Commands <- AllCommands
    Lossy = TRUE
    Runs = {small, plain}
    Restores = {q1}
    Tokens = {1}
    TokensOf <- MCTokensOf
    Overwriters = {}
    Fallible = {small}
    Absent = Absent
    Plain = Plain

SYMMETRY KeySymmetry

\* the run and the restore end, and the bound on keys ends the rotations
CHECK_DEADLOCK FALSE

INVARIANT AnswerIsRestorable
PROPERTY OnlyLostKeysRefuse

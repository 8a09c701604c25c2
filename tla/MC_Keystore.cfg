SPECIFICATION Spec

CONSTANTS
    Keys = {k1, k2, k3, k4, k5}
    Writers = {w1}
    Readers = {r1, r2}
    NoKey = NoKey
    Commands <- RotateOnly
    Lossy = TRUE

SYMMETRY KeyReaderSymmetry

\* the bound on keys ends the rotations
CHECK_DEADLOCK FALSE

INVARIANTS TwoGenerationsReadable ReaderSeesStableKeys
PROPERTY ImplementsKeyRing

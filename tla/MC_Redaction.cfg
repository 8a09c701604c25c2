SPECIFICATION TextSpec

CONSTANTS
    a = a
    b = b
    A = A
    W = W
    S = S
    dot = dot
    Letters = {a, b, A, W, S, dot}
    Cased = {a, b, A, W, S}
    Ignorable = {dot}
    LeftBracket = LeftBracket
    RightBracket = RightBracket
    Lower <- MCLower
    FinalLower <- MCFinalLower
    Literals <- MCLiterals
    Patterns <- MCPatterns
    Dictionary <- MCDictionary
    Priority <- MCPriority
    Configs <- MCConfigs
    Residuals <- MCResiduals
    MaxLength = 4

\* a text is restored or refused once
CHECK_DEADLOCK FALSE

INVARIANT RoundTripWithinText
INVARIANT TokensNameValues
INVARIANT ResolvedByPolicy
INVARIANT SecretsBlock
INVARIANT NamesAreMaskedAtLength

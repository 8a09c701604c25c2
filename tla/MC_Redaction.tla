---------------------------- MODULE MC_Redaction ----------------------------
(***************************************************************************)
(* Instances of Redaction.  The values overlap in every way: one is part   *)
(* of another, two share an end, and a secret shares one with a name.      *)
(***************************************************************************)
EXTENDS Redaction

CONSTANTS
    a, b,  \* letters in lower case
    A,     \* upper case of a
    W,     \* an upper-case letter whose lower case is two letters
    S,     \* the capital sigma, of which a and b are the lower cases
    dot    \* a letter without case that does not end a word

MCLower == [x \in Letters |-> CASE x = A -> <<a>> [] x = W -> <<a, b>> [] x = S -> <<a>> [] OTHER -> <<x>>]
MCFinalLower == [MCLower EXCEPT ![S] = <<b>>]
MCPriority == [ENDPOINT |-> 1, EMAIL |-> 2, PERSON |-> 8, ORG |-> 8]
MCPatterns ==
    << [type |-> "PERSON", value |-> <<b, A>>, secret |-> TRUE],
       [type |-> "ENDPOINT", value |-> <<a, a, b>>, secret |-> FALSE],
       [type |-> "EMAIL", value |-> <<A, b>>, secret |-> FALSE] >>
MCDictionary ==
    << [type |-> "PERSON", value |-> <<A>>],
       [type |-> "ORG", value |-> <<a, a>>],
       [type |-> "PERSON", value |-> <<a, a>>] >>
MCLiterals == {[type |-> "EMAIL", num |-> 0], [type |-> "PERSON", num |-> 1]}
MCConfigs ==
    { [tokenize |-> Types, block |-> {}],
      [tokenize |-> {"PERSON"}, block |-> {"ORG"}] }
MCResiduals == {<<A, b>>}
=============================================================================

--------------------------- MODULE MC_Artifacts ----------------------------
(***************************************************************************)
(* Instances of Artifacts: documents with entities, whose token names      *)
(* overlap as every document's do, and one without.                        *)
(***************************************************************************)
EXTENDS Artifacts

CONSTANTS
    small,  \* run: a document with one entity
    again,  \* run: another document with one
    large,  \* run: a document with two
    plain   \* run: a document without entities

MCTokens == {1, 2}
MCTokensOf == [r \in Runs |-> CASE r \in {small, again} -> {1} [] r = large -> {1, 2}
                               [] OTHER -> {}]
=============================================================================

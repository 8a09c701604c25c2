---------------------------- MODULE MC_Gateway -----------------------------
(* Instances of Gateway: a document with one entity and one without. *)
EXTENDS Gateway, TLC

CONSTANTS
    small,  \* run: a document with an entity
    plain   \* run: a document without entities

AllCommands == {"rotate", "create", "force", "delete"}
MCTokensOf == [r \in Runs |-> IF r = small THEN {1} ELSE {}]

(* Keys are interchangeable. *)
KeySymmetry == Permutations(Keys)
=============================================================================

----------------------------- MODULE WriteOnce -----------------------------
(***************************************************************************)
(* What prepare without --overwrite promises of an output directory,       *)
(* whatever runs and crashes meet there: it holds no usable set of         *)
(* artifacts, then possibly the set of one run, and then that one forever. *)
(***************************************************************************)
CONSTANTS
    Runs,        \* prepare runs on the directory
    ManifestOf,  \* ManifestOf[r]: the bytes of the manifest of run r
    NoSet        \* the directory has no route.json

VARIABLE set

SetOf(r) ==
    [manifest |-> ManifestOf[r], prompt |-> r,
     route |-> [by |-> r, sum |-> ManifestOf[r]]]

Init == set = NoSet

Publish(r) == set = NoSet /\ set' = SetOf(r)

Next == \E r \in Runs : Publish(r)

Spec == Init /\ [][Next]_set
=============================================================================

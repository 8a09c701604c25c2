------------------------------ MODULE KeyRing ------------------------------
(***************************************************************************)
(* What the keystore promises its readers (ADR-46): at any time the API    *)
(* hands out the active key followed by at most one retired key, the one   *)
(* that was active immediately before, and a rotation replaces the pair in *)
(* one step.  The module states the promise for rotations only: creating   *)
(* and deleting keys start a new history and promise nothing about the old *)
(* one.                                                                    *)
(***************************************************************************)
EXTENDS Naturals, Sequences

CONSTANT Keys       \* Fernet keys

VARIABLE ring       \* the keys the API hands out, the active one first

(* No key at all, one key (never rotated), or two different ones. *)
Rings == {<< >>} \cup {<<k>> : k \in Keys} \cup
         {<<p[1], p[2]>> : p \in {q \in Keys \X Keys : q[1] # q[2]}}

Init == ring \in Rings

(* The new key becomes active, the active one becomes the retired one. *)
Rotate(k) ==
    /\ ring # << >>
    /\ \A i \in 1 .. Len(ring) : ring[i] # k
    /\ ring' = <<k, ring[1]>>

Next == \E k \in Keys : Rotate(k)

Spec == Init /\ [][Next]_ring
=============================================================================

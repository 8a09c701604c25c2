---------------------------- MODULE MC_Bootstrap ---------------------------
(* Values for the constants of Bootstrap. *)
EXTENDS Bootstrap, TLC
=============================================================================

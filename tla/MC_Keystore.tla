---------------------------- MODULE MC_Keystore ----------------------------
(* Values for the constants of Keystore. *)
EXTENDS Keystore, TLC

RotateOnly == {"rotate"}

(* Keys and readers are interchangeable. *)
KeySymmetry == Permutations(Keys)
KeyReaderSymmetry == Permutations(Keys) \cup Permutations(Readers)
=============================================================================

---------------------------- MODULE MC_EpicLoop ----------------------------
(* Values for the constants of EpicLoop. *)
EXTENDS EpicLoop, TLC

(* Overlapping calls are interchangeable. *)
RunnerSymmetry == Permutations(Runners)
=============================================================================

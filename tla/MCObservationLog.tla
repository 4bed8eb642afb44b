-------------------------- MODULE MCObservationLog --------------------------
(* A small instance of ObservationLog for TLC. *)
EXTENDS ObservationLog, TLC

MCLegacy == {0, 1, 3} \X Runs
RunSymmetry == Permutations(Runs)
=============================================================================

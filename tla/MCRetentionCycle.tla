-------------------------- MODULE MCRetentionCycle --------------------------
(* Instances of RetentionCycle for TLC. *)
EXTENDS RetentionCycle, TLC

CONSTANTS a, b

OneCamera == {1}
TwoCameras == {1, 2}
WorkerSymmetry == Permutations(Worker)
=============================================================================

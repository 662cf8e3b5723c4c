------------------------- MODULE MCArchiveMigration -------------------------
(* Instances of ArchiveMigration for TLC. *)
EXTENDS ArchiveMigration, TLC

CONSTANTS a, b

WorkerSymmetry == Permutations(Worker)
=============================================================================

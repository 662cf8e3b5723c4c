------------------------ MODULE MCOperationConflicts ------------------------
(* Instances of OperationConflicts for TLC. *)
EXTENDS OperationConflicts, TLC

CONSTANTS c1, c2, w1, i1, i2, q1, q2

\* An immediate deletion and a background migration over the same scope.
DeleteVersusMigration == {<<i1, q1>>, <<q1, i1>>}

ClientSymmetry == Permutations(Client)
=============================================================================

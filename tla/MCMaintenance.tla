--------------------------- MODULE MCMaintenance ---------------------------
(* Instances of Maintenance for TLC. *)
EXTENDS Maintenance, TLC

CONSTANTS create, check, delete, new, old

\* A backup is made while another one is checked and then deleted.
Kinds == create :> "create" @@ check :> "check" @@ delete :> "delete"
Artifacts == create :> new @@ check :> old @@ delete :> old
=============================================================================

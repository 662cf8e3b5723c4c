------------------------- MODULE ExclusiveAdmission -------------------------
(***************************************************************************)
(* What the coordinated claim of storage operations promises its callers:  *)
(* an operation is admitted only while no admitted operation conflicts     *)
(* with it, and it stays admitted until it ends.                           *)
(***************************************************************************)
CONSTANTS Op, Conflict

VARIABLE admitted   \* operations whose handle is out and whose lease held

Init == admitted = {}

Admit(o) ==
    /\ o \notin admitted
    /\ \A b \in admitted : <<o, b>> \notin Conflict
    /\ admitted' = admitted \cup {o}

\* The operation finishes, or its lease runs out.
Leave(o) ==
    /\ o \in admitted
    /\ admitted' = admitted \ {o}

Next == \E o \in Op : Admit(o) \/ Leave(o)

Spec == Init /\ [][Next]_admitted
=============================================================================

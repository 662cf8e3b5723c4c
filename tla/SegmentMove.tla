---------------------------- MODULE SegmentMove ----------------------------
(***************************************************************************)
(* What moving recordings to another archive root promises whoever plays   *)
(* them back: whatever else happens, the place the catalogue names for a   *)
(* recording holds a complete copy of it, and the catalogue moves at most  *)
(* once, from the source to the target.                                    *)
(***************************************************************************)
CONSTANT Recording

VARIABLES
    place,    \* where the catalogue says a recording is
    copies    \* the roots that hold a complete copy of it

Init ==
    /\ place = [r \in Recording |-> "source"]
    /\ copies = [r \in Recording |-> {"source"}]

\* A complete copy appears at the target.
Copy(r) ==
    /\ place[r] = "source"
    /\ copies' = [copies EXCEPT ![r] = @ \cup {"target"}]
    /\ UNCHANGED place

\* The catalogue is switched to a copy that is there.
Switch(r) ==
    /\ place[r] = "source"
    /\ "target" \in copies[r]
    /\ place' = [place EXCEPT ![r] = "target"]
    /\ UNCHANGED copies

\* A copy the catalogue does not name is removed.
Discard(r, root) ==
    /\ place[r] # root
    /\ copies' = [copies EXCEPT ![r] = @ \ {root}]
    /\ UNCHANGED place

\* The recording is deleted, with the copy the catalogue names.
Delete(r) ==
    /\ place[r] # "deleted"
    /\ place' = [place EXCEPT ![r] = "deleted"]
    /\ copies' = [copies EXCEPT ![r] = @ \ {place[r]}]

Next ==
    \E r \in Recording :
        \/ Copy(r)
        \/ Switch(r)
        \/ \E root \in {"source", "target"} : Discard(r, root)
        \/ Delete(r)

Spec == Init /\ [][Next]_<<place, copies>>
=============================================================================

------------------------- MODULE IntegrityRemediation -------------------------
(***************************************************************************)
(* Plans that remedy what a scan of the archive found: a recording without *)
(* its file is taken out of the catalogue, an unusable recording is        *)
(* deleted, a file without a recording is deleted by way of a quarantine.  *)
(* A plan is applied by the request of its author or, when that died, by   *)
(* the recovery of the integrity worker; both write down what they are     *)
(* about to do to the files before they do it.                             *)
(*                                                                         *)
(* One finding about one place of the archive, and the plans for it.       *)
(***************************************************************************)
EXTENDS Naturals

CONSTANTS
    Plan, Executor, Nobody,
    Refill,     \* may a file turn up at the place while its predecessor is in quarantine?
    MaxEvents   \* bound on crashes, delays, failures and changes by others together

VARIABLES
    kind,       \* what the finding says
    finding,
    plan,       \* the rows of each plan, its item and its operation
    file, row,  \* what lies at the place, and the row of the recording
    exec,       \* the threads that apply plans
    coord,      \* holder of the coordinator lease of the plans
    scoped,     \* the plan with a destructive scope lease, a file
    touched,    \* did others change the place, or its row?
    spent

vars == <<kind, finding, plan, file, row, exec, coord, scoped, touched, spent>>
place == <<file, row>>
leases == <<coord, scoped>>

-----------------------------------------------------------------------------
Kinds == {"missing", "stale", "unusable", "orphan"}
Terminal == {"completed", "partial", "blocked", "failed", "cancelled"}
PendingItem == {"physical_mutation_prepared", "quarantine_prepared", "quarantined",
                "delete_committing", "physical_mutation_committed"}

\* whole: the operation that prepared the plan and its audit came to their end.
\* bound: the plan names its operation.  took: what it removed.
NoPlan == [state |-> "none", item |-> "none", whole |-> FALSE, expired |-> FALSE,
           op |-> "none", bound |-> FALSE, owner |-> Nobody, saved |-> "none",
           quarantine |-> "none", took |-> "none"]
Idle == [at |-> "idle", plan |-> Nobody, mode |-> "none"]

Init ==
    /\ kind \in Kinds /\ finding = "active"
    /\ plan = [p \in Plan |-> NoPlan]
    /\ file = (IF kind = "missing" THEN "none" ELSE "it")
    /\ row = (IF kind = "orphan" THEN "none" ELSE "kept")
    /\ exec = [e \in Executor |-> Idle]
    /\ coord = Nobody /\ scoped = Nobody
    /\ touched = FALSE /\ spent = 0

Event == spent < MaxEvents /\ spent' = spent + 1

Pending(p) == plan[p].item \in PendingItem
Open(p) == plan[p].state \in {"prepared", "running", "terminal_pending"}
Live(p) == plan[p].op \in {"running", "cancel_requested"}

\* A live operation of another plan of the root conflicts.
Free(p) == \A q \in Plan \ {p} : plan[q].owner = Nobody

\* _apply_context: the finding and what it says of the row still hold.
Context == finding = "active" /\ (kind # "orphan" => row = "kept")

\* The revalidation of each kind of finding.
Valid ==
    CASE kind = "missing"  -> row = "kept" /\ file = "none"
      [] kind = "unusable" -> row = "kept" /\ file = "it"
      [] kind = "orphan"   -> row = "none" /\ file = "it"
      [] OTHER             -> row = "kept" /\ file = "it"

-----------------------------------------------------------------------------
(* Plans.                                                                  *)

\* create_remediation_plan: the plan, then the end of its operation and the audit.
Prepare ==
    \E p \in Plan :
        /\ plan[p].state = "none" /\ Context /\ Valid
        /\ plan' = [plan EXCEPT ![p].state = "prepared", ![p].item = "prepared"]
        /\ UNCHANGED <<kind, finding, exec, touched, spent>> /\ UNCHANGED place
        /\ UNCHANGED leases

PrepareEnds ==
    \E p \in Plan :
        /\ plan[p].state # "none" /\ ~plan[p].whole
        /\ plan' = [plan EXCEPT ![p].whole = TRUE]
        /\ UNCHANGED <<kind, finding, exec, touched, spent>> /\ UNCHANGED place
        /\ UNCHANGED leases

Expire ==
    \E p \in Plan :
        /\ plan[p].state = "prepared" /\ ~plan[p].expired
        /\ plan' = [plan EXCEPT ![p].expired = TRUE]
        /\ UNCHANGED <<kind, finding, exec, touched, spent>> /\ UNCHANGED place
        /\ UNCHANGED leases

RequestCancel ==
    \E p \in Plan :
        /\ plan[p].op = "running" /\ Event
        /\ plan' = [plan EXCEPT ![p].op = "cancel_requested"]
        /\ UNCHANGED <<kind, finding, exec, touched>> /\ UNCHANGED place /\ UNCHANGED leases

-----------------------------------------------------------------------------
(* Claiming the operation of a plan, under the coordinator lease.          *)

Goes(e, where) == exec' = [exec EXCEPT ![e].at = where]
Leaves(e) == exec' = [exec EXCEPT ![e] = Idle]

\* The plan that the recovery takes up: first the finished, then the begun ones, then
\* those with an operation they do not name.
Selected(p) ==
    LET saved == {q \in Plan : plan[q].state = "terminal_pending"}
        begun == {q \in Plan : /\ plan[q].state = "running" /\ plan[q].bound
                               /\ Pending(q) \/ plan[q].item = "running"}
    IN IF saved # {} THEN p \in saved
       ELSE IF begun # {} THEN p \in begun ELSE Open(p) /\ ~plan[p].bound

Asks(e, p, mode) ==
    /\ exec[e].at = "idle" /\ coord = Nobody
    /\ mode = "recovery" => Selected(p)

\* The operation of a plan that names it: with a result already saved or a mutation
\* begun it goes on whatever became of the finding.
Reclaim(e, p, mode) ==
    /\ Asks(e, p, mode) /\ plan[p].bound /\ Live(p) /\ plan[p].owner = Nobody
    /\ \/ plan[p].state = "terminal_pending"
       \/ plan[p].state = "running" /\ Free(p) /\ (Pending(p) \/ Context)
    /\ plan' = [plan EXCEPT ![p].owner = e]
    /\ exec' = [exec EXCEPT ![e] = [at |-> "look", plan |-> p, mode |-> mode]]
    /\ UNCHANGED <<kind, finding, touched, spent>> /\ UNCHANGED place /\ UNCHANGED leases

Bound(p, e) ==
    [plan[p] EXCEPT !.state = "running", !.item = "running", !.bound = TRUE, !.owner = e]
Retired(p) ==
    [plan[p] EXCEPT !.state = "blocked", !.item = "blocked", !.op = "blocked",
                    !.bound = TRUE, !.owner = Nobody]

\* An operation that its plan does not name, left by a request that died: it is bound and
\* gone on with, or, of a plan that expired or lost its ground, ended.
Adopt(e, p, mode) ==
    /\ Asks(e, p, mode) /\ ~plan[p].bound /\ plan[p].state = "prepared" /\ Live(p)
    /\ plan[p].owner = Nobody /\ plan[p].whole
    /\ \/ /\ plan[p].expired \/ ~Context
          /\ plan' = [plan EXCEPT ![p] = Retired(p)] /\ UNCHANGED exec
       \/ /\ ~plan[p].expired /\ Context /\ Free(p)
          /\ plan' = [plan EXCEPT ![p] = Bound(p, e)]
          /\ exec' = [exec EXCEPT ![e] = [at |-> "look", plan |-> p, mode |-> mode]]
    /\ UNCHANGED <<kind, finding, touched, spent>> /\ UNCHANGED place /\ UNCHANGED leases

\* The request claims a new operation in one transaction and binds it in the next.
Claim(e, p) ==
    /\ Asks(e, p, "client") /\ plan[p].state = "prepared" /\ plan[p].op = "none"
    /\ \/ /\ plan[p].expired
          /\ plan' = [plan EXCEPT ![p].state = "blocked"] /\ UNCHANGED <<exec, coord>>
       \/ /\ ~plan[p].expired /\ Context /\ Free(p)
          /\ plan' = [plan EXCEPT ![p].op = "running", ![p].owner = e]
          /\ coord' = e
          /\ exec' = [exec EXCEPT ![e] = [at |-> "bind", plan |-> p, mode |-> "client"]]
    /\ UNCHANGED <<kind, finding, scoped, touched, spent>> /\ UNCHANGED place

Binds(e) == coord = e /\ plan[exec[e].plan].owner = e

Bind(e) ==
    LET p == exec[e].plan IN
    /\ exec[e].at = "bind"
    /\ coord' = IF coord = e THEN Nobody ELSE coord
    /\ IF ~Binds(e) \/ ~plan[p].whole THEN Leaves(e) /\ UNCHANGED plan
       ELSE IF plan[p].expired THEN Leaves(e) /\ plan' = [plan EXCEPT ![p] = Retired(p)]
       ELSE Goes(e, "look") /\ plan' = [plan EXCEPT ![p] = Bound(p, e)]
    /\ UNCHANGED <<kind, finding, scoped, touched, spent>> /\ UNCHANGED place

-----------------------------------------------------------------------------
(* Applying a plan.                                                        *)

Here(e, where) == exec[e].at = where
Mine(e) == plan[exec[e].plan].owner = e

\* _finish_plan: plan, item, finding and operation in one transaction, fenced.
Finished(p, status) ==
    /\ plan' = [plan EXCEPT ![p].state = status, ![p].item = status, ![p].op = status,
                            ![p].owner = Nobody]
    /\ finding' = IF status = "completed" /\ finding = "active" THEN "resolved" ELSE finding

Finish(e, status) ==
    /\ Leaves(e)
    /\ IF Mine(e) THEN Finished(exec[e].plan, status) ELSE UNCHANGED <<plan, finding>>

\* What becomes of a plan that is refused: one whose mutation may have begun is tried
\* once more by the request and else stays as it is.
Refuse(e, status) ==
    IF Pending(exec[e].plan)
    THEN /\ UNCHANGED <<plan, finding>>
         /\ IF exec[e].mode = "client"
            THEN exec' = [exec EXCEPT ![e].at = "look", ![e].mode = "last"] ELSE Leaves(e)
    ELSE IF exec[e].mode = "client" THEN Finish(e, status)
    ELSE Leaves(e) /\ UNCHANGED <<plan, finding>>

LeavesScope(e) == scoped' = IF scoped = exec[e].plan THEN Nobody ELSE scoped

\* The item of an unusable recording whose deletion had begun, and of an orphan that may
\* be in quarantine.
Apply(e) == IF exec[e].mode = "last" THEN Leaves(e) ELSE Goes(e, "apply")

\* Slip: whatever was renamed is taken for what was found.
Trusts(p) == TRUE

\* _verify_quarantine_entry: the file in quarantine is the one that was found.
Matches(p) == plan[p].quarantine = "it"

RecoverUnusable(e) ==
    LET p == exec[e].plan IN
    /\ UNCHANGED scoped
    /\ IF file = "none"
       THEN /\ row' = "deleted"
            /\ plan' = [plan EXCEPT ![p].state = "terminal_pending", ![p].saved = "completed",
                                    ![p].item = "physical_mutation_committed"]
            /\ Goes(e, "finish") /\ UNCHANGED finding
       ELSE /\ UNCHANGED row
            /\ IF row = "kept" /\ file = "it"
               THEN Apply(e) /\ UNCHANGED <<plan, finding>> ELSE Refuse(e, "blocked")

\* By where the file is now: still at its place, in quarantine, or nowhere.
RecoverOrphan(e) ==
    LET p == exec[e].plan
        away == file = "none"
        kept == plan[p].quarantine # "none"
    IN
    /\ UNCHANGED row
    /\ IF ~Mine(e) THEN Leaves(e) /\ UNCHANGED <<plan, finding, scoped>>
       ELSE IF scoped # Nobody THEN Refuse(e, "blocked") /\ UNCHANGED scoped
       ELSE IF away /\ Matches(p)
       THEN /\ Goes(e, "commit") /\ scoped' = p /\ UNCHANGED finding
            /\ plan' = [plan EXCEPT ![p].item =
                   IF @ = "delete_committing" THEN @ ELSE "quarantined"]
       ELSE IF away /\ ~kept /\ plan[p].item = "delete_committing"
       THEN Goes(e, "gone") /\ scoped' = p /\ UNCHANGED <<plan, finding>>
       ELSE IF ~away /\ ~kept /\ plan[p].item = "quarantine_prepared"
       THEN Apply(e) /\ UNCHANGED <<plan, finding, scoped>>
       ELSE Refuse(e, "blocked") /\ UNCHANGED scoped

Unpend(e) ==
    /\ UNCHANGED <<scoped, row>>
    /\ IF exec[e].mode = "client" /\ plan[exec[e].plan].op = "cancel_requested"
       THEN Finish(e, "cancelled") ELSE Apply(e) /\ UNCHANGED <<plan, finding>>

Look(e) ==
    LET p == exec[e].plan IN
    /\ Here(e, "look")
    /\ \/ /\ plan[p].state = "terminal_pending"
          /\ Goes(e, "finish") /\ UNCHANGED <<plan, finding, scoped, row>>
       \/ /\ plan[p].state \notin {"terminal_pending", "running"}
          /\ Leaves(e) /\ UNCHANGED <<plan, finding, scoped, row>>
       \/ /\ plan[p].state = "running" /\ exec[e].mode = "client" /\ finding # "active"
          /\ Refuse(e, "blocked") /\ UNCHANGED <<scoped, row>>
       \/ /\ plan[p].state = "running" /\ (exec[e].mode = "client" => finding = "active")
          /\ CASE plan[p].item = "physical_mutation_prepared" -> RecoverUnusable(e)
               [] plan[p].item \in {"quarantine_prepared", "quarantined",
                                    "delete_committing"} -> RecoverOrphan(e)
               [] OTHER -> Unpend(e)
    /\ UNCHANGED <<kind, file, coord, touched, spent>>

ApplyMissing(e) == row' = "deleted" /\ Finish(e, "completed") /\ UNCHANGED scoped

\* What is about to be done is written down first, of an orphan inside the scope.
ApplyUnusable(e) ==
    /\ plan' = [plan EXCEPT ![exec[e].plan].item = "physical_mutation_prepared"]
    /\ Goes(e, "delete") /\ UNCHANGED <<row, finding, scoped>>

ApplyOrphan(e) ==
    /\ UNCHANGED row
    /\ IF scoped # Nobody THEN Refuse(e, "blocked") /\ UNCHANGED scoped
       ELSE /\ plan' = [plan EXCEPT ![exec[e].plan].item = "quarantine_prepared"]
            /\ Goes(e, "rename") /\ scoped' = exec[e].plan /\ UNCHANGED finding

Mutate(e) ==
    /\ Here(e, "apply")
    /\ IF kind = "stale" \/ ~Context \/ ~Valid
       THEN Refuse(e, "blocked") /\ UNCHANGED <<row, scoped>>
       ELSE IF ~Mine(e) THEN Leaves(e) /\ UNCHANGED <<plan, finding, row, scoped>>
       ELSE CASE kind = "missing"  -> ApplyMissing(e)
              [] kind = "unusable" -> ApplyUnusable(e)
              [] kind = "orphan"   -> ApplyOrphan(e)
    /\ UNCHANGED <<kind, file, coord, touched, spent>>

\* execute_segments with what the plan expects: the file, then the row.
Delete(e) ==
    LET p == exec[e].plan IN
    /\ Here(e, "delete")
    /\ IF ~Mine(e) THEN Leaves(e) /\ UNCHANGED <<plan, finding, file, scoped>>
       ELSE IF scoped # Nobody \/ ~Context \/ ~Valid
       THEN Refuse(e, "blocked") /\ UNCHANGED <<file, scoped>>
       ELSE /\ plan' = [plan EXCEPT ![p].took = file] /\ file' = "none" /\ scoped' = p
            /\ Goes(e, "deleted") /\ UNCHANGED finding
    /\ UNCHANGED <<kind, row, coord, touched, spent>>

Deleted(e) ==
    /\ Here(e, "deleted")
    /\ row' = "deleted" /\ LeavesScope(e) /\ Goes(e, "gone")
    /\ UNCHANGED <<kind, finding, plan, file, coord, touched, spent>>

\* Into the quarantine, and the comparison with what was seen before.
Rename(e) ==
    LET p == exec[e].plan IN
    /\ Here(e, "rename")
    /\ IF ~Mine(e) THEN Leaves(e) /\ LeavesScope(e) /\ UNCHANGED <<plan, finding, file>>
       ELSE IF file = "none" THEN Refuse(e, "blocked") /\ LeavesScope(e) /\ UNCHANGED file
       ELSE /\ plan' = [plan EXCEPT ![p].quarantine = file] /\ file' = "none"
            /\ Goes(e, "compare") /\ UNCHANGED <<finding, scoped>>
    /\ UNCHANGED <<kind, row, coord, touched, spent>>

Compare(e) ==
    LET p == exec[e].plan IN
    /\ Here(e, "compare")
    /\ IF Matches(p)
       THEN /\ plan' = [plan EXCEPT ![p].item = "quarantined"] /\ Goes(e, "commit")
            /\ UNCHANGED <<finding, file, scoped>>
       ELSE /\ plan' = [plan EXCEPT ![p].quarantine = "none"] /\ file' = plan[p].quarantine
            /\ LeavesScope(e) /\ UNCHANGED finding
            /\ IF exec[e].mode = "client"
               THEN exec' = [exec EXCEPT ![e].at = "look", ![e].mode = "last"]
               ELSE Leaves(e)
    /\ UNCHANGED <<kind, row, coord, touched, spent>>

\* The word that the file is to go, then its end.
Commit(e) ==
    LET p == exec[e].plan IN
    /\ Here(e, "commit")
    /\ IF ~Mine(e) THEN Leaves(e) /\ LeavesScope(e) /\ UNCHANGED plan
       ELSE plan' = [plan EXCEPT ![p].item = "delete_committing"] /\ Goes(e, "unlink")
            /\ UNCHANGED scoped
    /\ UNCHANGED <<kind, finding, file, row, coord, touched, spent>>

Unlink(e) ==
    LET p == exec[e].plan IN
    /\ Here(e, "unlink")
    /\ IF ~Mine(e) THEN Leaves(e) /\ LeavesScope(e) /\ UNCHANGED plan
       ELSE /\ plan' = [plan EXCEPT ![p].took = plan[p].quarantine, ![p].quarantine = "none"]
            /\ Goes(e, "gone") /\ UNCHANGED scoped
    /\ UNCHANGED <<kind, finding, file, row, coord, touched, spent>>

\* _persist_physical_outcome, which asks for a running plan and not for the lease.
Gone(e) ==
    LET p == exec[e].plan IN
    /\ Here(e, "gone") /\ LeavesScope(e)
    /\ IF plan[p].state = "running"
       THEN /\ plan' = [plan EXCEPT ![p].state = "terminal_pending",
                   ![p].saved = "completed", ![p].item = "physical_mutation_committed"]
            /\ Goes(e, "finish")
       ELSE /\ UNCHANGED plan
            /\ IF plan[p].saved = "completed" THEN Goes(e, "finish") ELSE Leaves(e)
    /\ UNCHANGED <<kind, finding, file, row, coord, touched, spent>>

End(e) ==
    /\ Here(e, "finish") /\ Finish(e, plan[exec[e].plan].saved)
    /\ UNCHANGED <<kind, coord, scoped, touched, spent>> /\ UNCHANGED place

\* An error of the file system or the database.
Fail(e) ==
    /\ exec[e].at \in {"look", "apply", "delete", "rename", "commit", "unlink", "gone",
                       "finish"}
    /\ Event /\ LeavesScope(e)
    /\ IF plan[exec[e].plan].state = "running" THEN Refuse(e, "failed")
       ELSE Leaves(e) /\ UNCHANGED <<plan, finding>>
    /\ UNCHANGED <<kind, coord, touched>> /\ UNCHANGED place

Step(e) ==
    \/ Bind(e) \/ Look(e) \/ Mutate(e) \/ Delete(e) \/ Deleted(e) \/ Rename(e) \/ Compare(e)
    \/ Commit(e) \/ Unlink(e) \/ Gone(e) \/ End(e)

-----------------------------------------------------------------------------
(* Processes and leases, a restore, and others at the place.               *)

\* The api dies with all its threads; what their leases say stays until it runs out.
Crash ==
    /\ \E e \in Executor : exec[e].at # "idle"
    /\ Event /\ exec' = [e \in Executor |-> Idle]
    /\ UNCHANGED <<kind, finding, plan, touched>> /\ UNCHANGED place /\ UNCHANGED leases

\* A thread is held up beyond its operation lease.
Stall(e) ==
    /\ exec[e].at # "idle" /\ Mine(e) /\ Event
    /\ plan' = [plan EXCEPT ![exec[e].plan].owner = Nobody]
    /\ UNCHANGED <<kind, finding, exec, touched>> /\ UNCHANGED place /\ UNCHANGED leases

InScope == {"commit", "unlink", "gone", "rename", "compare", "deleted"}

LeaseEnds ==
    /\ \/ \E p \in Plan :
              /\ plan[p].owner # Nobody /\ exec[plan[p].owner].plan # p
              /\ plan' = [plan EXCEPT ![p].owner = Nobody] /\ UNCHANGED coord
       \/ coord # Nobody /\ exec[coord].at # "bind" /\ coord' = Nobody /\ UNCHANGED plan
    /\ UNCHANGED <<kind, finding, exec, scoped, touched, spent>> /\ UNCHANGED place

ScopeEnds ==
    /\ scoped # Nobody
    /\ \A e \in Executor : exec[e].at \in InScope => exec[e].plan # scoped
    /\ scoped' = Nobody
    /\ UNCHANGED <<kind, finding, plan, exec, coord, touched, spent>> /\ UNCHANGED place

\* invalidate_integrity_truth_after_restore, in the part about plans.
Invalidate ==
    /\ \A e \in Executor : exec[e].at = "idle"
    /\ finding = "active" /\ Event /\ finding' = "superseded"
    /\ plan' = [p \in Plan |->
           IF ~Open(p) THEN plan[p]
           ELSE [plan[p] EXCEPT !.state = "blocked", !.owner = Nobody,
                    !.item = IF @ \in Terminal THEN @ ELSE "blocked",
                    !.op = IF Live(p) THEN "failed" ELSE @]]
    /\ UNCHANGED <<kind, exec, touched>> /\ UNCHANGED place /\ UNCHANGED leases

World ==
    /\ Event /\ touched' = TRUE
    /\ \/ /\ file' \in {"none", "other"} \ {file} /\ UNCHANGED row
          /\ Refill \/ file # "none" \/ \A e \in Executor : exec[e].at # "compare"
       \/ row' = (CASE row = "kept" -> "deleted" [] OTHER -> "kept") /\ UNCHANGED file
    /\ UNCHANGED <<kind, finding, plan, exec>> /\ UNCHANGED leases

Next ==
    \/ Prepare \/ PrepareEnds \/ Expire \/ RequestCancel
    \/ \E e \in Executor, p \in Plan :
           \/ Claim(e, p)
           \/ \E mode \in {"client", "recovery"} : Reclaim(e, p, mode) \/ Adopt(e, p, mode)
    \/ \E e \in Executor : Step(e) \/ Fail(e) \/ Stall(e)
    \/ Crash \/ LeaseEnds \/ ScopeEnds \/ Invalidate \/ World

-----------------------------------------------------------------------------
TypeOK ==
    /\ kind \in Kinds /\ finding \in {"active", "resolved", "superseded"}
    /\ file \in {"none", "it", "other"} /\ row \in {"none", "kept", "deleted"}
    /\ \A p \in Plan :
        /\ plan[p].state \in {"none", "prepared", "running", "terminal_pending"} \cup Terminal
        /\ plan[p].owner \in Executor \cup {Nobody}

\* What a plan says it did it has done, and what it did it says, as long as no restore
\* took the memory of the plans away; it removes nothing but what the finding named.
RemediationSafe ==
    /\ \A p \in Plan :
        /\ plan[p].took # "other"
        /\ plan[p].state = "completed" =>
               /\ finding # "active" /\ plan[p].quarantine = "none"
               /\ plan[p].op = "completed"
               /\ kind = "orphan" => plan[p].took = "it"
               /\ kind \in {"missing", "unusable"} /\ ~touched => row = "deleted"
        /\ finding # "superseded" =>
               /\ plan[p].quarantine # "none" => plan[p].state = "running" /\ Pending(p)
               /\ plan[p].took # "none" =>
                      plan[p].state \in {"running", "terminal_pending", "completed"}
               /\ plan[p].state \in Terminal /\ plan[p].bound => plan[p].op = plan[p].state

RemediationOK == TypeOK /\ RemediationSafe

\* Nothing half done is left while the place is as it was and there was something to do:
\* a plan for a stale recording is only ever refused.
NothingOwed ==
    \A p \in Plan :
        /\ plan[p].state # "terminal_pending"
        /\ plan[p].state = "running" => touched \/ finding # "active" \/ kind = "stale"
=============================================================================

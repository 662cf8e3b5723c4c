-------------------------- MODULE RecordingDeletion --------------------------
(***************************************************************************)
(* The deletion of recordings on request: everything that a plan listed in *)
(* its manifest, or recordings by their identity.   A request claims the   *)
(* record of its operation (a file), the storage operation (a row) and the *)
(* destructive scope (a file), and removes one recording after another     *)
(* under the guard of the coordinator, a file lock, while a heartbeat      *)
(* thread renews the two files.  A client may repeat a request at any time.*)
(***************************************************************************)
EXTENDS Naturals

CONSTANTS
    Plan, Exact,  \* identities of operations
    Request,      \* the requests of clients, each made once
    Target,       \* the recordings that each exact operation names
    Seg,          \* recordings, numbered as they were made
    Nobody,
    MaxEvents     \* bound on crashes, delays, failures and the doings of others together

ASSUME ConstantsAssumption ==
    /\ Plan \cap Exact = {} /\ Nobody \notin Plan \cup Exact \cup Request
    /\ Seg \subseteq Nat /\ Target \in [Exact -> SUBSET Seg] /\ MaxEvents \in Nat

VARIABLES
    seg,          \* the file and the row of each recording
    listed,       \* the manifest of each plan, Nobody's if there is none
    rec,          \* the record of each operation
    outer,        \* its storage operation
    claim,        \* its destructive scope: the request that holds it, Nobody if none
    guard,        \* holder of the coordinator's lock
    req,          \* the requests
    gone,         \* what was removed on behalf of each operation
    spent

vars == <<seg, listed, rec, outer, claim, guard, req, gone, spent>>
archive == <<seg, gone>>
store == <<listed, rec>>

-----------------------------------------------------------------------------
Op == Plan \cup Exact
Terminal == {"completed", "partial", "failed", "blocked"}
NoResult == [status |-> "none", deleted |-> {}]
NoRecord == [state |-> "none", owner |-> Nobody, live |-> FALSE, old |-> FALSE, said |-> NoResult]
NoRow == [state |-> "none", owner |-> Nobody, live |-> FALSE, said |-> NoResult]
NoClaim == [owner |-> Nobody, live |-> FALSE]
NoManifest == [there |-> FALSE, by |-> Nobody, items |-> {}]

\* left: what the request still has to remove; done: what it counted as deleted.
\* outer: does it hold the storage operation?
Fresh == [at |-> "idle", op |-> Nobody, left |-> {}, done |-> {}, skip |-> FALSE,
          fail |-> FALSE, outer |-> FALSE, slow |-> FALSE]

Init ==
    /\ \E last \in Seg : seg = [s \in Seg |-> IF s <= last THEN [file |-> TRUE, row |-> "finalized"]
                                             ELSE [file |-> FALSE, row |-> "none"]]
    /\ listed = [o \in Op |-> IF o \in Plan THEN NoManifest
                              ELSE [NoManifest EXCEPT !.items = Target[o]]]
    /\ rec = [o \in Op |-> NoRecord] /\ outer = [o \in Op |-> NoRow]
    /\ claim = [o \in Op |-> NoClaim] /\ guard = Nobody
    /\ req = [r \in Request |-> Fresh]
    /\ gone = [o \in Op |-> {}] /\ spent = 0

Event == spent < MaxEvents /\ spent' = spent + 1

Finalized == {s \in Seg : seg[s].row = "finalized"}
Scope(o) == IF o \in Plan THEN Seg ELSE Target[o]
Overlap(o, q) == Scope(o) \cap Scope(q) # {}

Goes(r, where) == req' = [req EXCEPT ![r].at = where]
Leaves(r) == Goes(r, "gone")

\* _assert_operation_owned_locked, _assert_owned_locked, _owned_operation_query.
OwnsRecord(r) ==
    LET it == rec[req[r].op] IN it.state = "running" /\ it.owner = r /\ it.live
OwnsScope(r) == claim[req[r].op] = [owner |-> r, live |-> TRUE]
OwnsOuter(r) == LET it == outer[req[r].op] IN it.state = "running" /\ it.owner = r /\ it.live

-----------------------------------------------------------------------------
(* Plans.                                                                  *)

\* create_deletion_plan: the rows go to a temporary file; under the lock that becomes
\* the manifest, and then the record is written.
Draft(r, p) ==
    /\ req[r].at = "idle" /\ rec[p].state = "none" /\ listed[p].by = Nobody
    /\ req' = [req EXCEPT ![r].at = "draft", ![r].op = p, ![r].left = Finalized]
    /\ listed' = [listed EXCEPT ![p].by = r]
    /\ UNCHANGED <<rec, outer, claim, guard, spent>> /\ UNCHANGED archive

WriteManifest(r) ==
    /\ req[r].at = "draft" /\ guard = Nobody
    /\ listed' = [listed EXCEPT ![req[r].op].there = TRUE, ![req[r].op].items = req[r].left]
    /\ guard' = r /\ Goes(r, "publish")
    /\ UNCHANGED <<rec, outer, claim, spent>> /\ UNCHANGED archive

Publish(r) ==
    /\ req[r].at = "publish"
    /\ rec' = [rec EXCEPT ![req[r].op].state = "ready"]
    /\ guard' = Nobody /\ Leaves(r)
    /\ UNCHANGED <<listed, outer, claim, spent>> /\ UNCHANGED archive

Expire(p) ==
    /\ rec[p].state = "ready" /\ ~rec[p].old
    /\ rec' = [rec EXCEPT ![p].old = TRUE]
    /\ UNCHANGED <<listed, outer, claim, guard, req, spent>> /\ UNCHANGED archive

\* cancel_deletion_plan: the manifest first, then the record.
CancelManifest(r, p) ==
    /\ req[r].at = "idle" /\ guard = Nobody /\ rec[p].state = "ready"
    /\ listed' = [listed EXCEPT ![p].there = FALSE]
    /\ guard' = r /\ req' = [req EXCEPT ![r].at = "cancel", ![r].op = p]
    /\ UNCHANGED <<rec, outer, claim, spent>> /\ UNCHANGED archive

CancelRecord(r) ==
    /\ req[r].at = "cancel"
    /\ rec' = [rec EXCEPT ![req[r].op] = NoRecord]
    /\ guard' = Nobody /\ Leaves(r)
    /\ UNCHANGED <<listed, outer, claim, spent>> /\ UNCHANGED archive

\* _cleanup_operation_records_locked: expired plans, old results, and a running record
\* nobody has renewed for a week; nobody is left then who works on them.
Forgotten(o) ==
    /\ \A r \in Request : req[r].op = o => req[r].at \in {"idle", "gone"}
    /\ \/ rec[o].state = "ready" /\ rec[o].old
       \/ rec[o].state \in Terminal
       \/ rec[o].state = "running" /\ ~rec[o].live /\ ~claim[o].live

Cleanup(o) ==
    /\ guard = Nobody /\ Forgotten(o)
    /\ rec' = [rec EXCEPT ![o] = NoRecord]
    /\ listed' = [listed EXCEPT ![o].there = FALSE]
    /\ UNCHANGED <<outer, claim, guard, req, spent>> /\ UNCHANGED archive

\* _cleanup_orphan_manifests_locked.
CleanManifest(p) ==
    /\ guard = Nobody /\ listed[p].there /\ rec[p].state = "none"
    /\ listed' = [listed EXCEPT ![p].there = FALSE]
    /\ UNCHANGED <<rec, outer, claim, guard, req, spent>> /\ UNCHANGED archive

-----------------------------------------------------------------------------
(* The claims of a request.                                                *)

\* claim_deletion_plan, claim_exact_operation: the result of an ended operation is
\* given again, a live one is refused, a dead one is taken over.
Claimable(o) ==
    /\ rec[o].state \in (IF o \in Plan THEN {"ready", "running"} ELSE {"none", "running"})
    /\ rec[o].state = "running" => ~rec[o].live
    /\ o \in Plan => listed[o].there

Claim(r, o) ==
    /\ req[r].at = "idle" /\ guard = Nobody /\ Claimable(o)
    /\ rec' = [rec EXCEPT ![o].state = "running", ![o].owner = r, ![o].live = TRUE]
    /\ req' = [req EXCEPT ![r].op = o,
                          ![r].at = IF rec[o].state = "ready" /\ rec[o].old THEN "save" ELSE "outer",
                          ![r].skip = rec[o].state = "ready" /\ rec[o].old]
    /\ UNCHANGED <<listed, outer, claim, guard, spent>> /\ UNCHANGED archive

\* A blocked end of the request, with nothing done.
Blocked(r) == req' = [req EXCEPT ![r].at = "save", ![r].skip = TRUE]

\* An exact operation looks its recordings up; without any it claims nothing.
Known(r) == IF req[r].op \in Plan THEN {} ELSE Target[req[r].op] \cap Finalized
Found(r) == req[r].op \in Exact => Known(r) # {}

NotFound(r) ==
    /\ req[r].at = "outer" /\ ~Found(r)
    /\ Blocked(r)
    /\ UNCHANGED <<outer, claim, guard, spent>> /\ UNCHANGED archive /\ UNCHANGED store

Conflict(r) == \E o \in Op \ {req[r].op} :
    outer[o].state = "running" /\ outer[o].live /\ Overlap(o, req[r].op)

\* _claim_storage_outer: a new row, unless a conflicting operation is live.
ClaimOuter(r) ==
    LET o == req[r].op
    IN /\ req[r].at = "outer" /\ Found(r) /\ outer[o].state = "none" /\ ~Conflict(r)
       /\ outer' = [outer EXCEPT ![o] =
              [state |-> "running", owner |-> r, live |-> TRUE, said |-> NoResult]]
       /\ req' = [req EXCEPT ![r].at = "scope", ![r].outer = TRUE, ![r].left = Known(r),
                             ![r].skip = o \in Exact /\ Known(r) # Target[o]]
       /\ UNCHANGED <<claim, guard, spent>> /\ UNCHANGED archive /\ UNCHANGED store

\* Conflicting, running or interrupted: the request is answered with 409 and the
\* operation ends blocked, a bulk deletion failed.
OuterRefused(r) ==
    /\ req[r].at = "outer" /\ Found(r)
    /\ outer[req[r].op].state = "running" \/ (outer[req[r].op].state = "none" /\ Conflict(r))
    /\ \/ Blocked(r)
       \/ req[r].op \in Exact /\ req' = [req EXCEPT ![r].at = "save", ![r].fail = TRUE]
    /\ UNCHANGED <<outer, claim, guard, spent>> /\ UNCHANGED archive /\ UNCHANGED store

\* StorageOuterTerminalReplay: the saved result of the row becomes that of the record.
OuterReplays(r) ==
    /\ req[r].at = "outer" /\ Found(r) /\ outer[req[r].op].state \in Terminal
    /\ guard = Nobody
    /\ rec' = IF OwnsRecord(r)
              THEN [rec EXCEPT ![req[r].op].state = outer[req[r].op].state,
                               ![req[r].op].live = FALSE,
                               ![req[r].op].said = outer[req[r].op].said]
              ELSE rec
    /\ Leaves(r)
    /\ UNCHANGED <<listed, outer, claim, guard, spent>> /\ UNCHANGED archive

\* acquire_scope_lease, with the lapsed claims swept away.
ScopeTaken(r) == \E o \in Op : claim[o].live /\ Overlap(o, req[r].op)

TakeScope(r) ==
    /\ req[r].at = "scope" /\ guard = Nobody /\ ~ScopeTaken(r)
    /\ claim' = [o \in Op |-> IF o = req[r].op THEN [owner |-> r, live |-> TRUE]
                              ELSE IF claim[o].live THEN claim[o] ELSE NoClaim]
    /\ Goes(r, "verify")
    /\ UNCHANGED <<outer, guard, spent>> /\ UNCHANGED archive /\ UNCHANGED store

ScopeRefused(r) ==
    /\ req[r].at = "scope" /\ guard = Nobody /\ ScopeTaken(r)
    /\ Blocked(r)
    /\ UNCHANGED <<outer, claim, guard, spent>> /\ UNCHANGED archive /\ UNCHANGED store

-----------------------------------------------------------------------------
(* The deletion.                                                           *)

\* An exception: what the batch has counted is lost.
Raises(r) == req' = [req EXCEPT ![r].at = "release", ![r].done = {}, ![r].fail = TRUE]
Skips(r) == req' = [req EXCEPT ![r].at = "release", ![r].skip = TRUE]

\* The heartbeat starts with a renewal; all items of the manifest must be as listed.
Verify(r) ==
    /\ req[r].at = "verify" /\ guard = Nobody
    /\ LET o == req[r].op
       IN IF ~OwnsRecord(r) THEN Raises(r)
          ELSE IF ~OwnsScope(r) THEN Skips(r)
          ELSE IF o \in Plan /\ (~listed[o].there \/ ~(listed[o].items \subseteq Finalized))
          THEN Skips(r) ELSE Goes(r, "batch")
    /\ UNCHANGED <<outer, claim, guard, spent>> /\ UNCHANGED archive /\ UNCHANGED store

\* Slip: a plan for everything takes up what is there by now.
SecondPassAnew(r) ==
    /\ req[r].at = "batch" /\ guard = Nobody
    /\ req' = [req EXCEPT ![r].at = "touch", ![r].left = Finalized]
    /\ UNCHANGED <<outer, claim, guard, spent>> /\ UNCHANGED archive /\ UNCHANGED store

\* The second pass: a batch that changed since the first is an error of the account; a
\* recording without its file is skipped.
SecondPass(r) ==
    /\ req[r].at = "batch" /\ guard = Nobody
    /\ LET items == IF req[r].op \in Plan THEN listed[req[r].op].items ELSE req[r].left
       IN IF ~OwnsOuter(r) \/ ~OwnsScope(r) \/ (req[r].op \in Plan /\ ~(items \subseteq Finalized))
          THEN Raises(r)
          ELSE req' = [req EXCEPT ![r].at = "touch",
                                  ![r].left = {s \in items \cap Finalized : seg[s].file},
                                  ![r].skip = @ \/ \E s \in items : s \notin Finalized \/ ~seg[s].file]
    /\ UNCHANGED <<outer, claim, guard, spent>> /\ UNCHANGED archive /\ UNCHANGED store

\* touch_outer, before each recording.
Touch(r) ==
    /\ req[r].at = "touch"
    /\ IF req[r].left = {} THEN Goes(r, "release")
       ELSE IF OwnsOuter(r) THEN Goes(r, "delete") ELSE Raises(r)
    /\ UNCHANGED <<outer, claim, guard, spent>> /\ UNCHANGED archive /\ UNCHANGED store

First(r) == CHOOSE s \in req[r].left : \A t \in req[r].left : s <= t

\* Slip: only the scope is asked for again.
GuardedByScope(r) == OwnsScope(r)

\* operation_scope_mutation_guard.
Guarded(r) == OwnsRecord(r) /\ OwnsScope(r)

\* Under the lock: the row is read again, and the file removed.
Delete(r) ==
    LET o == req[r].op
        s == First(r)
        rest == req[r].left \ {s}
    IN /\ req[r].at = "delete" /\ guard = Nobody
       /\ \/ /\ ~Guarded(r)
             /\ IF o \in Exact /\ OwnsRecord(r) THEN Skips(r) ELSE Raises(r)
             /\ UNCHANGED <<seg, gone, guard>>
          \/ /\ Guarded(r) /\ ~(s \in Finalized /\ seg[s].file)
             /\ req' = [req EXCEPT ![r].at = "touch", ![r].left = rest, ![r].skip = TRUE]
             /\ UNCHANGED <<seg, gone, guard>>
          \/ /\ Guarded(r) /\ s \in Finalized /\ seg[s].file
             /\ seg' = [seg EXCEPT ![s].file = FALSE]
             /\ gone' = [gone EXCEPT ![o] = @ \cup {s}]
             /\ guard' = r /\ Goes(r, "mark")
       /\ UNCHANGED <<outer, claim, spent>> /\ UNCHANGED store

\* _mark_deleted, and its commit.  When that fails, _recover_deleted_segment_metadata
\* tries once more; the recording counts as failed either way.
Mark(r) ==
    LET s == First(r)
    IN /\ req[r].at = "mark"
       /\ \/ /\ seg' = [seg EXCEPT ![s].row = "deleted"]
             /\ req' = [req EXCEPT ![r].at = "touch", ![r].left = @ \ {s}, ![r].done = @ \cup {s}]
             /\ UNCHANGED spent
          \/ /\ Event
             /\ seg' \in {seg, [seg EXCEPT ![s].row = "deleted"]}
             /\ req' = [req EXCEPT ![r].at = "touch", ![r].left = @ \ {s}, ![r].fail = TRUE]
       /\ guard' = Nobody
       /\ UNCHANGED <<gone, outer, claim>> /\ UNCHANGED store

\* The scope is given back; the heartbeat may then tell that it failed to renew a file.
Release(r) ==
    /\ req[r].at = "release" /\ guard = Nobody
    /\ claim' = IF claim[req[r].op].owner = r THEN [claim EXCEPT ![req[r].op] = NoClaim] ELSE claim
    /\ \/ Goes(r, "save")
       \/ /\ ~OwnsRecord(r) \/ ~OwnsScope(r)
          /\ req' = [req EXCEPT ![r].at = "save", ![r].fail = TRUE,
                                ![r].done = IF req[r].op \in Plan THEN @ ELSE {}]
    /\ UNCHANGED <<outer, guard, spent>> /\ UNCHANGED archive /\ UNCHANGED store

-----------------------------------------------------------------------------
(* The end of an operation.                                                *)

\* _finish.
Status(r) ==
    IF req[r].fail THEN (IF req[r].done # {} THEN "partial" ELSE "failed")
    ELSE IF req[r].skip THEN (IF req[r].done # {} THEN "partial" ELSE "blocked")
    ELSE "completed"

Result(r) == [status |-> Status(r), deleted |-> req[r].done]

EndOuter(r, result) ==
    outer' = [outer EXCEPT ![req[r].op].state = result.status, ![req[r].op].live = FALSE,
                           ![req[r].op].said = result]

\* finish_operation of the record; without it the storage operation ends failed.
Save(r) ==
    /\ req[r].at = "save" /\ guard = Nobody
    /\ \/ /\ OwnsRecord(r)
          /\ rec' = [rec EXCEPT ![req[r].op].state = Status(r), ![req[r].op].live = FALSE,
                                ![req[r].op].said = Result(r)]
          /\ Goes(r, IF req[r].outer THEN "end" ELSE "gone")
          /\ UNCHANGED outer
       \/ /\ ~OwnsRecord(r)
          /\ IF req[r].outer /\ OwnsOuter(r)
             THEN EndOuter(r, [status |-> "failed", deleted |-> {}]) ELSE UNCHANGED outer
          /\ Leaves(r) /\ UNCHANGED rec
    /\ UNCHANGED <<listed, claim, guard, spent>> /\ UNCHANGED archive

\* _finish_storage_outer, or the end of the lifecycle when that fails.
End(r) ==
    /\ req[r].at = "end"
    /\ \/ /\ IF OwnsOuter(r) THEN EndOuter(r, Result(r)) ELSE UNCHANGED outer
          /\ UNCHANGED spent
       \/ /\ OwnsOuter(r) /\ Event /\ EndOuter(r, [Result(r) EXCEPT !.status = "partial"])
    /\ Leaves(r)
    /\ UNCHANGED <<claim, guard>> /\ UNCHANGED archive /\ UNCHANGED store

-----------------------------------------------------------------------------
(* Crashes, delays, and others.                                            *)

\* The api dies, and the lock is free.
Crash ==
    /\ Event
    /\ \E r \in Request : req[r].at \notin {"idle", "gone"}
    /\ req' = [r \in Request |-> IF req[r].at = "idle" THEN req[r]
                                 ELSE [req[r] EXCEPT !.at = "gone"]]
    /\ guard' = Nobody
    /\ UNCHANGED <<outer, claim>> /\ UNCHANGED archive /\ UNCHANGED store

\* A thread is held up so long that its heartbeat gives up.
Delay(r) ==
    /\ Event /\ req[r].at \notin {"idle", "gone"} /\ ~req[r].slow
    /\ req' = [req EXCEPT ![r].slow = TRUE]
    /\ UNCHANGED <<outer, claim, guard>> /\ UNCHANGED archive /\ UNCHANGED store

Lapses(r) == req[r].at = "gone" \/ req[r].slow

\* The lease of the row, 180 seconds, ends before those of the files, 300 seconds.
OuterLapses(o) ==
    /\ outer[o].live /\ Lapses(outer[o].owner)
    /\ outer' = [outer EXCEPT ![o].live = FALSE]
    /\ UNCHANGED <<claim, guard, req, spent>> /\ UNCHANGED archive /\ UNCHANGED store

RecordLapses(o) ==
    /\ rec[o].live /\ Lapses(rec[o].owner) /\ ~outer[o].live
    /\ rec' = [rec EXCEPT ![o].live = FALSE]
    /\ UNCHANGED <<listed, outer, claim, guard, req, spent>> /\ UNCHANGED archive

ScopeLapses(o) ==
    /\ claim[o].live /\ Lapses(claim[o].owner) /\ ~outer[o].live
    /\ claim' = [claim EXCEPT ![o].live = FALSE]
    /\ UNCHANGED <<outer, guard, req, spent>> /\ UNCHANGED archive /\ UNCHANGED store

\* The retention deletes a recording under the same claims; a disk loses a file; the
\* recorder finishes a new one.
Elsewhere(s) ==
    /\ Event /\ seg[s].row = "finalized" /\ guard = Nobody
    /\ \/ /\ \A o \in Op : s \in Scope(o) => ~outer[o].live /\ ~claim[o].live
          /\ seg' = [seg EXCEPT ![s] = [file |-> FALSE, row |-> "deleted"]]
       \/ seg[s].file /\ seg' = [seg EXCEPT ![s].file = FALSE]
    /\ UNCHANGED <<gone, outer, claim, guard, req>> /\ UNCHANGED store

Recorded(s) ==
    /\ seg[s].row = "none" /\ \A t \in Seg : t < s => seg[t].row # "none"
    /\ seg' = [seg EXCEPT ![s] = [file |-> TRUE, row |-> "finalized"]]
    /\ UNCHANGED <<gone, outer, claim, guard, req, spent>> /\ UNCHANGED store

-----------------------------------------------------------------------------
Step(r) ==
    \/ WriteManifest(r) \/ Publish(r) \/ CancelRecord(r)
    \/ NotFound(r) \/ ClaimOuter(r) \/ OuterRefused(r) \/ OuterReplays(r)
    \/ TakeScope(r) \/ ScopeRefused(r) \/ Verify(r) \/ SecondPass(r) \/ Touch(r)
    \/ Delete(r) \/ Mark(r) \/ Release(r) \/ Save(r) \/ End(r)

Next ==
    \/ \E r \in Request :
           \/ Step(r) \/ Delay(r)
           \/ \E p \in Plan : Draft(r, p) \/ CancelManifest(r, p)
           \/ \E o \in Op : Claim(r, o)
    \/ \E p \in Plan : Expire(p) \/ CleanManifest(p)
    \/ \E o \in Op : Cleanup(o) \/ OuterLapses(o) \/ RecordLapses(o) \/ ScopeLapses(o)
    \/ \E s \in Seg : Elsewhere(s) \/ Recorded(s)
    \/ Crash

Spec == Init /\ [][Next]_vars

-----------------------------------------------------------------------------
Place == {"idle", "draft", "publish", "cancel", "outer", "scope", "verify", "batch", "touch",
          "delete", "mark", "release", "save", "end", "gone"}
Owner == Request \cup {Nobody}
Told == [status : {"none"} \cup Terminal, deleted : SUBSET Seg]
Catalogued == [file : BOOLEAN, row : {"none", "finalized", "deleted"}]
Manifest == [there : BOOLEAN, by : Owner, items : SUBSET Seg]
Record == [state : {"none", "ready", "running"} \cup Terminal, owner : Owner, live : BOOLEAN,
           old : BOOLEAN, said : Told]
Row == [state : {"none", "running"} \cup Terminal, owner : Owner, live : BOOLEAN, said : Told]
Job == [at : Place, op : Op \cup {Nobody}, left : SUBSET Seg, done : SUBSET Seg,
        skip : BOOLEAN, fail : BOOLEAN, outer : BOOLEAN, slow : BOOLEAN]

TypeOK ==
    /\ seg \in [Seg -> Catalogued]
    /\ listed \in [Op -> Manifest]
    /\ rec \in [Op -> Record]
    /\ outer \in [Op -> Row]
    /\ claim \in [Op -> [owner : Owner, live : BOOLEAN]]
    /\ guard \in Owner
    /\ req \in [Request -> Job]
    /\ gone \in [Op -> SUBSET Seg]
    /\ spent \in 0 .. MaxEvents

Removed(s) == seg[s] = [file |-> FALSE, row |-> "deleted"]

\* An operation that says completed, in its record or in its row, has nothing left of
\* what was asked; it counts nothing that it did not remove, and removes nothing that
\* was not asked for.
ResultsTruthful ==
    \A o \in Op :
        /\ rec[o].state = "completed" \/ outer[o].state = "completed" =>
               \A s \in listed[o].items : Removed(s)
        /\ rec[o].said.deleted \cup outer[o].said.deleted \subseteq gone[o]
        /\ gone[o] \subseteq listed[o].items

\* Two overlapping operations never hold their scopes together, and no recording is
\* taken out of the catalogue while its file is there.
ScopesExclusive ==
    /\ \A o, q \in Op : o # q /\ claim[o].live /\ claim[q].live => ~Overlap(o, q)
    /\ \A s \in Seg : seg[s].row = "deleted" => ~seg[s].file

DeletionTruthful == TypeOK /\ ResultsTruthful /\ ScopesExclusive

\* Once an operation has told its result, nothing more is removed in its name, although
\* the request that worked on it may still be there; and the result stays.
ResultFinal ==
    \A o \in Op : rec[o].state \in Terminal =>
        /\ gone'[o] = gone[o]
        /\ rec'[o] = rec[o] \/ rec'[o].state = "none"
DeletionFinal == [][ResultFinal]_vars
=============================================================================

-------------------------- MODULE ArchiveMigration --------------------------
(***************************************************************************)
(* The execution of one archive migration plan: each item is a recording   *)
(* segment that is copied from the source root to the target root,         *)
(* verified, switched in the catalogue and removed from the source, one    *)
(* durable phase after the other.  Workers claim the operation, may die or *)
(* lose their lease between any two commits (and between a file operation  *)
(* and the commit that records it), and an interrupted operation is        *)
(* finished by another worker or continued by a retry.                     *)
(*                                                                         *)
(* Every step that writes runs with the rows of the operation, the plan    *)
(* and the item locked (_lock_owned_migration_item), so a step is atomic;  *)
(* a file operation whose commit never happens is the Dies alternative of  *)
(* the step.  Steps that only read are steps of their own.                 *)
(***************************************************************************)
EXTENDS Integers

CONSTANTS
    ItemCount,      \* items of the plan, processed in the order of their index
    Worker,         \* migration worker threads
    NoWorker,
    MaxRetryDepth,  \* retries of retries
    Mishaps,        \* the kinds of trouble this instance meets
    MaxMishaps      \* bound on how often trouble strikes

ASSUME ItemCountAssumption == ItemCount \in Nat \ {0}
ASSUME WorkerAssumption == NoWorker \notin Worker
ASSUME BoundAssumption == MaxRetryDepth \in Nat /\ MaxMishaps \in Nat

Item == 1 .. ItemCount

Copying == {"planned", "target_temp_create_pending", "copying"}
PreSwitch == Copying \cup {"target_temp_written", "target_verified", "target_finalized"}
Switched == {"metadata_switched", "source_cleanup_pending", "source_quarantined",
             "source_delete_committing"}
ItemTerminal == {"completed", "cancelled", "blocked", "failed"}
CleanupRecovery == (PreSwitch \ {"planned"}) \cup Switched
Phase == PreSwitch \cup Switched \cup ItemTerminal

Owned == {"running", "cancel_requested"}
Active == {"queued"} \cup Owned
Ended == {"completed", "cancelled", "stopped"}   \* stopped: partial, blocked or failed
RetryMode == {"none", "cleanup_only", "refresh", "refresh_plan", "after_free_space",
              "after_permission_restore"}

VARIABLES
    item,    \* the plan's item rows
    file,    \* what lies at the four paths of an item
    seg,     \* the catalogue's row of the segment
    op,      \* the plan's current operation, with the plan's retry mode
    work,    \* what each worker thread is about to do
    world    \* permission of the plan's owner, free space, trouble so far

vars == <<item, file, seg, op, work, world>>

Step == {"intent", "createNew", "create", "copy", "hash", "record", "finalize", "verify",
         "switch", "recheck", "cleanup", "quarantine", "mark", "unlink",
         "dropFinal", "dropTemp", "giveUp"}

Content == {"none", "empty", "part", "full", "bad", "foreign"}

Place == Step \cup {"idle", "begin", "pick", "failing", "ending", "cancelling"}

ItemRow == [phase : Phase, bound : 0 .. MaxRetryDepth + 1,
            pending : BOOLEAN, known : BOOLEAN, hashed : BOOLEAN]
FileRow == [source : BOOLEAN, aside : BOOLEAN, temp : Content, final : Content]
SegRow == [at : {"source", "target", "deleted"}, intact : BOOLEAN]
OpRow == [no : 1 .. MaxRetryDepth + 1, status : Active \cup Ended, mode : RetryMode,
          line : BOOLEAN, owner : Worker \cup {NoWorker}, lease : BOOLEAN]
WorkRow == [at : Place, item : Item, want : RetryMode]
WorldRow == [authorised : BOOLEAN, spaceLow : BOOLEAN, mishaps : 0 .. MaxMishaps]

TypeOK ==
    /\ item \in [Item -> ItemRow]
    /\ file \in [Item -> FileRow]
    /\ seg \in [Item -> SegRow]
    /\ op \in OpRow
    /\ work \in [Worker -> WorkRow]
    /\ world \in WorldRow

\* The owner has applied the plan; nothing has been touched yet.
Init ==
    /\ item = [i \in Item |-> [phase |-> "planned", bound |-> 0, pending |-> FALSE,
                               known |-> FALSE, hashed |-> FALSE]]
    /\ file = [i \in Item |-> [source |-> TRUE, aside |-> FALSE,
                               temp |-> "none", final |-> "none"]]
    /\ seg = [i \in Item |-> [at |-> "source", intact |-> TRUE]]
    /\ op = [no |-> 1, status |-> "queued", mode |-> "none", line |-> TRUE,
             owner |-> NoWorker, lease |-> FALSE]
    /\ work = [w \in Worker |-> [at |-> "idle", item |-> 1, want |-> "none"]]
    /\ world = [authorised |-> TRUE, spaceLow |-> FALSE, mishaps |-> 0]

-----------------------------------------------------------------------------
(* Ownership, binding and the bookkeeping of a worker.                     *)

\* Slip: the fence is not looked at before writing.
OwnsBlindly(w) == op.status \in Owned

\* lock_operation_owned: the token of the current claim and an unexpired lease.
Owns(w) == op.owner = w /\ op.lease /\ op.status \in Owned

\* An item bound to an earlier operation is adopted only as cleanup work, by
\* an operation whose whole lineage is cleanup.
Bindable(i) ==
    \/ item[i].bound \in {0, op.no}
    \/ /\ item[i].pending \/ item[i].phase \in CleanupRecovery
       /\ op.mode = "cleanup_only"
       /\ op.line

Locked(w, s) == work[w].at = s /\ Owns(w) /\ Bindable(work[w].item)

\* Most locked steps also require the owner's permissions.
Permitted(w, s) == Locked(w, s) /\ world.authorised

CleanupWork == \E i \in Item : item[i].pending \/ item[i].phase \in CleanupRecovery

PermissionMode == IF CleanupWork THEN "cleanup_only" ELSE "after_permission_restore"

Goto(w, s) == work' = [work EXCEPT ![w].at = s]

Trouble(kind) == kind \in Mishaps /\ world.mishaps < MaxMishaps
Struck == [world EXCEPT !.mishaps = @ + 1]

\* The item is interrupted: in a normal run its failure is recorded before the
\* operation ends, in a cleanup run the operation just ends.
Fail(w, mode) ==
    work' = IF op.mode = "cleanup_only"
            THEN [work EXCEPT ![w].at = "ending",
                              ![w].want = IF CleanupWork THEN "cleanup_only" ELSE "refresh"]
            ELSE [work EXCEPT ![w].at = "failing", ![w].want = mode]

\* _terminalize_operation: the operation and the plan end in one commit.
Ends(w, status, mode) ==
    /\ op' = [op EXCEPT !.status = status, !.mode = mode, !.owner = NoWorker, !.lease = FALSE]
    /\ Goto(w, "idle")

Bound(i) == [item[i] EXCEPT !.bound = op.no]

\* The binding an adoption commits before the step itself.
Adopted(i) == [item EXCEPT ![i].bound = IF @ = 0 THEN 0 ELSE op.no]

\* The commit of a locked step: the new item row, then the next step.
Commit(w, row, next) ==
    /\ item' = [item EXCEPT ![work[w].item] = row]
    /\ Goto(w, next)
    /\ UNCHANGED world

\* The worker dies after the file operation; only an adoption was committed.
Dies(w) ==
    /\ Trouble("crash")
    /\ world' = Struck
    /\ item' = Adopted(work[w].item)
    /\ Goto(w, "idle")

-----------------------------------------------------------------------------
(* The operation: claim, run loop, end.                                    *)

\* Slip: an operation that was asked to stop is not taken over.
ClaimableRunning == op.status = "queued" \/ (op.status = "running" /\ ~op.lease)

\* A queued operation, or one in progress whose lease has run out.
Claimable == op.status = "queued" \/ (op.status \in Owned /\ ~op.lease)

Claim(w) ==
    /\ work[w].at = "idle"
    /\ Claimable
    /\ op' = [op EXCEPT !.status = IF @ = "queued" THEN "running" ELSE @,
                        !.owner = w, !.lease = TRUE]
    /\ Goto(w, "begin")
    /\ UNCHANGED <<item, file, seg, world>>

Begin(w) ==
    /\ work[w].at = "begin"
    /\ Owns(w)
    /\ IF world.authorised
       THEN Goto(w, "pick") /\ UNCHANGED op
       ELSE Ends(w, "stopped", PermissionMode)
    /\ UNCHANGED <<item, file, seg, world>>

Picking(w, cleanup) ==
    /\ work[w].at = "pick"
    /\ Owns(w)
    /\ (op.mode = "cleanup_only") = cleanup

Open == {i \in Item : item[i].phase \notin ItemTerminal}
OpenCleanup == {i \in Item : item[i].pending} \cup Open
First(i, S) == i \in S /\ \A j \in S : i <= j

AllDone == \A i \in Item : item[i].phase = "completed" /\ ~item[i].pending

FinishApply(w) ==
    /\ Picking(w, FALSE)
    /\ Open = {}
    /\ IF AllDone THEN Ends(w, "completed", "none")
       ELSE IF /\ op.status = "cancel_requested"
               /\ \E i \in Item : item[i].phase = "cancelled"
               /\ \A i \in Item : ~item[i].pending
            THEN Ends(w, "cancelled", "none")
            ELSE Ends(w, "stopped",
                      IF \E i \in Item : item[i].pending THEN "cleanup_only" ELSE "refresh")
    /\ UNCHANGED <<item, file, seg, world>>

\* Slip: whatever is not over is cancelled.
CancelOpenRows == [i \in Item |-> IF item[i].phase \notin ItemTerminal
                                  THEN [item[i] EXCEPT !.phase = "cancelled", !.pending = FALSE]
                                  ELSE item[i]]

CancelRows == [i \in Item |-> IF item[i].phase = "planned"
                              THEN [item[i] EXCEPT !.phase = "cancelled", !.pending = FALSE]
                              ELSE item[i]]

\* A cancellation is obeyed between items: what was not started is cancelled.
CancelPlanned(w) ==
    /\ Picking(w, FALSE)
    /\ op.status = "cancel_requested"
    /\ \E i \in Item : First(i, Open) /\ item[i].phase = "planned"
    /\ item' = CancelRows
    /\ Goto(w, "cancelling")
    /\ UNCHANGED <<file, seg, op, world>>

EndCancelled(w) ==
    /\ work[w].at = "cancelling"
    /\ Owns(w)
    /\ IF \E i \in Item : item[i].pending THEN Ends(w, "stopped", "cleanup_only")
       ELSE Ends(w, IF AllDone THEN "completed" ELSE "cancelled", "none")
    /\ UNCHANGED <<item, file, seg, world>>

StepFor(p) ==
    CASE p = "planned" -> "intent"
      [] p = "target_temp_create_pending" -> "create"
      [] p = "copying" -> "copy"
      [] p = "target_temp_written" -> "hash"
      [] p = "target_verified" -> "finalize"
      [] p = "target_finalized" -> "verify"
      [] OTHER -> "recheck"

\* _runtime_item_guard reads permission, segment and free space unlocked.
StartItem(w) ==
    /\ Picking(w, FALSE)
    /\ \E i \in Item :
          LET p == item[i].phase
              at == [work EXCEPT ![w].item = i]
          IN
          /\ First(i, Open)
          /\ ~(op.status = "cancel_requested" /\ p = "planned")
          /\ work' =
                IF ~world.authorised
                THEN [at EXCEPT ![w].at = "failing", ![w].want = PermissionMode]
                ELSE IF p \in PreSwitch /\ ~(seg[i].at = "source" /\ seg[i].intact)
                THEN [at EXCEPT ![w].at = "failing", ![w].want = "refresh_plan"]
                ELSE IF p \in Copying /\ world.spaceLow
                THEN [at EXCEPT ![w].at = "failing", ![w].want = "after_free_space"]
                ELSE [at EXCEPT ![w].at = StepFor(p)]
    /\ UNCHANGED <<item, file, seg, op, world>>

\* The handler of an item's failure, in a transaction of its own.
HandleFailure(w) ==
    /\ Locked(w, "failing")
    /\ item' = [item EXCEPT ![work[w].item] =
                   [Bound(work[w].item) EXCEPT !.pending = @ \/ item[work[w].item].phase # "planned"]]
    /\ Goto(w, "ending")
    /\ UNCHANGED <<file, seg, op, world>>

EndInterrupted(w) ==
    /\ work[w].at = "ending"
    /\ Owns(w)
    /\ Ends(w, "stopped", work[w].want)
    /\ UNCHANGED <<item, file, seg, world>>

\* StorageOperationLeaseLost: the worker leaves the operation as it is.
Abandon(w) ==
    /\ work[w].at # "idle"
    /\ \/ ~Owns(w)
       \/ work[w].at \in Step \cup {"failing"} /\ ~Bindable(work[w].item)
    /\ Goto(w, "idle")
    /\ UNCHANGED <<item, file, seg, op, world>>

FinishCleanup(w) ==
    /\ Picking(w, TRUE)
    /\ OpenCleanup = {}
    /\ IF AllDone THEN Ends(w, "completed", "none") ELSE Ends(w, "stopped", "refresh")
    /\ UNCHANGED <<item, file, seg, world>>

\* Slip: a switch whose clean-up has not begun counts as uncommitted.
CleanupEntryLate(p) == IF p \in Switched \ {"metadata_switched"} THEN "recheck" ELSE "dropFinal"

CleanupEntry(p) == IF p \in Switched THEN "recheck" ELSE "dropFinal"

\* The next item of a cleanup run: its source or its target residue is
\* removed, and one that was never started is blocked.
StartCleanup(w) ==
    /\ Picking(w, TRUE)
    /\ \E i \in Item :
          /\ First(i, OpenCleanup)
          /\ IF item[i].phase = "planned" /\ ~item[i].pending
             THEN IF Bindable(i)
                  THEN /\ item' = [item EXCEPT ![i] = [Bound(i) EXCEPT !.phase = "blocked"]]
                       /\ UNCHANGED work
                  ELSE Goto(w, "idle") /\ UNCHANGED item
             ELSE /\ work' = [work EXCEPT ![w].item = i,
                                          ![w].at = CleanupEntry(item[i].phase)]
                  /\ UNCHANGED item
    /\ UNCHANGED <<file, seg, op, world>>

-----------------------------------------------------------------------------
(* The steps of an item.                                                   *)

\* The evidence that a file at the target is this item's own: the recorded
\* inode, and the hash of a finished copy; before the inode is known, only an
\* empty temporary file after a durable intent.
OwnFinal(i) == item[i].known /\ item[i].hashed /\ file[i].final = "full"

\* Slip: a file with the name of the temporary is taken for it.
OwnTempByName(i) == item[i].known \/ item[i].phase = "target_temp_create_pending"

OwnTemp(i) ==
    IF item[i].known THEN file[i].temp # "foreign"
    ELSE item[i].phase = "target_temp_create_pending" /\ file[i].temp = "empty"

\* What the step finds on disk makes it raise ArchiveMigrationPartial.
Refuses(s, i) ==
    LET f == file[i] IN
    \/ s \in {"intent", "createNew"} /\ f.temp # "none"
    \/ s = "create" /\ f.temp \notin {"none", "empty"}
    \/ s = "copy" /\ (~f.source \/ f.temp \in {"none", "foreign"})
    \/ s = "hash" /\ (~f.source \/ f.temp # "full")
    \/ s = "finalize" /\ (~f.source \/ f.final = "foreign" \/ (f.final = "none" /\ f.temp = "none"))
    \/ s \in {"verify", "recheck"} /\ f.final # "full"
    \/ s = "quarantine" /\ ~f.source /\ ~f.aside
    \/ s = "mark" /\ ~f.aside
    \/ s = "dropFinal" /\ f.final # "none" /\ ~OwnFinal(i)
    \/ s = "dropTemp" /\ f.temp # "none" /\ ~OwnTemp(i)

Refuse(w) ==
    /\ work[w].at \in Step
    /\ Refuses(work[w].at, work[w].item)
    /\ Fail(w, "cleanup_only")
    /\ UNCHANGED <<item, file, seg, op, world>>

PermissionLost(w) ==
    /\ work[w].at \in Step \ {"hash", "verify"}
    /\ Locked(w, work[w].at)
    /\ ~world.authorised
    /\ Fail(w, PermissionMode)
    /\ UNCHANGED <<item, file, seg, op, world>>

\* OSError or StorageFilesystemError in any step of an item.
IoError(w) ==
    /\ Trouble("io")
    /\ work[w].at \in Step
    /\ world' = Struck
    /\ Fail(w, IF item[work[w].item].phase = "planned" THEN "refresh" ELSE "cleanup_only")
    /\ UNCHANGED <<item, file, seg, op>>

\* The intent is durable before the temporary file can exist.
StageTempCreateIntent(w) ==
    LET i == work[w].item IN
    /\ Permitted(w, "intent")
    /\ item[i].phase = "planned"
    /\ ~Refuses("intent", i)
    /\ Commit(w, [Bound(i) EXCEPT !.phase = "target_temp_create_pending", !.known = FALSE],
              "createNew")
    /\ UNCHANGED <<file, seg, op>>

\* The file is created, or the empty one of a dead attempt reopened, and its
\* inode recorded.
CreateTemp(w) ==
    LET i == work[w].item IN
    /\ \E s \in {"createNew", "create"} : Permitted(w, s) /\ ~Refuses(s, i)
    /\ item[i].phase = "target_temp_create_pending"
    /\ file' = [file EXCEPT ![i].temp = "empty"]
    /\ \/ Commit(w, [Bound(i) EXCEPT !.phase = "copying", !.known = TRUE], "copy")
       \/ Dies(w)
    /\ UNCHANGED <<seg, op>>

Copied(t) == IF t = "empty" THEN {"part", "full"} ELSE {"full"}

\* A batch is written and recorded.
CopyBatch(w) ==
    LET i == work[w].item IN
    /\ Permitted(w, "copy")
    /\ ~Refuses("copy", i)
    /\ file[i].temp \in {"empty", "part"}
    /\ \E t \in Copied(file[i].temp) : file' = [file EXCEPT ![i].temp = t]
    /\ Commit(w, Bound(i), "copy") \/ Dies(w)
    /\ UNCHANGED <<seg, op>>

\* The same, but what was written is not what was read.
SpoilBatch(w) ==
    LET i == work[w].item IN
    /\ Trouble("corrupt")
    /\ Permitted(w, "copy")
    /\ ~Refuses("copy", i)
    /\ file[i].temp \in {"empty", "part"}
    /\ file' = [file EXCEPT ![i].temp = "bad"]
    /\ item' = [item EXCEPT ![i] = Bound(i)]
    /\ world' = Struck
    /\ UNCHANGED <<seg, op, work>>

TempWritten(w) ==
    LET i == work[w].item IN
    /\ Permitted(w, "copy")
    /\ ~Refuses("copy", i)
    /\ file[i].temp \in {"full", "bad"}
    /\ Commit(w, [Bound(i) EXCEPT !.phase = "target_temp_written"], "hash")
    /\ UNCHANGED <<file, seg, op>>

\* The copy is read back without a lock.
HashTemp(w) ==
    /\ work[w].at = "hash"
    /\ ~Refuses("hash", work[w].item)
    /\ Goto(w, "record")
    /\ UNCHANGED <<item, file, seg, op, world>>

RecordHash(w) ==
    LET i == work[w].item IN
    /\ Permitted(w, "record")
    /\ item[i].phase = "target_temp_written"
    /\ Commit(w, [Bound(i) EXCEPT !.phase = "target_verified", !.hashed = TRUE], "finalize")
    /\ UNCHANGED <<file, seg, op>>

\* The temporary file is renamed, or was by an attempt that died.
FinalizeTarget(w) ==
    LET i == work[w].item IN
    /\ Permitted(w, "finalize")
    /\ item[i].phase = "target_verified"
    /\ ~Refuses("finalize", i)
    /\ file' = IF file[i].final = "none"
               THEN [file EXCEPT ![i].final = file[i].temp, ![i].temp = "none"]
               ELSE file
    /\ \/ Commit(w, [Bound(i) EXCEPT !.phase = "target_finalized"], "verify")
       \/ Dies(w)
    /\ UNCHANGED <<seg, op>>

\* _verify_durable_final_target, before the switch, without a lock.
VerifyFinal(w) ==
    /\ work[w].at = "verify"
    /\ ~Refuses("verify", work[w].item)
    /\ Goto(w, "switch")
    /\ UNCHANGED <<item, file, seg, op, world>>

SwitchMetadata(w) ==
    LET i == work[w].item IN
    /\ Permitted(w, "switch")
    /\ item[i].phase = "target_finalized"
    /\ IF seg[i].at = "source" /\ seg[i].intact
       THEN /\ seg' = [seg EXCEPT ![i].at = "target"]
            /\ Commit(w, [Bound(i) EXCEPT !.phase = "metadata_switched", !.pending = TRUE],
                      "recheck")
       ELSE /\ Fail(w, "cleanup_only")
            /\ UNCHANGED <<item, seg, world>>
    /\ UNCHANGED <<file, op>>

CleanupStep(p) ==
    CASE p = "metadata_switched" -> "cleanup"
      [] p = "source_cleanup_pending" -> "quarantine"
      [] p = "source_quarantined" -> "mark"
      [] OTHER -> "unlink"

\* The target is verified once more, without a lock, before the source goes.
RecheckFinal(w) ==
    LET i == work[w].item IN
    /\ work[w].at = "recheck"
    /\ world.authorised
    /\ ~Refuses("recheck", i)
    /\ Goto(w, CleanupStep(item[i].phase))
    /\ UNCHANGED <<item, file, seg, op, world>>

StageCleanup(w) ==
    LET i == work[w].item IN
    /\ Permitted(w, "cleanup")
    /\ item[i].phase = "metadata_switched"
    /\ Commit(w, [Bound(i) EXCEPT !.phase = "source_cleanup_pending", !.pending = TRUE],
              "quarantine")
    /\ UNCHANGED <<file, seg, op>>

\* The source is moved aside, or was by an attempt that died.
QuarantineSource(w) ==
    LET i == work[w].item IN
    /\ Permitted(w, "quarantine")
    /\ item[i].phase = "source_cleanup_pending"
    /\ ~Refuses("quarantine", i)
    /\ file' = [file EXCEPT ![i].source = FALSE, ![i].aside = TRUE]
    /\ Commit(w, [Bound(i) EXCEPT !.phase = "source_quarantined"], "mark") \/ Dies(w)
    /\ UNCHANGED <<seg, op>>

MarkDelete(w) ==
    LET i == work[w].item IN
    /\ Permitted(w, "mark")
    /\ item[i].phase = "source_quarantined"
    /\ ~Refuses("mark", i)
    /\ Commit(w, [Bound(i) EXCEPT !.phase = "source_delete_committing"], "unlink")
    /\ UNCHANGED <<file, seg, op>>

DeleteSource(w) ==
    LET i == work[w].item IN
    /\ Permitted(w, "unlink")
    /\ item[i].phase = "source_delete_committing"
    /\ ~file[i].source
    /\ file' = [file EXCEPT ![i].aside = FALSE]
    /\ \/ Commit(w, [Bound(i) EXCEPT !.phase = "completed", !.pending = FALSE], "pick")
       \/ Dies(w)
    /\ UNCHANGED <<seg, op>>

\* _remove_owned_target_residue: an absent file needs no lock, a removed one
\* leaves the locks held for what follows.
DropFinal(w) ==
    LET i == work[w].item IN
    /\ work[w].at = "dropFinal"
    /\ ~Refuses("dropFinal", i)
    /\ IF file[i].final = "none" THEN UNCHANGED item
       ELSE Permitted(w, "dropFinal") /\ item' = Adopted(i)
    /\ file' = [file EXCEPT ![i].final = "none"]
    /\ Goto(w, "dropTemp")
    /\ UNCHANGED <<seg, op, world>>

DropTemp(w) ==
    LET i == work[w].item IN
    /\ work[w].at = "dropTemp"
    /\ ~Refuses("dropTemp", i)
    /\ IF file[i].temp = "none" THEN UNCHANGED item
       ELSE Permitted(w, "dropTemp") /\ item' = Adopted(i)
    /\ file' = [file EXCEPT ![i].temp = "none"]
    /\ Goto(w, "giveUp")
    /\ UNCHANGED <<seg, op, world>>

\* The residue is gone: the item has failed and may be planned again.
GiveUp(w) ==
    LET i == work[w].item IN
    /\ Permitted(w, "giveUp")
    /\ Commit(w, [Bound(i) EXCEPT !.phase = "failed", !.pending = FALSE], "pick")
    /\ UNCHANGED <<file, seg, op>>

-----------------------------------------------------------------------------
(* The owner of the plan.                                                  *)

\* A queued operation is cancelled at once, a running one is asked to stop.
Cancel ==
    /\ op.status \in {"queued", "running"}
    /\ IF op.status = "queued"
       THEN /\ op' = [op EXCEPT !.status = "cancelled"]
            /\ item' = CancelRows
       ELSE /\ op' = [op EXCEPT !.status = "cancel_requested"]
            /\ UNCHANGED item
    /\ UNCHANGED <<file, seg, work, world>>

\* _migration_recovery_decision: a cleanup retry needs cleanup work and a
\* lineage of cleanup operations; past the depth limit only it continues.
RetryDecision ==
    IF op.mode = "cleanup_only" /\ ~(op.line /\ CleanupWork) THEN "refuse"
    ELSE IF op.no <= MaxRetryDepth THEN "create_child"
    ELSE IF op.mode = "cleanup_only" THEN "continue_same_operation" ELSE "refuse"

Retryable == op.status = "stopped" /\ op.mode # "none"

\* Any other retry than a cleanup plans the failed items again, and a child
\* operation stands at the end of the line.
Retry ==
    /\ Retryable
    /\ world.authorised
    /\ RetryDecision # "refuse"
    /\ op' = IF RetryDecision = "create_child"
             THEN [op EXCEPT !.no = @ + 1, !.status = "queued",
                             !.line = op.line /\ op.mode = "cleanup_only"]
             ELSE [op EXCEPT !.status = "queued"]
    /\ item' = IF op.mode = "cleanup_only" THEN item
               ELSE [i \in Item |-> IF item[i].phase \in {"failed", "blocked"}
                                    THEN [item[i] EXCEPT !.phase = "planned"] ELSE item[i]]
    /\ UNCHANGED <<file, seg, work, world>>

-----------------------------------------------------------------------------
(* Trouble.                                                                *)

Crash(w) ==
    /\ Trouble("crash")
    /\ work[w].at # "idle"
    /\ world' = Struck
    /\ Goto(w, "idle")
    /\ UNCHANGED <<item, file, seg, op>>

\* Nobody renews the lease of a worker that has died or left.
ExpireDeadLease ==
    /\ op.status \in Owned
    /\ op.lease
    /\ \A w \in Worker : op.owner = w => work[w].at = "idle"
    /\ op' = [op EXCEPT !.lease = FALSE]
    /\ UNCHANGED <<item, file, seg, work, world>>

\* A worker that is still running was too slow to renew its lease.
ExpireSlowLease ==
    /\ Trouble("lease")
    /\ op.status \in Owned
    /\ op.lease
    /\ \E w \in Worker : op.owner = w /\ work[w].at # "idle"
    /\ op' = [op EXCEPT !.lease = FALSE]
    /\ world' = Struck
    /\ UNCHANGED <<item, file, seg, work>>

LosePermission ==
    /\ Trouble("permission")
    /\ world.authorised
    /\ world' = [Struck EXCEPT !.authorised = FALSE]
    /\ UNCHANGED <<item, file, seg, op, work>>

RestorePermission ==
    /\ ~world.authorised
    /\ world' = [world EXCEPT !.authorised = TRUE]
    /\ UNCHANGED <<item, file, seg, op, work>>

RunOutOfSpace ==
    /\ Trouble("space")
    /\ ~world.spaceLow
    /\ world' = [Struck EXCEPT !.spaceLow = TRUE]
    /\ UNCHANGED <<item, file, seg, op, work>>

FreeSpace ==
    /\ world.spaceLow
    /\ world' = [world EXCEPT !.spaceLow = FALSE]
    /\ UNCHANGED <<item, file, seg, op, work>>

\* Somebody edits the segment's row: its fingerprint no longer matches.
TouchSegment(i) ==
    /\ Trouble("touch")
    /\ seg[i].at = "source" /\ seg[i].intact
    /\ seg' = [seg EXCEPT ![i].intact = FALSE]
    /\ world' = Struck
    /\ UNCHANGED <<item, file, op, work>>

\* Retention deletes the recording and its file; the conflict with an active
\* migration keeps it out while the operation is active.
DeleteSegment(i) ==
    /\ Trouble("delete")
    /\ op.status \notin Active
    /\ seg[i].at # "deleted"
    /\ seg' = [seg EXCEPT ![i].at = "deleted"]
    /\ file' = IF seg[i].at = "source" THEN [file EXCEPT ![i].source = FALSE]
               ELSE [file EXCEPT ![i].final = "none"]
    /\ world' = Struck
    /\ UNCHANGED <<item, op, work>>

\* A file of somebody else turns up where the item wants to write.
ForeignFile(i) ==
    /\ Trouble("foreign")
    /\ \/ file[i].temp = "none" /\ file' = [file EXCEPT ![i].temp = "foreign"]
       \/ file[i].final = "none" /\ file' = [file EXCEPT ![i].final = "foreign"]
    /\ world' = Struck
    /\ UNCHANGED <<item, seg, op, work>>

-----------------------------------------------------------------------------
WorkerStep(w) ==
    \/ Claim(w) \/ Begin(w) \/ FinishApply(w) \/ CancelPlanned(w)
    \/ EndCancelled(w) \/ StartItem(w)
    \/ HandleFailure(w) \/ EndInterrupted(w) \/ Abandon(w)
    \/ FinishCleanup(w) \/ StartCleanup(w) \/ Refuse(w) \/ PermissionLost(w)
    \/ StageTempCreateIntent(w) \/ CreateTemp(w) \/ CopyBatch(w) \/ TempWritten(w)
    \/ HashTemp(w) \/ RecordHash(w) \/ FinalizeTarget(w) \/ VerifyFinal(w)
    \/ SwitchMetadata(w) \/ RecheckFinal(w) \/ StageCleanup(w) \/ QuarantineSource(w)
    \/ MarkDelete(w) \/ DeleteSource(w) \/ DropFinal(w) \/ DropTemp(w) \/ GiveUp(w)

Next ==
    \/ \E w \in Worker : WorkerStep(w) \/ IoError(w) \/ SpoilBatch(w) \/ Crash(w)
    \/ Cancel \/ Retry
    \/ ExpireDeadLease \/ ExpireSlowLease
    \/ LosePermission \/ RestorePermission \/ RunOutOfSpace \/ FreeSpace
    \/ \E i \in Item : TouchSegment(i) \/ DeleteSegment(i) \/ ForeignFile(i)

Spec == Init /\ [][Next]_vars

\* The worker threads poll for ever, and time passes.
FairSpec ==
    /\ Spec
    /\ \A w \in Worker : WF_vars(WorkerStep(w))
    /\ WF_vars(ExpireDeadLease)

-----------------------------------------------------------------------------
\* The recording is where the catalogue says, complete: no crash, takeover by
\* another worker, failed step or cleanup ever removes the catalogued file.
CatalogueServed ==
    \A i \in Item :
        /\ seg[i].at = "source" => file[i].source
        /\ seg[i].at = "target" => file[i].final = "full"

\* An item the code regards as settled has left nothing behind: no temporary,
\* uncatalogued or set-aside file is ever forgotten.
NothingForgotten ==
    \A i \in Item : item[i].phase \in ItemTerminal \cup {"planned"} =>
        /\ file[i].temp \in {"none", "foreign"}
        /\ ~file[i].aside
        /\ file[i].final \notin {"none", "foreign"} => item[i].phase = "completed"
        /\ item[i].phase = "completed" => ~file[i].source

\* Neither a copy nor a cleanup touches a file that is not the item's own.
ForeignFilesKept ==
    [][\A i \in Item :
          /\ file[i].temp = "foreign" => file'[i].temp = "foreign"
          /\ file[i].final = "foreign" => file'[i].final = "foreign"]_vars

\* A complete copy under either of the names it has at a root.
Copies(i) ==
    (IF file[i].source \/ file[i].aside THEN {"source"} ELSE {})
        \cup (IF file[i].final = "full" THEN {"target"} ELSE {})

\* To the outside the whole saga is a copy, one switch and a removal.
Moves == INSTANCE SegmentMove
            WITH Recording <- Item,
                 place <- [i \in Item |-> seg[i].at],
                 copies <- [i \in Item |-> Copies(i)]
MovesSafely == Moves!Spec

\* An operation that is queued or running ends, whatever its workers suffer.
OperationEnded == op.status \in Ended
OperationEnds == []<>OperationEnded
=============================================================================

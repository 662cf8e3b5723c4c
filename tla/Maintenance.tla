----------------------------- MODULE Maintenance -----------------------------
(***************************************************************************)
(* The four maintenance flows and their common admission: backup           *)
(* operations (create, check, delete), an update, a restore of the current *)
(* database and a manual schema operation.  Each flow keeps its state in   *)
(* files of its own; every admission and every claim looks at all of them  *)
(* under one file lock and is one step.                                    *)
(*                                                                         *)
(* Backup and schema operations run in threads of the api, the update and  *)
(* the restore in the helper daemon; either process may restart at any     *)
(* time, and every write of a file or use of the database may fail.        *)
(***************************************************************************)
EXTENDS Naturals, FiniteSets

CONSTANTS
    Submission,   \* backup operations, by submission id, each begun once
    KindOf,       \* "create", "check" or "delete"
    ArtifactOf,   \* the artifact of an operation
    Nobody,
    Strays,       \* may an update be answered while its activation journal is open?
    MaxMishaps    \* bound on failures and restarts

VARIABLES
    receipt,   \* durable receipts of the backup operations
    exec,      \* the thread that executes each of them
    files,     \* the files of each artifact
    proof,     \* what the state file of an artifact says
    temp,      \* temporary databases
    flow,      \* requests: of the update, of the restore, of the schema operation
    helper,    \* what the helper daemon does
    journal,   \* activation journal of the update
    published, \* does update-status.json say that the update ended?
    schema,    \* the thread of the schema operation
    spent

vars == <<receipt, exec, files, proof, temp, flow, helper, journal, published, schema, spent>>
backups == <<receipt, exec, files, proof, temp>>
update == <<journal, published>>

-----------------------------------------------------------------------------
Artifact == {ArtifactOf[s] : s \in Submission}
Data == {"dump", "metadata", "manifest"}
Terminal == {"completed", "failed", "interrupted"}

\* mine: executor_instance_id is that of the running api process; retry: phase
\* cleanup_retry; temp, deferred: recovery.
Receipt == [state : {"none", "queued", "running"} \cup Terminal, mine : BOOLEAN,
            retry : BOOLEAN, temp : BOOLEAN, deferred : {"none", "completed", "failed"}]
Place == {"off", "accepted", "work", "metadata", "manifest", "evidence", "target", "record",
          "restore", "clear", "defer", "unlink", "answer", "failing"}
Exec == [at : Place, passed : BOOLEAN, clean : BOOLEAN]
ExecOff == [at |-> "off", passed |-> FALSE, clean |-> FALSE]
Proof == [created : Submission \cup {Nobody}, checked : Submission \cup {Nobody},
          passed : BOOLEAN]
Unproved == [created |-> Nobody, checked |-> Nobody, passed |-> FALSE]

\* A creation makes an artifact of its own: new_backup_artifact_id names it after the
\* moment and a random token.
ASSUME ConstantsAssumption ==
    /\ KindOf \in [Submission -> {"create", "check", "delete"}]
    /\ Nobody \notin Submission
    /\ \A s, t \in Submission :
           {KindOf[s], KindOf[t]} = {"create"} /\ ArtifactOf[s] = ArtifactOf[t] => s = t

Active(s) == receipt[s].state \in {"queued", "running"}
Whole(a) == Data \subseteq files[a]
Spends(mishap) ==
    /\ spent.faults + spent.crashes + spent.restarts < MaxMishaps
    /\ spent' = [spent EXCEPT ![mishap] = @ + 1]
Fault == Spends("faults")

Init ==
    /\ receipt = [s \in Submission |-> [state |-> "none", mine |-> FALSE, retry |-> FALSE,
                                        temp |-> FALSE, deferred |-> "none"]]
    /\ exec = [s \in Submission |-> ExecOff]
    /\ files = [a \in Artifact |->
                 IF \E s \in Submission : KindOf[s] = "create" /\ ArtifactOf[s] = a
                 THEN {} ELSE Data]
    /\ proof = [a \in Artifact |-> Unproved]
    /\ temp = {}
    /\ flow = [f \in {"update", "restore", "schema"} |-> "none"]
    /\ helper = "idle" /\ journal = "none" /\ published = FALSE
    /\ schema = "off"
    /\ spent = [faults |-> 0, crashes |-> 0, restarts |-> 0]

-----------------------------------------------------------------------------
(* _reconcile_receipt.                                                     *)

\* Receipts of an earlier api process, and those that wait for a cleanup.
Due(s) == Active(s) /\ (~receipt[s].mine \/ receipt[s].retry)

\* Slip: a deletion is believed when the dump is gone.
DumpGone(s) ==
    LET a == ArtifactOf[s] IN
    CASE KindOf[s] = "create" -> "state" \in files[a] /\ proof[a].created = s /\ Whole(a)
      [] KindOf[s] = "check" -> "state" \in files[a] /\ proof[a].checked = s /\ Whole(a)
      [] KindOf[s] = "delete" -> "dump" \notin files[a]

\* The state of the artifact names the operation, and its files are those seen then.
EvidenceProven(s) ==
    LET a == ArtifactOf[s] IN
    CASE KindOf[s] = "create" -> "state" \in files[a] /\ proof[a].created = s /\ Whole(a)
      [] KindOf[s] = "check" -> "state" \in files[a] /\ proof[a].checked = s /\ Whole(a)
      [] KindOf[s] = "delete" -> files[a] = {}

Ended(r, state) == [r EXCEPT !.state = state, !.retry = FALSE, !.temp = FALSE,
                             !.deferred = "none"]

Settled(s, stuck) ==
    LET r == receipt[s] IN
    IF ~Due(s) THEN r
    ELSE IF r.temp /\ s \in stuck THEN [r EXCEPT !.state = "running", !.retry = TRUE]
    ELSE IF r.temp /\ r.deferred # "none" THEN Ended(r, r.deferred)
    ELSE IF ~EvidenceProven(s) THEN Ended(r, "interrupted")
    ELSE Ended(r, IF KindOf[s] = "check" /\ ~proof[ArtifactOf[s]].passed
                  THEN "failed" ELSE "completed")

\* reconcile_backup_operations, the temporary databases in stuck resisting.
Reconciled(stuck) ==
    /\ stuck \subseteq {s \in temp : Due(s) /\ receipt[s].temp}
    /\ IF stuck = {} THEN UNCHANGED spent ELSE Fault
    /\ temp' = {s \in temp : ~Due(s) \/ ~receipt[s].temp \/ s \in stuck}

-----------------------------------------------------------------------------
(* Admission: assert_no_maintenance_conflicts.                             *)

\* Slip: a flow blocks the others only until it is claimed.
BlocksUnclaimed(f) == flow[f] \in {"admitted", "accepted", "running"}

Blocks(f) == flow[f] \in {"admitted", "claimed", "accepted", "running"}

\* _operation_conflicts.
Conflicts(s, t) ==
    \/ KindOf[s] = "create" /\ KindOf[t] = "create"
    \/ /\ {KindOf[s], KindOf[t]} \subseteq {"check", "delete"}
       /\ ArtifactOf[s] = ArtifactOf[t]

\* begin_backup_operation: the receipts are reconciled before they are compared.
Begin(s) ==
    /\ receipt[s].state = "none"
    /\ \A f \in DOMAIN flow : ~Blocks(f)
    /\ \E stuck \in SUBSET temp :
           LET now == [t \in Submission |-> Settled(t, stuck)] IN
           /\ Reconciled(stuck)
           /\ IF \E t \in Submission : now[t].state \in {"queued", "running"} /\ Conflicts(s, t)
              THEN receipt' = now /\ UNCHANGED exec
              ELSE /\ receipt' = [now EXCEPT ![s].state = "queued", ![s].mine = TRUE]
                   /\ exec' = [exec EXCEPT ![s].at = "accepted"]
    /\ UNCHANGED <<files, proof, flow, helper, schema>> /\ UNCHANGED update

\* A status request, or another admission.
Reconcile ==
    /\ \E s \in Submission : Due(s)
    /\ \E stuck \in SUBSET temp :
           Reconciled(stuck) /\ receipt' = [s \in Submission |-> Settled(s, stuck)]
    /\ UNCHANGED <<exec, files, proof, flow, helper, schema>> /\ UNCHANGED update

\* The other flows find every receipt ended.
Admits(f) ==
    /\ flow[f] = "none"
    /\ \A g \in DOMAIN flow \ {f} : ~Blocks(g)
    /\ \E stuck \in SUBSET temp :
           LET now == [s \in Submission |-> Settled(s, stuck)] IN
           /\ Reconciled(stuck)
           /\ receipt' = now
           /\ flow' = IF \A s \in Submission : now[s].state \notin {"queued", "running"}
                      THEN [flow EXCEPT ![f] = IF f = "schema" THEN "accepted" ELSE "admitted"]
                      ELSE flow
    /\ UNCHANGED <<exec, files, proof, helper>> /\ UNCHANGED update

-----------------------------------------------------------------------------
(* The threads of the api that execute backup operations.                  *)

At(s, kind, at) == KindOf[s] = kind /\ exec[s].at = at
Goes(s, at) == exec' = [exec EXCEPT ![s].at = at]
Stops(s) == exec' = [exec EXCEPT ![s] = ExecOff]
Untouched == /\ UNCHANGED <<flow, helper, schema>> /\ UNCHANGED update

\* write_artifact_state: a new file when there was none.
Writes(a, p) ==
    /\ files' = [files EXCEPT ![a] = @ \cup {"state"}]
    /\ proof' = [proof EXCEPT ![a] = p]
Known(a) == IF "state" \in files[a] THEN proof[a] ELSE Unproved

\* A receipt that cannot be written before the operation starts stays as it is.
Start(s) ==
    /\ exec[s].at = "accepted"
    /\ \/ /\ receipt' = [receipt EXCEPT ![s].state = "running"]
          /\ Goes(s, "work") /\ UNCHANGED spent
       \/ Stops(s) /\ Fault /\ UNCHANGED receipt
    /\ UNCHANGED <<files, proof, temp>> /\ Untouched

\* create_backup_before_upgrade: one file after another; a failure removes them all.
CreateFile(s) ==
    LET a == ArtifactOf[s]
        file == CASE exec[s].at = "work" -> "dump" [] OTHER -> exec[s].at
        next == CASE file = "dump" -> "metadata" [] file = "metadata" -> "manifest"
                  [] file = "manifest" -> "evidence"
    IN
    /\ KindOf[s] = "create" /\ exec[s].at \in {"work", "metadata", "manifest"}
    /\ \/ /\ files' = [files EXCEPT ![a] = @ \cup {file}]
          /\ Goes(s, next) /\ UNCHANGED spent
       \/ /\ files' = [files EXCEPT ![a] = @ \ Data]
          /\ Goes(s, "failing") /\ Fault
    /\ UNCHANGED <<receipt, proof, temp>> /\ Untouched

CreateEvidence(s) ==
    LET a == ArtifactOf[s] IN
    /\ At(s, "create", "evidence")
    /\ \/ /\ "manifest" \in files[a]
          /\ Writes(a, [Known(a) EXCEPT !.created = s])
          /\ Goes(s, "answer") /\ UNCHANGED spent
       \/ /\ "manifest" \notin files[a]
          /\ Goes(s, "failing") /\ UNCHANGED <<files, proof, spent>>
       \/ Goes(s, "failing") /\ Fault /\ UNCHANGED <<files, proof>>
    /\ UNCHANGED <<receipt, temp>> /\ Untouched

\* The preflight of a check; one that fails is written down.
CheckPreflight(s) ==
    LET a == ArtifactOf[s] IN
    /\ At(s, "check", "work")
    /\ \/ Whole(a) /\ Goes(s, "target") /\ UNCHANGED <<files, proof, spent>>
       \/ /\ "manifest" \in files[a]
          /\ Writes(a, [Known(a) EXCEPT !.checked = s, !.passed = FALSE])
          /\ Goes(s, "failing") /\ UNCHANGED spent
       \/ /\ "manifest" \notin files[a]
          /\ Goes(s, "failing") /\ UNCHANGED <<files, proof, spent>>
       \/ Goes(s, "failing") /\ Fault /\ UNCHANGED <<files, proof>>
    /\ UNCHANGED <<receipt, temp>> /\ Untouched

\* _create_server_side_disposable_target.
CreateTarget(s) ==
    LET a == ArtifactOf[s] IN
    /\ At(s, "check", "target")
    /\ \/ /\ temp' = temp \cup {s} /\ Goes(s, "record")
          /\ UNCHANGED <<files, proof, spent>>
       \/ /\ Writes(a, [Known(a) EXCEPT !.checked = s, !.passed = FALSE])
          /\ Goes(s, "failing") /\ Fault /\ UNCHANGED temp
    /\ UNCHANGED receipt /\ Untouched

\* Its name goes into the receipt, or it is dropped at once.
RecordTarget(s) ==
    /\ At(s, "check", "record")
    /\ \/ /\ receipt' = [receipt EXCEPT ![s].temp = TRUE]
          /\ Goes(s, "restore") /\ UNCHANGED <<temp, spent>>
       \/ /\ temp' = temp \ {s} /\ Goes(s, "failing") /\ Fault /\ UNCHANGED receipt
    /\ UNCHANGED <<files, proof>> /\ Untouched

\* _restore_artifact_to_target and the drop in its finally clause.  A restore that
\* raised leaves the outcome to the next cleanup.
RestoreToTarget(s) ==
    /\ At(s, "check", "restore")
    /\ \/ /\ temp' = temp \ {s} /\ UNCHANGED spent
          /\ \E passed, clean \in BOOLEAN :
                 /\ passed => clean
                 /\ exec' = [exec EXCEPT ![s] = [at |-> "evidence", passed |-> passed,
                                                 clean |-> clean]]
       \/ /\ Fault /\ UNCHANGED temp
          /\ \E passed \in BOOLEAN :
                 exec' = [exec EXCEPT ![s] = [at |-> "evidence", passed |-> passed,
                                              clean |-> FALSE]]
    /\ UNCHANGED <<receipt, files, proof>> /\ Untouched

DefersFailure(s) ==
    exec' = [exec EXCEPT ![s] = [at |-> "defer", passed |-> FALSE, clean |-> FALSE]]

CheckEvidence(s) ==
    LET a == ArtifactOf[s] IN
    /\ At(s, "check", "evidence")
    /\ \/ /\ Writes(a, [Known(a) EXCEPT !.checked = s, !.passed = exec[s].passed])
          /\ Goes(s, IF exec[s].clean THEN "clear" ELSE "defer") /\ UNCHANGED spent
       \/ DefersFailure(s) /\ Fault /\ UNCHANGED <<files, proof>>
    /\ UNCHANGED <<receipt, temp>> /\ Untouched

\* clear_backup_operation_disposable_target.
ClearTarget(s) ==
    /\ At(s, "check", "clear")
    /\ \/ /\ receipt' = [receipt EXCEPT ![s].temp = FALSE]
          /\ Goes(s, "answer") /\ UNCHANGED spent
       \/ DefersFailure(s) /\ Fault /\ UNCHANGED receipt
    /\ UNCHANGED <<files, proof, temp>> /\ Untouched

\* defer_backup_operation_until_cleanup; a second failure leaves the receipt running.
Defer(s) ==
    /\ At(s, "check", "defer")
    /\ \/ /\ receipt' = [receipt EXCEPT ![s].retry = TRUE,
                                        ![s].deferred = IF exec[s].passed THEN "completed"
                                                        ELSE "failed"]
          /\ Stops(s) /\ UNCHANGED spent
       \/ (DefersFailure(s) \/ Stops(s)) /\ Fault /\ UNCHANGED receipt
    /\ UNCHANGED <<files, proof, temp>> /\ Untouched

\* delete_backup_artifact: the manifest, which proves the ownership, comes last.
Unlink(s) ==
    LET a == ArtifactOf[s]
        rest == files[a] \ {"manifest"}
    IN
    /\ KindOf[s] = "delete" /\ exec[s].at \in {"work", "unlink"}
    /\ \/ exec[s].at = "work" /\ "manifest" \notin files[a]
          /\ Goes(s, "failing") /\ UNCHANGED <<files, proof, spent>>
       \/ /\ exec[s].at = "unlink" \/ "manifest" \in files[a]
          /\ \/ /\ files' = [files EXCEPT ![a] =
                     @ \ {IF "dump" \in rest THEN "dump"
                          ELSE IF "metadata" \in rest THEN "metadata"
                          ELSE IF "state" \in rest THEN "state" ELSE "manifest"}]
                /\ Goes(s, IF rest = {} THEN "answer" ELSE "unlink")
                /\ UNCHANGED <<proof, spent>>
             \/ /\ Writes(a, Known(a)) \/ UNCHANGED <<files, proof>>
                /\ Goes(s, "failing") /\ Fault
    /\ UNCHANGED <<receipt, temp>> /\ Untouched

\* The last write of the receipt; for a deletion there is no second attempt.
Answer(s) ==
    /\ exec[s].at = "answer"
    /\ \/ /\ receipt' = [receipt EXCEPT ![s].state =
                          IF KindOf[s] = "check" /\ ~exec[s].passed THEN "failed" ELSE "completed"]
          /\ Stops(s) /\ UNCHANGED spent
       \/ /\ IF KindOf[s] = "delete" THEN Stops(s) ELSE Goes(s, "failing")
          /\ Fault /\ UNCHANGED receipt
    /\ UNCHANGED <<files, proof, temp>> /\ Untouched

AnswerFailure(s) ==
    /\ exec[s].at = "failing"
    /\ Stops(s)
    /\ \/ receipt' = [receipt EXCEPT ![s].state = "failed"] /\ UNCHANGED spent
       \/ Fault /\ UNCHANGED receipt
    /\ UNCHANGED <<files, proof, temp>> /\ Untouched

Execute(s) ==
    \/ Start(s) \/ CreateFile(s) \/ CreateEvidence(s) \/ CheckPreflight(s) \/ CreateTarget(s)
    \/ RecordTarget(s) \/ RestoreToTarget(s) \/ CheckEvidence(s) \/ ClearTarget(s)
    \/ Defer(s) \/ Unlink(s) \/ Answer(s) \/ AnswerFailure(s)

-----------------------------------------------------------------------------
(* A manual schema operation runs in a thread of the api.                  *)

RequestSchema ==
    /\ Admits("schema")
    /\ schema' = IF flow'["schema"] = "accepted" THEN "accepted" ELSE schema

SchemaRuns ==
    /\ schema = "accepted"
    /\ \/ /\ schema' = "running" /\ flow' = [flow EXCEPT !["schema"] = "running"]
          /\ UNCHANGED spent
       \/ schema' = "off" /\ Fault /\ UNCHANGED flow
    /\ UNCHANGED helper /\ UNCHANGED backups /\ UNCHANGED update

SchemaEnds ==
    /\ schema = "running" /\ schema' = "off"
    /\ \/ flow' = [flow EXCEPT !["schema"] = "terminal"] /\ UNCHANGED spent
       \/ Fault /\ UNCHANGED flow
    /\ UNCHANGED helper /\ UNCHANGED backups /\ UNCHANGED update

ApiCrashes ==
    /\ Spends("crashes")
    /\ exec' = [s \in Submission |-> ExecOff] /\ schema' = "off"
    /\ receipt' = [s \in Submission |-> [receipt[s] EXCEPT !.mine = FALSE]]
    /\ UNCHANGED <<files, proof, temp, flow, helper>> /\ UNCHANGED update

-----------------------------------------------------------------------------
(* An update and a restore, admitted by the api and run by the helper.     *)

LeaseFree == helper # "update"
EndUpdate == flow' = [flow EXCEPT !["update"] = "terminal"] /\ published' = TRUE

RequestUpdate == LeaseFree /\ Admits("update") /\ UNCHANGED schema
RequestRestore == Admits("restore") /\ UNCHANGED schema

\* _reconcile_current: the status of the helper counts first; then what nobody works
\* on is ended, unless a journal says that the helper will go on with it.
ReconcileUpdate ==
    /\ flow["update"] \in {"admitted", "claimed"}
    /\ \/ published
       \/ LeaseFree /\ (flow["update"] = "admitted" \/ journal = "none")
    /\ EndUpdate
    /\ UNCHANGED <<helper, journal, schema, spent>> /\ UNCHANGED backups

CancelUpdate ==
    /\ flow["update"] = "admitted"
    /\ EndUpdate
    /\ UNCHANGED <<helper, journal, schema, spent>> /\ UNCHANGED backups

\* A restore is looked for before an update.
ClaimRestore ==
    /\ helper = "idle" /\ flow["restore"] \in {"admitted", "claimed"}
    /\ flow' = [flow EXCEPT !["restore"] = "claimed"]
    /\ helper' = "restore"
    /\ UNCHANGED <<schema, spent>> /\ UNCHANGED backups /\ UNCHANGED update

FinishRestore ==
    /\ helper = "restore" /\ helper' = "idle"
    /\ flow' = [flow EXCEPT !["restore"] = "terminal"]
    /\ UNCHANGED <<schema, spent>> /\ UNCHANGED backups /\ UNCHANGED update

\* claim_current_request: a claimed update is resumed from its journal or ended.
ClaimUpdate ==
    /\ helper = "idle" /\ ~Blocks("restore")
    /\ flow["update"] \in {"admitted", "claimed"}
    /\ IF flow["update"] = "claimed" /\ journal = "none"
       THEN EndUpdate /\ UNCHANGED helper
       ELSE /\ flow' = [flow EXCEPT !["update"] = "claimed"]
            /\ helper' = "update" /\ UNCHANGED published
    /\ UNCHANGED <<journal, schema, spent>> /\ UNCHANGED backups

\* run_update: with or without an activation, and to its end or not.
JournalMoves ==
    /\ helper \in {"update", "boot"}
    /\ \/ helper = "update" /\ ~published /\ journal = "none" /\ journal' = "open"
       \/ journal = "open" /\ journal' = "settled"
    /\ UNCHANGED <<flow, helper, published, schema, spent>> /\ UNCHANGED backups

\* publish_terminal: the status, then the request under the guard.
PublishStatus ==
    /\ helper = "update" /\ ~published /\ published' = TRUE
    /\ Strays \/ journal # "open"
    /\ UNCHANGED <<flow, helper, journal, schema, spent>> /\ UNCHANGED backups

PublishTerminal ==
    /\ helper = "update" /\ published /\ helper' = "idle"
    /\ flow' = [flow EXCEPT !["update"] = "terminal"]
    /\ UNCHANGED <<schema, spent>> /\ UNCHANGED backups /\ UNCHANGED update

\* The daemon starts again once an open journal is settled.
HelperRestarts ==
    /\ Spends("restarts") /\ helper' = "boot"
    /\ UNCHANGED <<flow, schema>> /\ UNCHANGED backups /\ UNCHANGED update

HelperBoots ==
    /\ helper = "boot" /\ journal # "open" /\ helper' = "idle"
    /\ UNCHANGED <<flow, schema, spent>> /\ UNCHANGED backups /\ UNCHANGED update

Help ==
    \/ ClaimRestore \/ FinishRestore \/ ClaimUpdate \/ JournalMoves
    \/ PublishStatus \/ PublishTerminal \/ HelperBoots

Next ==
    \/ \E s \in Submission : Begin(s) \/ Execute(s)
    \/ Reconcile \/ ApiCrashes
    \/ RequestSchema \/ SchemaRuns \/ SchemaEnds
    \/ RequestUpdate \/ ReconcileUpdate \/ CancelUpdate \/ RequestRestore
    \/ Help \/ HelperRestarts

Spec == Init /\ [][Next]_vars

-----------------------------------------------------------------------------
TypeOK ==
    /\ receipt \in [Submission -> Receipt]
    /\ exec \in [Submission -> Exec]
    /\ files \in [Artifact -> SUBSET (Data \cup {"state"})]
    /\ proof \in [Artifact -> Proof]
    /\ temp \subseteq Submission
    /\ flow \in [{"update", "restore", "schema"} ->
                 {"none", "admitted", "claimed", "accepted", "running", "terminal"}]
    /\ helper \in {"idle", "boot", "update", "restore"}
    /\ journal \in {"none", "open", "settled"} /\ published \in BOOLEAN
    /\ schema \in {"off", "accepted", "running"}
    /\ spent \in [faults : Nat, crashes : Nat, restarts : Nat]

\* Work of two flows, or of two conflicting backup operations, never overlaps, whoever
\* restarts between an admission and the work.
Works ==
    {"backup" : s \in {s \in Submission : exec[s].at # "off"}}
    \cup (IF schema = "off" THEN {} ELSE {"schema"})
    \cup (IF (helper = "update" /\ ~published) \/ (helper = "boot" /\ journal = "open") THEN {"update"} ELSE {})
    \cup (IF helper = "restore" THEN {"restore"} ELSE {})
FlowsExclusive ==
    /\ Cardinality(Works) <= 1
    /\ \A s, t \in Submission :
           s # t /\ exec[s].at # "off" /\ exec[t].at # "off" => ~Conflicts(s, t)

\* A temporary database is known to a receipt that is still to be reconciled, unless the
\* api died between its creation and the record (restore_maintenance.py:932).
TempAccounted ==
    \A s \in temp : \/ Active(s) /\ receipt[s].temp
                    \/ exec[s].at = "record"
                    \/ spent.crashes > 0 /\ ~receipt[s].temp /\ exec[s].at = "off"

\* What blocks the admission while nobody works comes to its end by itself: the
\* next reconciliation ends the receipts and the update, the helper the restore.  Only
\* a write that failed, or the death of the api in a schema operation, leaves more.
LocksExplained ==
    /\ \A s \in Submission :
           Active(s) /\ exec[s].at = "off" => Due(s) \/ spent.faults > 0
    /\ Blocks("schema") /\ schema = "off" => spent.crashes + spent.faults > 0

\* A receipt says "completed" of what is so: the backup is there unless a deletion of it
\* was begun, the checked artifact has left no temporary database, nothing is left of the
\* deleted one.  What a receipt once answered it never takes back.
TellsTruth ==
    \A s \in Submission :
       /\ receipt[s].state \in Terminal => receipt'[s] = [receipt[s] EXCEPT !.mine = receipt'[s].mine]
       /\ receipt[s].state # "completed" /\ receipt'[s].state = "completed" =>
             LET a == ArtifactOf[s] IN
             CASE KindOf[s] = "create" ->
                      \/ Data \subseteq files'[a]
                      \/ \E d \in Submission : /\ KindOf[d] = "delete" /\ ArtifactOf[d] = a
                                               /\ receipt[d].state # "none"
               [] KindOf[s] = "check" -> s \notin temp' /\ Data \subseteq files'[a]
               [] KindOf[s] = "delete" -> files'[a] = {}
ReceiptsTruthful == [][TellsTruth]_vars

\* In every reachable state the flows exclude each other, and what they leave is known.
MaintenanceSafe == TypeOK /\ FlowsExclusive /\ TempAccounted /\ LocksExplained

=============================================================================

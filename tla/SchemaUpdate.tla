---------------------------- MODULE SchemaUpdate ----------------------------
(***************************************************************************)
(* The database part of an update: the pipeline of preparation, recovery   *)
(* and gate that one process runs under the schema lock, for the request   *)
(* whose files it finds.                                                   *)
(*                                                                         *)
(* What was done is recorded four times: in the database itself, in the    *)
(* control row and the attempts beside it, in a signed receipt per phase,  *)
(* and in the mutation state the updater reads.  Each commit and each file *)
(* is a step of its own; the process may die before any of them and the    *)
(* pipeline be run again, and the updater may give the request up while    *)
(* the process goes on.                                                    *)
(***************************************************************************)
EXTENDS Naturals

CONSTANTS
    Request,      \* update requests, all of them for the same target release
    RetryOf,      \* the request a request is a retry of, or None
    None,
    Target,       \* number of schema transitions from the installed release to the target
    Injects,      \* is it a build that injects failures of the kind that may be retried?
    MaxMishaps    \* bound on failures and on deaths of the process, together

Transition == 1..Target
Stage == {"preparation", "recovery", "gate"}

VARIABLES
    update,      \* the request of the request file, and what the updater says of each
    db,          \* the product's schema
    control,     \* the control row
    attempts,    \* the attempt of each request at each transition; 0: the preparation
    bootstrap,   \* the receipt of the creation of the control row
    receipts,    \* the receipt of each phase
    mutation,    \* schema-mutation-state.json
    runner,      \* the process that holds the schema lock
    spent        \* mishaps so far, and whether the failure of the gate was injected

vars == <<update, db, control, attempts, bootstrap, receipts, mutation, runner, spent>>

\* old: a release of before schema 8, which has neither the control tables nor the
\* wide column.  pending: remediation accepted before the update is unfinished.
\* by: who made a transition.
Database == [old : BOOLEAN, version : 0..Target, wide : BOOLEAN, pending : BOOLEAN,
             by : [Transition -> Request \cup {None}]]

\* found, which the code does not keep: the version when the owner took the row.
Control == [owner : Request, generation : Nat, found : 0..Target,
            state : {"prepared", "recovering", "migrating", "completed", "failed"}]
NoRow == [state |-> "none"]
Active == {"prepared", "recovering", "migrating"}

\* stopped: blocked or recovery_required, neither of which offers a retry.
Receipt == [request : Request, generation : Nat, retryable : BOOLEAN,
            state : {"completed", "failed", "stopped"}]
NoReceipt == [state |-> "none", request |-> None]

\* at: the next step.  doing: its active attempt.  safe: a failure of the kind that
\* may be retried.
Runner == [at : {"off", "preflight", "backup", "preparation", "insert", "adopt", "mark",
                 "survey", "widen", "prepared", "recovery", "recovering", "recovered",
                 "gate", "next", "begun", "migrate", "migrated", "finished", "done",
                 "failing", "failed"},
           migrates : BOOLEAN, marked : BOOLEAN, doing : 0..Target \cup {None},
           stage : Stage, safe : BOOLEAN]
Off == [at |-> "off", migrates |-> FALSE, marked |-> FALSE, doing |-> None,
        stage |-> "preparation", safe |-> FALSE]

Req == update.request
Goes(at) == runner' = [runner EXCEPT !.at = at]
Ends == runner' = Off
Mishap == spent.mishaps < MaxMishaps /\ spent' = [spent EXCEPT !.mishaps = @ + 1]

Init ==
    /\ update = [request |-> None, status |-> [r \in Request |-> "new"]]
    /\ db \in [old : BOOLEAN, version : {0}, wide : {FALSE}, pending : BOOLEAN,
               by : {[t \in Transition |-> None]}]
    /\ control = NoRow
    /\ attempts = [r \in Request |-> [t \in 0..Target |-> "none"]]
    /\ bootstrap = "none"
    /\ receipts = [s \in Stage |-> NoReceipt]
    /\ mutation = [request |-> None, started |-> FALSE, state |-> "none"]
    /\ runner = Off
    /\ spent = [mishaps |-> 0, injected |-> FALSE]

-----------------------------------------------------------------------------
(* The updater and the control plane.                                      *)

\* controller_contract: the last receipt of the request, once the updater has
\* ended it.
Offered(r) ==
    \E s \in Stage :
        /\ receipts[s].state = "failed" /\ receipts[s].retryable
        /\ receipts[s].request = r
        /\ s = "preparation" => receipts["recovery"].request # r

\* A new request, or create_retry, and the updater's claim of it.  It does not
\* claim one while the schema lock is held.
Admit(r) ==
    /\ update.status[r] = "new" /\ runner.at = "off"
    /\ \A q \in Request : update.status[q] # "active"
    /\ IF RetryOf[r] = None THEN TRUE ELSE RetryOf[r] = Req /\ Offered(RetryOf[r])
    /\ update' = [request |-> r, status |-> [update.status EXCEPT ![r] = "active"]]
    /\ UNCHANGED <<db, control, attempts, bootstrap, receipts, mutation, runner, spent>>

\* It ended the request, whatever the process does.
GiveUp(r) ==
    /\ update.status[r] = "active"
    /\ update' = [update EXCEPT !.status[r] = "ended"]
    /\ UNCHANGED <<db, control, attempts, bootstrap, receipts, mutation, runner, spent>>

\* --migrate, or the default pipeline of a start of the containers.
Begin(migrates) ==
    /\ runner.at = "off" /\ Req # None
    /\ runner' = [Off EXCEPT !.at = IF migrates THEN "preflight" ELSE "preparation",
                             !.migrates = migrates]
    /\ UNCHANGED <<update, db, control, attempts, bootstrap, receipts, mutation, spent>>

Dies ==
    /\ runner.at # "off" /\ Mishap /\ Ends
    /\ UNCHANGED <<update, db, control, attempts, bootstrap, receipts, mutation>>

-----------------------------------------------------------------------------
(* run_update_migration: preflight and backup.                             *)

\* bind_actual_source_database: the shape the installed release left.
SourceShape == db.version = 0 /\ ~db.wide /\ (db.old => control = NoRow)

\* A database that is past the source needs no migration, or is refused.
Preflight ==
    /\ runner.at = "preflight"
    /\ \/ /\ update.status[Req] = "active" /\ SourceShape
          /\ mutation' = [request |-> Req, started |-> FALSE, state |-> "backup_pending"]
          /\ Goes("backup")
       \/ /\ ~(update.status[Req] = "active" /\ SourceShape)
          /\ Ends /\ UNCHANGED mutation
    /\ UNCHANGED <<update, db, control, attempts, bootstrap, receipts, spent>>

Backup ==
    /\ runner.at = "backup"
    /\ \/ Goes("preparation") /\ UNCHANGED spent
       \/ Ends /\ Mishap
    /\ UNCHANGED <<update, db, control, attempts, bootstrap, receipts, mutation>>

\* mark_mutation_started, before the first change a phase makes; the default pipeline
\* keeps no such record.
Marks ==
    IF runner.migrates
    THEN mutation' = [mutation EXCEPT !.started = TRUE, !.state = "migrating"]
    ELSE UNCHANGED mutation

Mark ==
    /\ ~runner.marked
    /\ runner.at \in {"widen", "migrate"} \/ (runner.at = "recovering" /\ db.pending)
    /\ Marks
    /\ runner' = [runner EXCEPT !.marked = TRUE]
    /\ UNCHANGED <<update, db, control, attempts, bootstrap, receipts, spent>>

-----------------------------------------------------------------------------
(* resolve_schema_execution_mode, asked again by every phase.              *)

Completed(s) ==
    /\ receipts[s].state = "completed"
    /\ receipts[s].request = Req /\ receipts[s].generation = control.generation
Ours == control # NoRow /\ control.owner = Req

\* A request whose row has ended is not run again, and one may not pass a row another
\* is still at work on.
Authorized ==
    /\ update.status[Req] = "active"
    /\ control # NoRow =>
         IF Ours THEN control.state \in Active ELSE control.state \notin Active

\* A phase that is not authorized, or has nothing left to do, leaves everything as it
\* is.
Refused ==
    /\ runner.at \in {"preparation", "recovery", "gate"}
    /\ ~Authorized /\ Ends
    /\ UNCHANGED <<update, db, control, attempts, bootstrap, receipts, mutation, spent>>

-----------------------------------------------------------------------------
(* Failures: first the attempt and the row, in one commit, then the        *)
(* receipt.                                                                *)

Records(stage, state, generation, retryable) ==
    receipts' = [receipts EXCEPT ![stage] =
        [request |-> Req, generation |-> generation,
         state |-> state, retryable |-> retryable]]

Fails(stage, safe) ==
    runner' = [runner EXCEPT !.at = "failing", !.stage = stage, !.safe = safe]
Injected(stage) == Injects /\ Mishap /\ Fails(stage, TRUE)
Stops(stage) == Mishap /\ Fails(stage, FALSE)

\* classify_retry.  Slip: whatever the attempt left as it had found it may be retried.
RetryableAll == TRUE
Retryable == runner.safe

\* The gate asks the database whether its transition was committed.  Slip: it takes
\* the exception for an answer.
CommittedNever == FALSE
Committed == runner.stage = "gate" /\ runner.doing \in 1..db.version

\* finish_attempt refuses one that has ended otherwise.
Ended == runner.doing # None /\ attempts[Req][runner.doing] # "started"

RecordFailure ==
    /\ runner.at = "failing"
    /\ \/ /\ ~Ended
          /\ control' = [control EXCEPT !.state = "failed"]
          /\ attempts' = IF runner.doing = None THEN attempts
                         ELSE [attempts EXCEPT ![Req][runner.doing] =
                                   IF Committed THEN "applied" ELSE "failed"]
          /\ Goes("failed") /\ UNCHANGED spent
       \/ \* this commit fails too; an injected failure of the gate is then recorded as
          \* one of another kind
          /\ runner' = IF runner.safe /\ runner.stage = "gate"
                       THEN [runner EXCEPT !.safe = FALSE]
                       ELSE [runner EXCEPT !.at = "failed"]
          /\ Mishap /\ UNCHANGED <<control, attempts>>
       \/ Ended /\ Goes("failed") /\ UNCHANGED <<control, attempts, spent>>
    /\ UNCHANGED <<update, db, bootstrap, receipts, mutation>>

RecordFailed ==
    /\ runner.at = "failed" /\ Ends
    /\ LET retryable == Retryable /\ ~Committed IN
         Records(runner.stage, IF retryable THEN "failed" ELSE "stopped",
                 control.generation, retryable)
    /\ UNCHANGED <<update, db, control, attempts, bootstrap, mutation, spent>>

-----------------------------------------------------------------------------
(* Preparation.                                                            *)

\* A database without a control row.  A receipt without a row is never passed again.
Bootstrap ==
    /\ runner.at = "preparation" /\ Authorized /\ control = NoRow
    /\ IF ~SourceShape THEN Ends /\ UNCHANGED <<bootstrap, receipts>>
       ELSE IF bootstrap # "none"
       THEN Records("preparation", "stopped", 0, FALSE) /\ Ends /\ UNCHANGED bootstrap
       ELSE bootstrap' = "prepared" /\ Goes("insert") /\ UNCHANGED receipts
    /\ UNCHANGED <<update, db, control, attempts, mutation, spent>>

\* The tables, the row and its attempt, in one commit.
Insert ==
    /\ runner.at = "insert"
    /\ \/ /\ control' = [owner |-> Req, generation |-> 1, found |-> db.version,
                          state |-> "prepared"]
          /\ Goes("adopt") /\ UNCHANGED <<receipts, spent>>
       \/ /\ Records("preparation", "stopped", 0, FALSE)
          /\ Ends /\ Mishap /\ UNCHANGED control
    /\ UNCHANGED <<update, db, attempts, bootstrap, mutation>>

Adopt ==
    /\ runner.at = "adopt"
    /\ bootstrap' = "adopted" /\ Goes("mark")
    /\ UNCHANGED <<update, db, control, attempts, receipts, mutation, spent>>

\* The row of an earlier run, of an update that was completed, or of the one that is
\* retried.
Follows ==
    \/ control.state = "completed" /\ db.version = Target
    \/ control.state = "failed" /\ RetryOf[Req] = control.owner

Resume ==
    /\ runner.at = "preparation" /\ Authorized /\ control # NoRow
    /\ bootstrap' = "adopted"
    /\ IF Ours THEN Goes("mark") /\ UNCHANGED control
       ELSE IF Follows
       THEN /\ control' = [owner |-> Req, generation |-> control.generation + 1,
                           found |-> db.version, state |-> "prepared"]
            /\ Goes("mark")
       ELSE Ends /\ UNCHANGED control
    /\ UNCHANGED <<update, db, attempts, receipts, mutation, spent>>

MarkPrepared ==
    /\ runner.at = "mark"
    /\ control' = [control EXCEPT !.state = "prepared"] /\ Goes("survey")
    /\ UNCHANGED <<update, db, attempts, bootstrap, receipts, mutation, spent>>

\* Remediation that a release of before schema 8 has accepted needs the wide column.
Needed == db.old /\ db.pending /\ ~db.wide

Survey ==
    /\ runner.at = "survey"
    /\ IF Needed
       THEN /\ attempts' = [attempts EXCEPT ![Req][0] = "started"]
            /\ runner' = [runner EXCEPT !.at = "widen", !.doing = 0]
            /\ UNCHANGED control
       ELSE /\ control' = [control EXCEPT !.state = "recovering"]
            /\ Goes("prepared") /\ UNCHANGED attempts
    /\ UNCHANGED <<update, db, bootstrap, receipts, mutation, spent>>

Widen ==
    /\ runner.at = "widen"
    /\ \/ /\ runner.marked
          /\ db' = [db EXCEPT !.wide = TRUE]
          /\ attempts' = [attempts EXCEPT ![Req][0] = "applied"]
          /\ control' = [control EXCEPT !.state = "recovering"]
          /\ Goes("prepared") /\ UNCHANGED spent
       \/ Injected("preparation") /\ UNCHANGED <<db, attempts, control>>
       \/ runner.marked /\ Stops("preparation") /\ UNCHANGED <<db, attempts, control>>
    /\ UNCHANGED <<update, bootstrap, receipts, mutation>>

PreparationReceipt ==
    /\ runner.at = "prepared"
    /\ \/ /\ Records("preparation", "completed", control.generation, FALSE)
          /\ runner' = [runner EXCEPT !.at = "recovery", !.doing = None]
          /\ UNCHANGED spent
       \/ Stops("preparation") /\ UNCHANGED receipts
    /\ UNCHANGED <<update, db, control, attempts, bootstrap, mutation>>

-----------------------------------------------------------------------------
(* Recovery of the remediation that was accepted before the update.        *)

BeginRecovery ==
    /\ runner.at = "recovery" /\ Authorized
    /\ IF ~(Ours /\ control.state = "recovering") THEN Ends
       ELSE IF Completed("preparation") THEN Goes("recovering")
       ELSE Fails("recovery", FALSE)
    /\ UNCHANGED <<update, db, control, attempts, bootstrap, receipts, mutation, spent>>

Recover ==
    /\ runner.at = "recovering" /\ db.pending /\ runner.marked
    /\ \/ db' = [db EXCEPT !.pending = FALSE] /\ UNCHANGED <<runner, spent>>
       \/ Stops("recovery") /\ UNCHANGED db
    /\ UNCHANGED <<update, control, attempts, bootstrap, receipts, mutation>>

Recovered ==
    /\ runner.at = "recovering" /\ ~db.pending
    /\ control' = [control EXCEPT !.state = "migrating"] /\ Goes("recovered")
    /\ UNCHANGED <<update, db, attempts, bootstrap, receipts, mutation, spent>>

RecoveryReceipt ==
    /\ runner.at = "recovered"
    /\ \/ /\ Records("recovery", "completed", control.generation, FALSE)
          /\ Goes("gate") /\ UNCHANGED spent
       \/ Stops("recovery") /\ UNCHANGED receipts
    /\ UNCHANGED <<update, db, control, attempts, bootstrap, mutation>>

-----------------------------------------------------------------------------
(* The gate: one transition after another.                                 *)

\* _validate_released_history_lineage: the owner's own attempts account for every
\* transition since the source of its plan.
Lineage == \A t \in Transition :
              t <= db.version => attempts[Req][t] \in {"started", "applied"}

\* _reconcile_started_attempts: a transition was committed, its attempt not ended.
Reconciled == [r \in Request |-> [t \in 0..Target |->
                  IF t \in 1..db.version /\ attempts[r][t] = "started" THEN "applied"
                  ELSE attempts[r][t]]]

BeginGate ==
    /\ runner.at = "gate" /\ Authorized
    /\ IF ~(Ours /\ control.state = "migrating") THEN Ends /\ UNCHANGED attempts
       ELSE IF ~(Completed("recovery") /\ Lineage)
       THEN Fails("gate", FALSE) /\ UNCHANGED attempts
       ELSE attempts' = Reconciled /\ Goes("next")
    /\ UNCHANGED <<update, db, control, bootstrap, receipts, mutation, spent>>

\* start_attempt returns the attempt of an interrupted run as it is.  One that had
\* ended would be answered with what was recorded of it (Resumable: there is none).
StartAttempt ==
    /\ runner.at = "next" /\ db.version < Target
    /\ LET t == db.version + 1 IN
         IF attempts[Req][t] \in {"none", "started"}
         THEN /\ attempts' = [attempts EXCEPT ![Req][t] = "started"]
              /\ runner' = [runner EXCEPT !.at = "begun", !.doing = t]
         ELSE Ends /\ UNCHANGED attempts
    /\ UNCHANGED <<update, db, control, bootstrap, receipts, mutation, spent>>

\* _inject_retry_once.
Inject ==
    /\ runner.at = "begun"
    /\ IF Injects /\ ~spent.injected
       THEN Fails("gate", TRUE) /\ spent' = [spent EXCEPT !.injected = TRUE]
       ELSE Goes("migrate") /\ UNCHANGED spent
    /\ UNCHANGED <<update, db, control, attempts, bootstrap, receipts, mutation>>

\* execute_migration_plan: the transition, the version and the history in one commit.
Migrate ==
    /\ runner.at = "migrate"
    /\ \/ /\ runner.marked
          /\ db' = [db EXCEPT !.version = @ + 1, !.by[runner.doing] = Req]
          /\ Goes("migrated") /\ UNCHANGED spent
       \/ Stops("gate") /\ UNCHANGED db
    /\ UNCHANGED <<update, control, attempts, bootstrap, receipts, mutation>>

FinishAttempt ==
    /\ runner.at = "migrated"
    /\ \/ /\ attempts' = [attempts EXCEPT ![Req][runner.doing] = "applied"]
          /\ runner' = [runner EXCEPT !.at = "next", !.doing = None]
          /\ UNCHANGED spent
       \/ Stops("gate") /\ UNCHANGED attempts
    /\ UNCHANGED <<update, db, control, bootstrap, receipts, mutation>>

Complete ==
    /\ runner.at = "next" /\ db.version = Target
    /\ \/ /\ control' = [control EXCEPT !.state = "completed"]
          /\ Goes("finished") /\ UNCHANGED spent
       \/ Stops("gate") /\ UNCHANGED control
    /\ UNCHANGED <<update, db, attempts, bootstrap, receipts, mutation>>

GateReceipt ==
    /\ runner.at = "finished"
    /\ \/ /\ Records("gate", "completed", control.generation, FALSE)
          /\ Goes("done") /\ UNCHANGED spent
       \/ Stops("gate") /\ UNCHANGED receipts
    /\ UNCHANGED <<update, db, control, attempts, bootstrap, mutation>>

\* A migration that had nothing to change is an error of the pipeline.
Finish ==
    /\ runner.at = "done" /\ Ends
    /\ mutation' = IF runner.migrates /\ runner.marked
                   THEN [mutation EXCEPT !.state = "completed"] ELSE mutation
    /\ UNCHANGED <<update, db, control, attempts, bootstrap, receipts, spent>>

-----------------------------------------------------------------------------
Step ==
    \/ Preflight \/ Backup \/ Mark \/ Refused \/ RecordFailure \/ RecordFailed
    \/ Bootstrap \/ Insert \/ Adopt \/ Resume \/ MarkPrepared \/ Survey \/ Widen
    \/ PreparationReceipt \/ BeginRecovery \/ Recover \/ Recovered \/ RecoveryReceipt
    \/ BeginGate \/ StartAttempt \/ Inject \/ Migrate \/ FinishAttempt \/ Complete
    \/ GateReceipt \/ Finish

Next ==
    \/ \E r \in Request : Admit(r) \/ GiveUp(r)
    \/ \E migrates \in BOOLEAN : Begin(migrates)
    \/ Dies \/ Step

-----------------------------------------------------------------------------
TypeOK ==
    /\ update \in [request : Request \cup {None},
                   status : [Request -> {"new", "active", "ended"}]]
    /\ db \in Database
    /\ control = NoRow \/ control \in Control
    /\ attempts \in [Request -> [0..Target -> {"none", "started", "applied", "failed"}]]
    /\ bootstrap \in {"none", "prepared", "adopted"}
    /\ \A s \in Stage : receipts[s] = NoReceipt \/ receipts[s] \in Receipt
    /\ runner \in Runner

\* An interrupted update can be taken up again: the owner's attempts account for what
\* is in the database, and the first transition that is not in it was at most begun.
\* Not so for the owner that found the work done by another request.
Resumable ==
    control.state \in Active /\ control.found = 0 =>
        /\ bootstrap # "none"
        /\ \A t \in Transition : attempts[control.owner][t] \in
               IF t < db.version THEN {"applied"}
               ELSE IF t = db.version THEN {"started", "applied"}
               ELSE IF t = db.version + 1 THEN {"none", "started"}
               ELSE {"none"}

\* A failed attempt is one whose transition its request did not make.
FailuresTrue == \A r \in Request, t \in Transition :
                    attempts[r][t] = "failed" => db.by[t] # r

\* A completed row or receipt speaks of a database at the target, with no attempt open.
CompletionTrue ==
    /\ control.state = "completed" =>
         /\ db.version = Target
         /\ \A r \in Request, t \in 0..Target : attempts[r][t] # "started"
    /\ receipts["gate"].state = "completed" => db.version = Target

\* The updater's record of the mutation: nothing of the schema is changed before it
\* says so, and a completed one names the request that made every transition.
MutationTrue ==
    /\ runner.migrates /\ ~mutation.started /\ runner.at \notin {"off", "preflight"} =>
          db.version = 0 /\ ~db.wide
    /\ mutation.state = "completed" =>
          db.version = Target /\ \A t \in Transition : db.by[t] = mutation.request

Truthful == Resumable /\ FailuresTrue /\ CompletionTrue /\ MutationTrue

\* A request that takes the row of a failed one finds every transition still to be
\* made, and none of the failed one's attempts open.
TakenOver ==
    control' # control /\ control # NoRow /\ control.owner # control'.owner =>
        /\ control.state = "failed" => db.version = control.found
        /\ \A t \in Transition : attempts[control.owner][t] # "started"
=============================================================================

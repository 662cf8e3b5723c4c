-------------------------- MODULE DatabaseRestore --------------------------
(***************************************************************************)
(* The restore of the current database: a request admitted by the API, the *)
(* helper daemon that isolates the writers, saves the database, replaces   *)
(* it, starts the writers again and reports, and the rollback to the saved *)
(* database when a step fails or the helper was interrupted.               *)
(*                                                                         *)
(* The database is replaced by containers of the restore executor, which   *)
(* the helper starts and waits for.  The helper may die before any of its  *)
(* steps and comes back through the bootstrap, which decides the restart   *)
(* policy of the writers; the host may restart; an operator may run the    *)
(* restart script at any time.                                             *)
(***************************************************************************)
EXTENDS Naturals, FiniteSets

CONSTANTS
    MaxRestores,   \* requests admitted one after the other
    MaxRuns,       \* executors of a replacement that may exist at once
    MaxAttempts,   \* attempts to schedule the integrity scan
    Survivors,     \* the stages in which an executor outlives its helper
    MaxFailures,   \* bound on operations that fail
    MaxDeaths,     \* bound on helpers that die alone
    MaxReboots,    \* bound on restarts of the host
    MaxWrites,     \* bound on writes of the api and the recorder
    MaxOperators   \* bound on runs of the restart script

Restore == 1 .. MaxRestores
Run == 1 .. MaxRuns
Writers == {"api", "recorder"}

VARIABLES
    request,    \* restore-request.json
    journal,    \* restore-journal.json
    public,     \* the status shown to users: operation and terminal result
    marker,     \* the operation named by the destructive marker, 0 for none
    integrity,  \* restore-integrity-convergence.json
    helper,     \* what the helper daemon does
    runs,       \* executors of "restore"
    db,         \* the database
    backups,    \* the database saved by each operation
    writers,    \* the writers that run
    policy,     \* the restart policy of the writers
    operator,   \* the restart script
    before,     \* history: the database when an operation began to replace it
    spent       \* how much of each bound is used up

files == <<request, journal, public, marker, integrity>>
data == <<db, backups, before>>
services == <<writers, policy>>
vars == <<files, helper, runs, data, services, operator, spent>>

-----------------------------------------------------------------------------
Phase == {"preflight", "pre_restore_backup", "writers_paused", "restore_running",
          "services_starting", "post_restore_check", "terminal"}
Fenced == {"writers_paused", "restore_running", "services_starting", "post_restore_check"}
Result == {"completed", "failed_rolled_back", "failed_recovery_required", "blocked"}
Safe == Result \ {"failed_recovery_required"}

\* base: 0, or the operation whose artifact the database was filled from; stale:
\* does it hold findings of the archive integrity from before the dump?
Db == [base : 0 .. MaxRestores, writes : SUBSET (1 .. MaxWrites),
       whole : BOOLEAN, stale : BOOLEAN]
NoDb == [base |-> MaxRestores + 1]

NoRun == [pc |-> "none", op |-> 0, mode |-> "source"]

Op == request.op
Fail == /\ spent.failures < MaxFailures
        /\ spent' = [spent EXCEPT !.failures = @ + 1]

Init ==
    /\ request = [op |-> 0, state |-> "none", result |-> "none"]
    /\ journal = [op |-> 0, phase |-> "preflight", backup |-> FALSE, result |-> "none"]
    /\ public = [op |-> 0, result |-> "none"]
    /\ marker = 0
    /\ integrity = [op |-> 0, mode |-> "source", state |-> "none", attempts |-> 0]
    /\ helper = [pc |-> "poll", mode |-> "source", result |-> "none", run |-> 0]
    /\ runs = [e \in Run |-> NoRun]
    /\ db = [base |-> 0, writes |-> {}, whole |-> TRUE, stale |-> FALSE]
    /\ backups = [o \in Restore |-> NoDb]
    /\ before = [o \in Restore |-> NoDb]
    /\ writers = Writers
    /\ policy = "always"
    /\ operator = "idle"
    /\ spent = [failures |-> 0, deaths |-> 0, reboots |-> 0, writes |-> 0, operators |-> 0]

-----------------------------------------------------------------------------
(* The API and the writers. *)

\* request_current_restore: no other operation is active.
Admit ==
    /\ "api" \in writers /\ db.whole
    /\ request.state \in {"none", "terminal"} /\ Op < MaxRestores
    /\ request' = [op |-> Op + 1, state |-> "admitted", result |-> "none"]
    /\ public' = [op |-> Op + 1, result |-> "none"]
    /\ UNCHANGED <<journal, marker, integrity, helper, runs, data, services, operator, spent>>

Write ==
    /\ writers # {} /\ db.whole
    /\ spent.writes < MaxWrites
    /\ spent' = [spent EXCEPT !.writes = @ + 1]
    /\ db' = [db EXCEPT !.writes = @ \cup {spent.writes + 1}]
    /\ UNCHANGED <<files, helper, runs, backups, before, services, operator>>

-----------------------------------------------------------------------------
(* The helper. *)

At(pc) == helper.pc = pc
Goes(pc) == helper' = [helper EXCEPT !.pc = pc]
Ends(result) == helper' = [helper EXCEPT !.pc = "finish", !.result = result, !.run = 0]
RollsBack == helper' = [helper EXCEPT !.pc = "fence", !.mode = "rollback", !.run = 0]

\* Where a step that fails leads: the rollback once the restore was ordered, the
\* writers back once their isolation was tried, the report otherwise.
Turns ==
    IF helper.mode = "rollback" THEN Ends("failed_recovery_required")
    ELSE IF helper.pc \in {"wait", "invalidate", "api", "check", "recorder"} THEN RollsBack
    ELSE IF helper.pc \in {"begin", "preflight"} THEN Ends("blocked")
    ELSE Goes("recover")

Publish(phase) ==
    /\ journal' = [journal EXCEPT !.op = Op, !.phase = phase, !.result = "none",
                                  !.backup = (journal.op = Op /\ @)]
    /\ public' = [op |-> Op, result |-> "none"]

\* writer_isolation_active: the evidence is refused when a claimed request has the
\* journal of another operation.
EvidenceValid == request.state = "claimed" /\ journal.op # 0 => journal.op = Op
Isolated ==
    \/ request.state = "claimed" /\ journal.op # 0 /\ journal.phase \in Fenced
    \/ request.state = "terminal" /\ request.result = "failed_recovery_required"
Policy == IF Isolated THEN "no" ELSE "always"

\* run_role: nothing runs before the policies agree with the evidence.
Boot ==
    /\ At("down")
    /\ EvidenceValid
    /\ policy' = Policy
    /\ Goes("poll")
    /\ UNCHANGED <<files, runs, data, writers, operator, spent>>

\* A request claimed by a helper that died is taken again.
Claim ==
    /\ At("poll")
    /\ request.state \in {"admitted", "claimed"}
    /\ request' = [request EXCEPT !.state = "claimed"]
    /\ helper' = [helper EXCEPT !.pc = "begin", !.mode = "source", !.result = "none"]
    /\ UNCHANGED <<journal, public, marker, integrity, runs, data, services, operator, spent>>

BeginsByJournal ==
    /\ At("begin")
    /\ IF journal.op = Op
       THEN Goes("recover") /\ UNCHANGED <<journal, public, spent>>
       ELSE \/ Goes("preflight") /\ Publish("preflight") /\ UNCHANGED spent
            \/ Fail /\ Turns /\ UNCHANGED <<journal, public>>
    /\ UNCHANGED <<request, marker, integrity, runs, data, services, operator>>

\* The marker of the operation comes first: the database may have been touched.
Begin ==
    /\ At("begin")
    /\ IF marker = Op
       THEN /\ IF journal.backup THEN RollsBack ELSE Ends("failed_recovery_required")
            /\ UNCHANGED <<journal, public, spent>>
       ELSE IF journal.op = Op
       THEN Goes("recover") /\ UNCHANGED <<journal, public, spent>>
       ELSE \/ Goes("preflight") /\ Publish("preflight") /\ UNCHANGED spent
            \/ Fail /\ Turns /\ UNCHANGED <<journal, public>>
    /\ UNCHANGED <<request, marker, integrity, runs, data, services, operator>>

Preflight ==
    /\ At("preflight")
    /\ \/ Goes("pause") /\ Publish("pre_restore_backup") /\ UNCHANGED spent
       \/ Fail /\ Turns /\ UNCHANGED <<journal, public>>
    /\ UNCHANGED <<request, marker, integrity, runs, data, services, operator>>

Pause ==
    /\ At("pause")
    /\ \/ Goes("fence") /\ Publish("writers_paused") /\ UNCHANGED spent
       \/ Fail /\ Turns /\ UNCHANGED <<journal, public>>
    /\ UNCHANGED <<request, marker, integrity, runs, data, services, operator>>

\* stop_restore_writers: first the policy, then the containers, then a look at them.
Fence ==
    /\ At("fence")
    /\ \/ Goes("stop") /\ policy' = "no" /\ UNCHANGED spent
       \/ Fail /\ Turns /\ policy' \in {policy, "no"}
    /\ UNCHANGED <<files, runs, data, writers, operator>>

Stop ==
    /\ At("stop")
    /\ \/ /\ Goes(IF helper.mode = "source" THEN "backup" ELSE "restore")
          /\ writers' = {}
          /\ UNCHANGED spent
       \/ Fail /\ Turns /\ writers' \in SUBSET writers
    /\ UNCHANGED <<files, runs, data, policy, operator>>

\* The saved database is named by the journal before anything is replaced.
Backup ==
    /\ At("backup")
    /\ \/ /\ Goes("restore")
          /\ backups' = [backups EXCEPT ![Op] = db]
          /\ journal' = [op |-> Op, phase |-> "restore_running", backup |-> TRUE, result |-> "none"]
          /\ public' = [op |-> Op, result |-> "none"]
          /\ UNCHANGED spent
       \/ Fail /\ Turns /\ UNCHANGED <<backups, journal, public>>
    /\ UNCHANGED <<request, marker, integrity, runs, db, before, services, operator>>

Starts ==
    /\ At("restore")
    /\ \E e \in Run :
        /\ runs[e] = NoRun /\ \A f \in 1 .. e - 1 : runs[f] # NoRun
        /\ runs' = [runs EXCEPT ![e] = [pc |-> "loaded", op |-> Op, mode |-> helper.mode]]
        /\ helper' = [helper EXCEPT !.pc = "wait", !.run = e]
    /\ UNCHANGED <<files, data, services, operator, spent>>

Collects ==
    /\ At("wait")
    /\ runs[helper.run].pc \in {"done", "failed"}
    /\ IF runs[helper.run].pc = "done"
       THEN helper' = [helper EXCEPT !.pc = "invalidate", !.run = 0] ELSE Turns
    /\ runs' = [runs EXCEPT ![helper.run] = NoRun]
    /\ UNCHANGED <<files, data, services, operator, spent>>

\* The command times out; its container goes on.
GivesUp ==
    /\ At("wait")
    /\ runs[helper.run].pc \in Survivors
    /\ Fail /\ Turns
    /\ UNCHANGED <<files, runs, data, services, operator>>

\* The findings of the archive integrity go before any writer may read them; a status
\* that cannot be published restarts a rollback.
Invalidate ==
    /\ At("invalidate")
    /\ \/ /\ db' = [db EXCEPT !.stale = FALSE]
          /\ integrity' = [op |-> Op, mode |-> helper.mode, state |-> "invalidated", attempts |-> 0]
          /\ \/ Goes("api") /\ Publish("services_starting") /\ UNCHANGED spent
             \/ Fail /\ RollsBack /\ UNCHANGED <<journal, public>>
       \/ Fail /\ Turns /\ UNCHANGED <<db, integrity, journal, public>>
    /\ UNCHANGED <<request, marker, runs, backups, before, services, operator>>

StartApi ==
    /\ At("api")
    /\ \/ /\ writers' = writers \cup {"api"}
          /\ \/ Goes("check") /\ Publish("post_restore_check") /\ UNCHANGED spent
             \/ Fail /\ RollsBack /\ UNCHANGED <<journal, public>>
       \/ /\ Fail /\ Turns
          /\ writers' \in {writers, writers \cup {"api"}}
          /\ UNCHANGED <<journal, public>>
    /\ UNCHANGED <<request, marker, integrity, runs, data, policy, operator>>

Check ==
    /\ At("check")
    /\ \/ (IF db.whole THEN Goes("recorder") ELSE Turns) /\ UNCHANGED spent
       \/ Fail /\ Turns
    /\ UNCHANGED <<files, runs, data, services, operator>>

StartRecorder ==
    /\ At("recorder")
    /\ \/ /\ writers' = writers \cup {"recorder"}
          /\ Ends(IF helper.mode = "source" THEN "completed" ELSE "failed_rolled_back")
          /\ UNCHANGED spent
       \/ /\ Fail /\ Turns
          /\ writers' \in {writers, writers \cup {"recorder"}}
    /\ UNCHANGED <<files, runs, data, policy, operator>>

\* restart_restore_writers_best_effort: either of the two may not come back.
Recover ==
    /\ At("recover")
    /\ Ends("blocked")
    /\ \/ writers' = Writers /\ UNCHANGED spent
       \/ Fail /\ writers' \in {w \in SUBSET Writers : writers \subseteq w}
    /\ UNCHANGED <<files, runs, data, policy, operator>>

\* finish_restore_request, the durable part.  When the request cannot be written,
\* main starts over: the rollback if the marker is ours, the writers otherwise.
Finish ==
    /\ At("finish")
    /\ \/ /\ request' = [request EXCEPT !.state = "terminal", !.result = helper.result]
          /\ Goes("settle")
          /\ UNCHANGED spent
       \/ /\ Fail
          /\ IF marker = Op
             THEN IF journal.op = Op /\ journal.backup
                  THEN RollsBack ELSE Ends("failed_recovery_required")
             ELSE Goes("recover")
          /\ UNCHANGED request
    /\ UNCHANGED <<journal, public, marker, integrity, runs, data, services, operator>>

TerminalJournal == [op |-> Op, phase |-> "terminal", result |-> request.result,
                    backup |-> journal.op = Op /\ journal.backup]
TerminalPublic == [op |-> Op, result |-> request.result]

\* finish_restore_request, the rest: journal, status and the end of the fence, of
\* which any may fail without a word to the caller.
Settle ==
    /\ At("settle")
    /\ \E skipped \in SUBSET {"journal", "public", "policy"} :
        /\ IF skipped = {} THEN UNCHANGED spent ELSE Fail
        /\ journal' = IF "journal" \in skipped THEN journal ELSE TerminalJournal
        /\ public' = IF "public" \in skipped THEN public ELSE TerminalPublic
        /\ policy' = IF "policy" \in skipped \/ request.result \notin Safe
                     THEN policy ELSE "always"
    /\ Goes(IF request.result \in {"completed", "failed_rolled_back"}
            THEN "schedule" ELSE "poll")
    /\ UNCHANGED <<request, marker, integrity, runs, data, writers, operator>>

Outcome == IF request.result = "completed" THEN "source" ELSE "rollback"
OfThis == integrity.op = Op /\ integrity.mode = Outcome
Attempt(state) ==
    integrity' = [op |-> Op, mode |-> Outcome, state |-> state,
                  attempts |-> (IF OfThis THEN integrity.attempts ELSE 0) + 1]

\* schedule_post_restore_integrity: the scan is queued by a command inside the api.
Schedules ==
    \/ "api" \in writers /\ Attempt("scheduled") /\ UNCHANGED spent
    \/ Fail /\ Attempt("retry_required")
    \/ "api" \notin writers /\ Attempt("retry_required") /\ UNCHANGED spent

Schedule ==
    /\ At("schedule")
    /\ Schedules
    /\ Goes("poll")
    /\ UNCHANGED <<request, journal, public, marker, runs, data, services, operator>>

\* reconcile_restore_integrity_convergence
ScheduleAgain ==
    /\ At("poll")
    /\ request.state = "terminal" /\ request.result \in {"completed", "failed_rolled_back"}
    /\ OfThis => \/ integrity.state = "invalidated"
                 \/ integrity.state = "retry_required" /\ integrity.attempts < MaxAttempts
    /\ Schedules
    /\ UNCHANGED <<request, journal, public, marker, helper, runs, data, services, operator>>

\* reconcile_restore_terminal_projection
ReconcileJournal ==
    /\ At("poll")
    /\ request.state = "terminal"
    /\ journal.op # Op \/ journal.result # request.result
    /\ journal' = TerminalJournal
    /\ public' = TerminalPublic
    /\ UNCHANGED <<request, marker, integrity, helper, runs, data, services, operator, spent>>

Reconcile ==
    /\ At("poll")
    /\ request.state = "terminal"
    /\ \/ journal.op # Op \/ journal.result # request.result
       \/ public # TerminalPublic
    /\ journal' = TerminalJournal
    /\ public' = TerminalPublic
    /\ UNCHANGED <<request, marker, integrity, helper, runs, data, services, operator, spent>>

-----------------------------------------------------------------------------
(* An executor of "restore". *)

Moves(e, pc) == runs' = [runs EXCEPT ![e].pc = pc]
\* Nobody waits for an executor its helper left.
Ended(e, pc) == IF e = helper.run THEN [runs[e] EXCEPT !.pc = pc] ELSE NoRun

Mark(e) ==
    /\ runs[e].pc = "loaded"
    /\ marker' = runs[e].op
    /\ before' = IF before[runs[e].op] = NoDb THEN [before EXCEPT ![runs[e].op] = db] ELSE before
    /\ Moves(e, "marked")
    /\ UNCHANGED <<request, journal, public, integrity, helper, db, backups, services, operator, spent>>

\* _reset_postgres_database ends every other connection, a pg_restore included.
Reset(e) ==
    /\ runs[e].pc = "marked"
    /\ db' = [db EXCEPT !.whole = FALSE]
    /\ runs' = [f \in Run |-> IF f = e THEN [runs[e] EXCEPT !.pc = "reset"]
                              ELSE IF runs[f].pc = "reset" THEN Ended(f, "failed") ELSE runs[f]]
    /\ UNCHANGED <<files, helper, backups, before, services, operator, spent>>

FromSource(e) == [base |-> runs[e].op, writes |-> {}, whole |-> TRUE, stale |-> TRUE]
Content(e) == IF runs[e].mode = "source" THEN FromSource(e)
              ELSE [backups[runs[e].op] EXCEPT !.stale = TRUE]

Fill(e) ==
    /\ runs[e].pc = "reset"
    /\ db' = Content(e)
    /\ runs' = [runs EXCEPT ![e] = Ended(e, "done")]
    /\ UNCHANGED <<files, helper, backups, before, services, operator, spent>>

ExecutorFails(e) ==
    /\ runs[e].pc \in {"loaded", "marked", "reset"}
    /\ Fail
    /\ runs' = [runs EXCEPT ![e] = Ended(e, "failed")]
    /\ UNCHANGED <<files, helper, data, services, operator>>

-----------------------------------------------------------------------------
(* What the installation meets. *)

HelperDies ==
    /\ ~At("down")
    /\ spent.deaths < MaxDeaths
    /\ spent' = [spent EXCEPT !.deaths = @ + 1]
    /\ helper' = [helper EXCEPT !.pc = "down", !.run = 0]
    /\ runs' = [e \in Run |-> IF e = helper.run /\ runs[e].pc \notin Survivors
                              THEN NoRun ELSE runs[e]]
    /\ UNCHANGED <<files, data, services, operator>>

HostReboots ==
    /\ spent.reboots < MaxReboots
    /\ spent' = [spent EXCEPT !.reboots = @ + 1]
    /\ helper' = [helper EXCEPT !.pc = "down", !.run = 0]
    /\ runs' = [e \in Run |-> NoRun]
    /\ writers' = IF policy = "always" THEN Writers ELSE {}
    /\ operator' = "idle"
    /\ UNCHANGED <<files, data, policy>>

\* The restart script asks once whether the writers are isolated...
OperatorReads ==
    /\ operator = "idle" /\ spent.operators < MaxOperators
    /\ EvidenceValid /\ ~Isolated
    /\ spent' = [spent EXCEPT !.operators = @ + 1]
    /\ operator' = "starting"
    /\ policy' = Policy
    /\ UNCHANGED <<files, helper, runs, data, writers>>

\* ... and starts them when it comes to that; the policies are settled again last.
OperatorStarts ==
    /\ operator = "starting"
    /\ operator' = "idle"
    /\ writers' = Writers
    /\ policy' = IF EvidenceValid THEN Policy ELSE policy
    /\ UNCHANGED <<files, helper, runs, data, spent>>

-----------------------------------------------------------------------------
HelperStep ==
    \/ Boot \/ Claim \/ Begin \/ Preflight \/ Pause \/ Fence \/ Stop \/ Backup
    \/ Starts \/ Collects \/ GivesUp \/ Invalidate \/ StartApi \/ Check
    \/ StartRecorder \/ Recover \/ Finish \/ Settle \/ Schedule \/ ScheduleAgain
    \/ Reconcile
ExecutorStep(e) == Mark(e) \/ Reset(e) \/ Fill(e) \/ ExecutorFails(e)

Next ==
    \/ Admit \/ Write
    \/ HelperStep
    \/ \E e \in Run : ExecutorStep(e)
    \/ HelperDies \/ HostReboots \/ OperatorReads \/ OperatorStarts

Fairness ==
    /\ WF_vars(HelperStep)
    /\ \A e \in Run : WF_vars(ExecutorStep(e))

Spec == Init /\ [][Next]_vars /\ Fairness

-----------------------------------------------------------------------------
TypeOK ==
    /\ request \in [op : 0 .. MaxRestores, state : {"none", "admitted", "claimed", "terminal"},
                    result : Result \cup {"none"}]
    /\ journal \in [op : 0 .. MaxRestores, phase : Phase, backup : BOOLEAN,
                    result : Result \cup {"none"}]
    /\ public \in [op : 0 .. MaxRestores, result : Result \cup {"none"}]
    /\ marker \in 0 .. MaxRestores
    /\ integrity \in [op : 0 .. MaxRestores, mode : {"source", "rollback"},
                      state : {"none", "invalidated", "scheduled", "retry_required"},
                      attempts : 0 .. MaxAttempts]
    /\ helper \in [pc : {"down", "poll", "begin", "preflight", "pause", "fence", "stop",
                         "backup", "restore", "wait", "invalidate", "api", "check",
                         "recorder", "recover", "finish", "settle", "schedule"},
                   mode : {"source", "rollback"}, result : Result \cup {"none"}, run : {0} \cup Run]
    /\ runs \in [Run -> [pc : {"none", "loaded", "marked", "reset", "done", "failed"},
                         op : 0 .. MaxRestores, mode : {"source", "rollback"}]]
    /\ db \in Db
    /\ backups \in [Restore -> Db \cup {NoDb}]
    /\ before \in [Restore -> Db \cup {NoDb}]
    /\ writers \subseteq Writers
    /\ policy \in {"always", "no"}
    /\ operator \in {"idle", "starting"}
    /\ helper.pc = "wait" => helper.run \in Run

\* The restart script was run during this life of the system.
Meddled == spent.operators > 0

\* The api and the recorder never run while the database is being replaced: from the
\* marker of a replacement to a whole database none of them is up, whatever failed or
\* died (stop_restore_writers, run_current_restore, writer_isolation_active), unless
\* the operator's restart script started them (it reads the isolation only once).
WritersIsolated ==
    (\/ ~db.whole
     \/ \E e \in Run : runs[e].pc \in {"marked", "reset"})
    => writers = {} \/ Meddled

\* What users are told is what happened: a completed restore left the database of its
\* artifact, a rolled back one everything the database held when the restore began to
\* replace it, a blocked one never touched it; and whatever the writers work on holds
\* either the artifact or all that was there before (rollback_current_restore).
ResultTruthful ==
    LET Kept == db.base = before[Op].base /\ before[Op].writes \subseteq db.writes
    IN  Op # 0 /\ ~Meddled =>
        /\ request.result = "completed" => db.base = Op
        /\ request.result = "failed_rolled_back" /\ before[Op] # NoDb => Kept
        /\ request.result = "blocked" => marker # Op /\ db.base # Op
        /\ writers # {} /\ before[Op] # NoDb /\ db.base # Op => Kept

\* No writer ever reads findings about the archive that come out of the dump: they
\* are gone before the first writer starts (invalidate_post_restore_integrity),
\* again unless the operator's script started it.
StaleFindingsHidden == writers # {} => ~db.stale \/ Meddled

\* Each admitted restore has ended: all that stops one is a helper that died between
\* claiming the request and its first journal, over the journal of an earlier restore
\* (run_role refuses to start then).
Converged == request.state \in {"admitted", "claimed"} => ~EvidenceValid

\* The journal and the status shown to users tell the result of the request, although
\* finish_restore_request swallows the failures of both writes.
ProjectionAgrees ==
    request.state = "terminal" =>
        journal.op = Op /\ journal.result = request.result /\ public = TerminalPublic

\* After a restore that replaced the database the archive has been scanned anew, or all
\* attempts are spent.
ArchiveRescanned ==
    request.state = "terminal" /\ request.result \in {"completed", "failed_rolled_back"} =>
        OfThis /\ (integrity.state = "scheduled" \/ integrity.attempts = MaxAttempts)

\* Between any two steps of the helper, the executor and the reboots the writers are
\* kept from a database in replacement, and what is told of it is true.
RestoreSafe == TypeOK /\ WritersIsolated /\ StaleFindingsHidden /\ ResultTruthful

\* No restore is under way and none owes anything.
Settled == Converged /\ ProjectionAgrees /\ ArchiveRescanned
=============================================================================

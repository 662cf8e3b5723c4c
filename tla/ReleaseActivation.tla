------------------------- MODULE ReleaseActivation -------------------------
(***************************************************************************)
(* The activation of a prepared release: an update request served by the   *)
(* helper daemon, the journal that takes the installation from the         *)
(* previous release slot to the target one or back, and the recovery that  *)
(* converges an interrupted journal.                                       *)
(*                                                                         *)
(* A process of the bridge holds the activation lease from its first to    *)
(* its last step; each write of the journal, each switch of the pointer    *)
(* and each Docker operation is a step, and the process may die before     *)
(* any of them.  The helper and the restart script run bridge processes of *)
(* their own; the container that migrates the database is a third actor,   *)
(* which may outlive the process that started it.                          *)
(***************************************************************************)
EXTENDS Naturals, FiniteSets

CONSTANTS
    Request,      \* update requests, each admitted once
    TargetOf,     \* the slot a request prepares
    First,        \* the slot installed at the start
    SchemaOf,     \* the schema version of the release in a slot
    None,
    Outlives,     \* may a migration survive its driver before it has the schema lock?
    Repairs,      \* may a reader of the authority, which repairs the pointer without the
                  \* lease, meet an activation later than the one it read of?
    MaxMishaps    \* bound on operations that fail, bridge processes that die alone,
                  \* restarts of the helper container and of the host, in all

Driver == {"helper", "operator"}
Slot == {First} \cup {TargetOf[r] : r \in Request}

ASSUME RequestAssumption ==
    /\ None \notin Request \cup Slot
    /\ First \notin {TargetOf[r] : r \in Request}
    /\ SchemaOf \in [Slot -> Nat]
ASSUME BoundAssumption ==
    /\ {Outlives, Repairs} \subseteq BOOLEAN
    /\ MaxMishaps \in Nat

VARIABLES
    request,    \* the published status of each request
    helper,     \* what the helper daemon does, and for which request
    journal,    \* activation journal
    run,        \* the bridge process of each driver
    active,     \* the slot of the active pointer
    projected,  \* the slot of the installed projection
    slots,      \* slots on disk
    writers,    \* the api and recorder containers: their slot, running, restart policy
    db,         \* the database
    migrator,   \* the migration container: its request and how far it is
    evidence,   \* the request whose schema-mutation-state says completed
    spent       \* how much of each bound is used up

vars == <<request, helper, journal, run, active, projected, slots, writers,
          db, migrator, evidence, spent>>
control == <<request, helper>>
disk == <<active, projected, slots>>
schema == <<db, migrator, evidence>>

-----------------------------------------------------------------------------
Terminal == {"completed", "failed_rolled_back", "blocked"}
Done == {"completed", "failed_rolled_back"}
Phase == Terminal \cup {"target_prepared", "quiescing", "schema_preparing", "activating",
                        "verifying_target", "committing_target", "rolling_back"}

Cause == {"slot_quiesce_failed", "migration_failed", "schema_migration_interrupted",
          "active_pointer_switch_failed", "target_pointer_mismatch", "target_health_failed",
          "activation_pointer_conflict", "rollback_pointer_conflict",
          "rollback_database_unverified", "rollback_verification_failed"}

\* required: schema.migration_required; invoked, migrated: migration_invoked and
\* migration_completed.
Journal == [req : Request, phase : Phase, previous : Slot, target : Slot,
            required : BOOLEAN, invoked : BOOLEAN, migrated : BOOLEAN,
            cause : Cause \cup {None}, trigger : Cause \cup {None}]
NoJournal == [req |-> None]
Exists == journal # NoJournal
Settled == Exists => journal.phase \in Done

\* at: the next step of the process; "waiting" for the lease.  ready: the
\* previous runtime was found running; cleans: slots are removed at the end;
\* seen: the pointer a repairing reader saw.
Place == {"off", "waiting", "loop", "stopped", "migrate", "migrating", "switched", "started",
          "rollback", "proved", "turning", "back", "restored", "unfence", "project", "clean",
          "seen", "repair"}
Run == [at : Place,
        goal : Request \cup {None}, new : BOOLEAN, trigger : Cause \cup {None},
        ready : BOOLEAN, cleans : BOOLEAN, seen : Slot \cup {None}]
Off == [at |-> "off", goal |-> None, new |-> FALSE, trigger |-> None,
        ready |-> FALSE, cleans |-> FALSE, seen |-> None]

Migrator == [at : {"off", "begun", "locked", "mutating", "committed"}, req : Request \cup {None}]
Stopped == [at |-> "off", req |-> None]
Locked == migrator.at \in {"locked", "mutating", "committed"}

Free == \A d \in Driver : run[d].at \in {"off", "waiting", "seen", "repair"}
Goes(d, at) == run' = [run EXCEPT ![d].at = at]
Ends(d) == run' = [run EXCEPT ![d] = Off]
Spends(mishap) ==
    /\ spent.failures + spent.deaths + spent.restarts + spent.reboots < MaxMishaps
    /\ spent' = [spent EXCEPT ![mishap] = @ + 1]
Fails == Spends("failures")

Init ==
    /\ request = [r \in Request |-> "new"]
    /\ helper = [at |-> "idle", req |-> None]
    /\ journal = NoJournal
    /\ run = [d \in Driver |-> Off]
    /\ active = First /\ projected = First /\ slots = {First}
    /\ writers = [slot |-> First, up |-> TRUE, fenced |-> FALSE]
    /\ db = [version |-> SchemaOf[First], whole |-> TRUE]
    /\ migrator = Stopped
    /\ evidence = None
    /\ spent = [failures |-> 0, deaths |-> 0, restarts |-> 0, reboots |-> 0]

-----------------------------------------------------------------------------
(* The helper daemon: claim, resolve the authority, prepare the slot,      *)
(* activate, publish.                                                      *)

Claim(r) ==
    /\ helper = [at |-> "idle", req |-> None]
    /\ request[r] = "new" /\ \A q \in Request : request[q] # "claimed"
    /\ request' = [request EXCEPT ![r] = "claimed"]
    /\ helper' = [at |-> "resolve", req |-> r]
    /\ UNCHANGED <<journal, run, writers, spent>> /\ UNCHANGED disk /\ UNCHANGED schema

\* A claimed request found after a restart.
ClaimAgain(r) ==
    /\ helper = [at |-> "idle", req |-> None] /\ request[r] = "claimed"
    /\ IF Exists /\ journal.req = r
       THEN helper' = [at |-> "publish", req |-> r] /\ UNCHANGED request
       ELSE request' = [request EXCEPT ![r] = "failed"] /\ UNCHANGED helper
    /\ UNCHANGED <<journal, run, writers, spent>> /\ UNCHANGED disk /\ UNCHANGED schema

\* resolve_authority(repair): a journal that is not settled is resumed first.
Resumes(d) ==
    /\ run[d].at = "off" /\ ~Settled
    /\ run' = [run EXCEPT ![d].at = "waiting", ![d].goal = journal.req]

\* run_role: the helper container starts its daemon once the authority is settled
\* and the restart policies are reconciled with it.
\* Slip: it starts whatever the journal says.
BootsBlindly ==
    /\ helper.at = "boot" /\ helper' = [at |-> "idle", req |-> None]
    /\ UNCHANGED <<request, journal, run, writers, spent>>
    /\ UNCHANGED disk /\ UNCHANGED schema
HelperBoots ==
    /\ helper.at = "boot"
    /\ \/ /\ run["helper"].at = "off" /\ Settled
          /\ helper' = [at |-> "idle", req |-> None]
          /\ writers' = [writers EXCEPT !.fenced = FALSE]
          /\ UNCHANGED run
       \/ Resumes("helper") /\ UNCHANGED <<helper, writers>>
    /\ UNCHANGED <<request, journal, spent>> /\ UNCHANGED disk /\ UNCHANGED schema

HelperResolves ==
    /\ helper.at = "resolve" /\ run["helper"].at = "off"
    /\ \/ Settled /\ helper' = [helper EXCEPT !.at = "prepare"] /\ UNCHANGED run
       \/ Resumes("helper") /\ helper' = [helper EXCEPT !.at = "resolving"]
    /\ UNCHANGED <<request, journal, writers, spent>> /\ UNCHANGED disk /\ UNCHANGED schema

HelperResolved ==
    /\ helper.at = "resolving" /\ run["helper"].at = "off"
    /\ helper' = [helper EXCEPT !.at = IF Settled THEN "prepare" ELSE "publish"]
    /\ UNCHANGED <<request, journal, run, writers, spent>>
    /\ UNCHANGED disk /\ UNCHANGED schema

\* prepare_trusted_target_slot, then the activation is asked for.
HelperPrepares ==
    /\ helper.at = "prepare"
    /\ slots' = slots \cup {TargetOf[helper.req]}
    /\ helper' = [helper EXCEPT !.at = "activate"]
    /\ run' = [run EXCEPT !["helper"].at = "waiting", !["helper"].goal = helper.req,
                          !["helper"].new = TRUE]
    /\ UNCHANGED <<request, journal, active, projected, writers, spent>> /\ UNCHANGED schema

Outcome(r) ==
    IF ~Exists \/ journal.req # r \/ journal.phase \notin Terminal THEN "failed"
    ELSE journal.phase

\* publish_activation_outcome, or "failed" when the child left no outcome.
HelperPublishes ==
    /\ helper.at \in {"activate", "publish"} /\ run["helper"].at = "off"
    /\ request' = [request EXCEPT ![helper.req] = Outcome(helper.req)]
    /\ helper' = [at |-> "idle", req |-> None]
    /\ UNCHANGED <<journal, run, writers, spent>> /\ UNCHANGED disk /\ UNCHANGED schema

\* The restart script resolves the authority with --repair.
OperatorResumes ==
    /\ Resumes("operator")
    /\ UNCHANGED <<request, helper, journal, writers, spent>>
    /\ UNCHANGED disk /\ UNCHANGED schema

-----------------------------------------------------------------------------
(* A bridge process takes the lease and starts or resumes an activation.   *)

MayStart(r) ==
    /\ TargetOf[r] \in slots \ {active}
    /\ writers.up /\ writers.slot = active
    /\ db.whole /\ db.version <= SchemaOf[TargetOf[r]]

\* The checks of a new activation, and initialize_activation_journal.
Starts(d) ==
    LET r == run[d].goal IN
    /\ MayStart(r)
    /\ journal' = [req |-> r, phase |-> "target_prepared",
                   previous |-> active, target |-> TargetOf[r],
                   required |-> db.version < SchemaOf[TargetOf[r]],
                   invoked |-> FALSE, migrated |-> FALSE, cause |-> None, trigger |-> None]
    /\ Goes(d, "loop")

\* _activate_or_resume, up to the convergence loop.
TakeLease(d) ==
    /\ run[d].at = "waiting" /\ Free
    /\ IF Exists /\ journal.req = run[d].goal
       THEN Goes(d, "loop") /\ UNCHANGED <<journal, spent>>
       ELSE \/ Settled /\ run[d].new /\ Starts(d) /\ UNCHANGED spent
            \/ Settled /\ run[d].new /\ Ends(d) /\ Fails /\ UNCHANGED journal
            \/ /\ ~(Settled /\ run[d].new /\ MayStart(run[d].goal))
               /\ Ends(d) /\ UNCHANGED <<journal, spent>>
    /\ UNCHANGED writers /\ UNCHANGED control /\ UNCHANGED disk /\ UNCHANGED schema

-----------------------------------------------------------------------------
(* converge_activation: one step of the journal after another.             *)

In(d, phase) == run[d].at = "loop" /\ journal.phase = phase
Moves(phase) == journal' = [journal EXCEPT !.phase = phase]
Turns(d, trigger) ==
    run' = [run EXCEPT ![d].at = "rollback", ![d].trigger = trigger]

\* block_activation: the first failure is immutable.  Slip: the last one counts.
Replaced(j, cause, trigger) ==
    [j EXCEPT !.phase = "blocked", !.cause = cause, !.trigger = trigger]
Blocked(j, cause, trigger) ==
    [j EXCEPT !.phase = "blocked",
              !.cause = IF @ = None THEN cause ELSE @,
              !.trigger = IF @ = None THEN trigger ELSE @]
Blocks(d, cause, trigger) == journal' = Blocked(journal, cause, trigger) /\ Ends(d)

BeginActivation(d) ==
    /\ In(d, "target_prepared")
    /\ IF active # journal.previous THEN Blocks(d, "activation_pointer_conflict", None)
       ELSE /\ Moves(IF journal.required THEN "quiescing" ELSE "activating")
            /\ UNCHANGED run
    /\ UNCHANGED <<writers, spent>> /\ UNCHANGED control /\ UNCHANGED disk /\ UNCHANGED schema

\* stop_slot_schema_writers: the fence before the stop.
Quiesce(d) ==
    /\ In(d, "quiescing")
    /\ \/ /\ writers' = [writers EXCEPT !.fenced = TRUE, !.up = FALSE]
          /\ Goes(d, "stopped") /\ UNCHANGED spent
       \/ /\ writers' \in {[writers EXCEPT !.fenced = f, !.up = u] :
                           f \in {writers.fenced, TRUE}, u \in {writers.up, FALSE}}
          /\ Turns(d, "slot_quiesce_failed") /\ Fails
    /\ UNCHANGED journal /\ UNCHANGED control /\ UNCHANGED disk /\ UNCHANGED schema

RecordInvoked(d) ==
    /\ run[d].at = "stopped"
    /\ journal' = [journal EXCEPT !.phase = "schema_preparing", !.invoked = TRUE]
    /\ Goes(d, "migrate")
    /\ UNCHANGED <<writers, spent>> /\ UNCHANGED control /\ UNCHANGED disk /\ UNCHANGED schema

RunMigration(d) ==
    /\ run[d].at = "migrate"
    /\ \/ /\ migrator.at = "off" /\ migrator' = [at |-> "begun", req |-> journal.req]
          /\ Goes(d, "migrating") /\ UNCHANGED spent
       \/ Turns(d, "migration_failed") /\ Fails /\ UNCHANGED migrator
    /\ UNCHANGED <<journal, writers, db, evidence>> /\ UNCHANGED control /\ UNCHANGED disk

\* The migration ended, or it ran into its time limit and goes on.
MigrationReturns(d) ==
    /\ run[d].at = "migrating"
    /\ IF migrator.at = "off" THEN UNCHANGED spent ELSE Locked /\ Fails
    /\ IF evidence = journal.req
       THEN journal' = [journal EXCEPT !.migrated = TRUE] /\ Goes(d, "loop")
       ELSE Turns(d, "migration_failed") /\ UNCHANGED journal
    /\ UNCHANGED writers /\ UNCHANGED control /\ UNCHANGED disk /\ UNCHANGED schema

\* A later process, or the next iteration, in phase schema_preparing.
SchemaPrepared(d) ==
    /\ In(d, "schema_preparing")
    /\ IF journal.migrated \/ evidence = journal.req
       THEN /\ journal' = IF journal.migrated THEN [journal EXCEPT !.phase = "activating"]
                          ELSE [journal EXCEPT !.migrated = TRUE]
            /\ UNCHANGED run
       ELSE Turns(d, "schema_migration_interrupted") /\ UNCHANGED journal
    /\ UNCHANGED <<writers, spent>> /\ UNCHANGED control /\ UNCHANGED disk /\ UNCHANGED schema

SwitchPointer(d) ==
    /\ In(d, "activating")
    /\ \/ active' = journal.target /\ Goes(d, "switched") /\ UNCHANGED spent
       \/ /\ active # journal.target
          /\ Turns(d, "active_pointer_switch_failed") /\ Fails /\ UNCHANGED active
    /\ UNCHANGED <<journal, projected, slots, writers>> /\ UNCHANGED control /\ UNCHANGED schema

RecordSwitch(d) ==
    /\ run[d].at = "switched"
    /\ Moves("verifying_target") /\ Goes(d, "loop")
    /\ UNCHANGED <<writers, spent>> /\ UNCHANGED control /\ UNCHANGED disk /\ UNCHANGED schema

\* reconcile_slot_runtime and verify_slot_runtime of the target, or its failure
\* with the containers left as they are.
StartTarget(d) ==
    /\ In(d, "verifying_target")
    /\ IF active # journal.target
       THEN Blocks(d, "target_pointer_mismatch", None) /\ UNCHANGED <<writers, spent>>
       ELSE \/ /\ writers' = [slot |-> active, up |-> TRUE, fenced |-> journal.required]
               /\ Goes(d, "started") /\ UNCHANGED <<journal, spent>>
            \/ /\ writers' \in {writers} \cup
                   {[slot |-> active, up |-> u, fenced |-> journal.required] : u \in BOOLEAN}
               /\ Turns(d, "target_health_failed") /\ Fails /\ UNCHANGED journal
    /\ UNCHANGED control /\ UNCHANGED disk /\ UNCHANGED schema

RecordVerified(d) ==
    /\ run[d].at = "started"
    /\ Moves("committing_target") /\ Goes(d, "loop")
    /\ UNCHANGED <<writers, spent>> /\ UNCHANGED control /\ UNCHANGED disk /\ UNCHANGED schema

\* verify_slot_runtime again, then "completed"; a journal that contradicts the
\* pointer is not written.
Commit(d) ==
    /\ In(d, "committing_target")
    /\ IF active # journal.target THEN Ends(d) /\ UNCHANGED <<journal, spent>>
       ELSE IF ~writers.up
       THEN Turns(d, "target_health_failed") /\ UNCHANGED <<journal, spent>>
       ELSE \/ /\ journal' = [journal EXCEPT !.phase = "completed",
                                             !.cause = None, !.trigger = None]
               /\ run' = [run EXCEPT ![d].at = "unfence", ![d].cleans = TRUE]
               /\ UNCHANGED spent
            \/ Turns(d, "target_health_failed") /\ Fails /\ UNCHANGED journal
    /\ UNCHANGED writers /\ UNCHANGED control /\ UNCHANGED disk /\ UNCHANGED schema

ResumeDone(d) ==
    /\ run[d].at = "loop" /\ journal.phase \in Done /\ Goes(d, "unfence")
    /\ UNCHANGED <<journal, writers, spent>>
    /\ UNCHANGED control /\ UNCHANGED disk /\ UNCHANGED schema

\* A blocked activation, or one that was turning back, turns back again.
ResumeRollback(d) ==
    /\ run[d].at = "loop" /\ journal.phase \in {"blocked", "rolling_back"}
    /\ Turns(d, IF journal.trigger = None THEN journal.cause ELSE journal.trigger)
    /\ UNCHANGED <<journal, writers, spent>>
    /\ UNCHANGED control /\ UNCHANGED disk /\ UNCHANGED schema

Unfence(d) ==
    /\ run[d].at = "unfence"
    /\ writers' = [writers EXCEPT !.fenced = FALSE] /\ Goes(d, "project")
    /\ UNCHANGED <<journal, spent>> /\ UNCHANGED control /\ UNCHANGED disk /\ UNCHANGED schema

Selected == IF journal.phase = "completed" THEN journal.target ELSE journal.previous

\* publish_installed_slot_projection refuses a binding other than the active slot.
Project(d) ==
    /\ run[d].at = "project"
    /\ IF active = Selected THEN projected' = active ELSE UNCHANGED projected
    /\ IF run[d].cleans /\ active = Selected THEN Goes(d, "clean") ELSE Ends(d)
    /\ UNCHANGED <<journal, active, slots, writers, spent>>
    /\ UNCHANGED control /\ UNCHANGED schema

\* protected_slot_ids.
Protected == {active, journal.previous, journal.target}

\* attempt_terminal_release_cleanup; a failure is only reported.
Clean(d) ==
    /\ run[d].at = "clean" /\ Ends(d)
    /\ \/ slots' = slots \cap Protected /\ UNCHANGED spent
       \/ UNCHANGED slots /\ Fails
    /\ UNCHANGED <<journal, active, projected, writers>>
    /\ UNCHANGED control /\ UNCHANGED schema

-----------------------------------------------------------------------------
(* rollback_activation.                                                    *)

\* verify_rollback_database: the schema lock is free and the schema whole.  Slip:
\* nothing is proved.
Unproved == TRUE
Proved == ~Locked /\ db.whole

\* previous_runtime_ready.  Slip: the pointer alone is looked at.
Pointed == active = journal.previous
Ready == active = journal.previous /\ writers.up /\ writers.slot = active

ProveDatabase(d) ==
    /\ run[d].at = "rollback"
    /\ IF active \notin {journal.previous, journal.target}
       THEN Blocks(d, "rollback_pointer_conflict", run[d].trigger) /\ UNCHANGED spent
       ELSE \/ /\ Proved
               /\ run' = [run EXCEPT ![d].at = "proved", ![d].ready = Ready]
               /\ UNCHANGED <<journal, spent>>
            \/ ~Proved /\ Blocks(d, "rollback_database_unverified", run[d].trigger)
               /\ UNCHANGED spent
            \/ Blocks(d, "rollback_database_unverified", run[d].trigger) /\ Fails
    /\ UNCHANGED writers /\ UNCHANGED control /\ UNCHANGED disk /\ UNCHANGED schema

TurnBack(d) ==
    /\ run[d].at = "proved"
    /\ journal' = [journal EXCEPT !.phase = "rolling_back", !.trigger = run[d].trigger]
    /\ Goes(d, "turning")
    /\ UNCHANGED <<writers, spent>> /\ UNCHANGED control /\ UNCHANGED disk /\ UNCHANGED schema

RollbackFails(d) == Blocks(d, "rollback_verification_failed", run[d].trigger) /\ Fails

SwitchBack(d) ==
    /\ run[d].at = "turning"
    /\ \/ active' = journal.previous /\ Goes(d, "back") /\ UNCHANGED <<journal, spent>>
       \/ RollbackFails(d) /\ UNCHANGED active
    /\ UNCHANGED <<projected, slots, writers>> /\ UNCHANGED control /\ UNCHANGED schema

\* Nothing is restarted when the previous runtime was found ready.
RestartPrevious(d) ==
    /\ run[d].at = "back"
    /\ \/ /\ writers' = IF run[d].ready THEN writers
                        ELSE [slot |-> active, up |-> TRUE, fenced |-> journal.required]
          /\ Goes(d, "restored") /\ UNCHANGED <<journal, spent>>
       \/ /\ ~run[d].ready
          /\ writers' \in {writers} \cup
                 {[slot |-> active, up |-> u, fenced |-> journal.required] : u \in BOOLEAN}
          /\ RollbackFails(d)
    /\ UNCHANGED control /\ UNCHANGED disk /\ UNCHANGED schema

RecordRollback(d) ==
    /\ run[d].at = "restored"
    /\ IF active = journal.previous
       THEN /\ journal' = [journal EXCEPT !.phase = "failed_rolled_back",
                                          !.cause = IF @ = None THEN run[d].trigger ELSE @]
            /\ run' = [run EXCEPT ![d].at = "unfence", ![d].cleans = TRUE]
       ELSE Blocks(d, "rollback_verification_failed", run[d].trigger)
    /\ UNCHANGED <<writers, spent>> /\ UNCHANGED control /\ UNCHANGED disk /\ UNCHANGED schema

-----------------------------------------------------------------------------
(* The migration container (schema_update_pipeline --migrate).             *)

\* The advisory lock, then the preflight: the update must still be under way.
MigratorLocks ==
    /\ migrator.at = "begun"
    /\ migrator' = IF request[migrator.req] = "claimed" THEN [migrator EXCEPT !.at = "locked"]
                   ELSE Stopped
    /\ UNCHANGED <<journal, run, writers, db, evidence, spent>>
    /\ UNCHANGED control /\ UNCHANGED disk

\* wait_for_writer_quiescence before the first change.
MigratorMutates ==
    /\ migrator.at = "locked"
    /\ IF writers.up THEN migrator' = Stopped /\ UNCHANGED db
       ELSE /\ migrator' = [migrator EXCEPT !.at = "mutating"]
            /\ db' = [db EXCEPT !.whole = FALSE]
    /\ UNCHANGED <<journal, run, writers, evidence, spent>>
    /\ UNCHANGED control /\ UNCHANGED disk

MigratorCommits ==
    /\ migrator.at = "mutating"
    /\ migrator' = [migrator EXCEPT !.at = "committed"]
    /\ db' = [version |-> SchemaOf[TargetOf[migrator.req]], whole |-> TRUE]
    /\ UNCHANGED <<journal, run, writers, evidence, spent>>
    /\ UNCHANGED control /\ UNCHANGED disk

MigratorRecords ==
    /\ migrator.at = "committed"
    /\ migrator' = Stopped /\ evidence' = migrator.req
    /\ UNCHANGED <<journal, run, writers, db, spent>>
    /\ UNCHANGED control /\ UNCHANGED disk

\* A failed migration leaves the source schema or something in between.
MigratorFails ==
    /\ migrator.at # "off" /\ Fails
    /\ migrator' = Stopped
    /\ db' \in {db} \cup (IF migrator.at = "mutating" THEN {[db EXCEPT !.whole = TRUE]} ELSE {})
    /\ UNCHANGED <<journal, run, writers, evidence>> /\ UNCHANGED control /\ UNCHANGED disk

-----------------------------------------------------------------------------
(* A bridge process dies or gives up, the helper container restarts, the   *)
(* host restarts; a reader of the authority repairs the pointer.           *)

\* A migration that has the lock goes on without the process that started it.
Survives == IF Locked \/ Outlives THEN migrator ELSE Stopped

Dies(d) ==
    /\ run[d].at # "off" /\ Spends("deaths")
    /\ Ends(d) /\ migrator' = IF run[d].at = "migrating" THEN Survives ELSE migrator
    /\ UNCHANGED <<journal, writers, db, evidence>> /\ UNCHANGED control /\ UNCHANGED disk

HelperRestarts ==
    /\ Spends("restarts")
    /\ helper' = [at |-> "boot", req |-> None]
    /\ Ends("helper")
    /\ migrator' = IF run["helper"].at = "migrating" THEN Survives ELSE migrator
    /\ UNCHANGED <<request, journal, writers, db, evidence>> /\ UNCHANGED disk

HostReboots ==
    /\ Spends("reboots")
    /\ helper' = [at |-> "boot", req |-> None]
    /\ run' = [d \in Driver |-> Off]
    /\ migrator' = Stopped
    /\ writers' = [writers EXCEPT !.up = ~writers.fenced]
    /\ UNCHANGED <<request, journal, db, evidence>> /\ UNCHANGED disk

\* resolve_authority reads the pointer, then the journal, without the lease.
SeePointer ==
    /\ Exists /\ run["operator"].at = "off"
    /\ Repairs \/ \A r \in Request \ {journal.req} : request[r] \notin {"new", "claimed"}
    /\ run' = [run EXCEPT !["operator"].at = "seen", !["operator"].seen = active]
    /\ UNCHANGED <<journal, writers, spent>> /\ UNCHANGED control
    /\ UNCHANGED disk /\ UNCHANGED schema

ReadAuthority ==
    /\ run["operator"].at = "seen"
    /\ IF journal.phase \in Done /\ run["operator"].seen # Selected
       THEN run' = [run EXCEPT !["operator"].at = "repair", !["operator"].seen = Selected]
       ELSE Ends("operator")
    /\ UNCHANGED <<journal, writers, spent>> /\ UNCHANGED control
    /\ UNCHANGED disk /\ UNCHANGED schema

RepairPointer ==
    /\ run["operator"].at = "repair"
    /\ run["operator"].seen \in slots
    /\ active' = run["operator"].seen /\ projected' = run["operator"].seen
    /\ Ends("operator")
    /\ UNCHANGED <<journal, slots, writers, spent>> /\ UNCHANGED control /\ UNCHANGED schema

-----------------------------------------------------------------------------
HelperStep ==
    \/ \E r \in Request : ClaimAgain(r)
    \/ HelperBoots \/ HelperResolves \/ HelperResolved \/ HelperPrepares \/ HelperPublishes

BridgeStep(d) ==
    \/ BeginActivation(d) \/ Quiesce(d) \/ RecordInvoked(d) \/ RunMigration(d)
    \/ MigrationReturns(d) \/ SchemaPrepared(d) \/ SwitchPointer(d) \/ RecordSwitch(d)
    \/ StartTarget(d) \/ RecordVerified(d) \/ Commit(d) \/ ResumeDone(d) \/ ResumeRollback(d)
    \/ Unfence(d) \/ Project(d) \/ Clean(d)
    \/ ProveDatabase(d) \/ TurnBack(d) \/ SwitchBack(d) \/ RestartPrevious(d)
    \/ RecordRollback(d)

MigratorStep == MigratorLocks \/ MigratorMutates \/ MigratorCommits \/ MigratorRecords

Next ==
    \/ \E r \in Request : Claim(r)
    \/ HelperStep
    \/ OperatorResumes \/ SeePointer \/ ReadAuthority \/ RepairPointer
    \/ \E d \in Driver : TakeLease(d) \/ BridgeStep(d) \/ Dies(d)
    \/ MigratorStep \/ MigratorFails
    \/ HelperRestarts \/ HostReboots

Spec == Init /\ [][Next]_vars

\* A driver with the lease goes on; the one that waits is not passed over for ever.
Fairness ==
    /\ WF_vars(HelperStep) /\ WF_vars(MigratorStep)
    /\ \A d \in Driver : WF_vars(BridgeStep(d)) /\ SF_vars(TakeLease(d))
FairSpec == Spec /\ Fairness

-----------------------------------------------------------------------------
TypeOK ==
    /\ request \in [Request -> {"new", "claimed", "failed"} \cup Terminal]
    /\ helper \in [at : {"boot", "idle", "resolve", "resolving", "prepare", "activate", "publish"},
                   req : Request \cup {None}]
    /\ journal \in Journal \cup {NoJournal}
    /\ run \in [Driver -> Run]
    /\ {active, projected} \subseteq Slot /\ slots \subseteq Slot
    /\ writers \in [slot : Slot, up : BOOLEAN, fenced : BOOLEAN]
    /\ db \in [version : Nat, whole : BOOLEAN]
    /\ migrator \in Migrator /\ evidence \in Request \cup {None}
    /\ spent \in [{"failures", "deaths", "restarts", "reboots"} -> Nat]

\* Whoever converged the journal and however often it was interrupted, a
\* completed activation runs from its target and one rolled back from the slot
\* it left.
PointerAgrees ==
    Exists => /\ journal.phase = "completed" => active = journal.target
              /\ journal.phase = "failed_rolled_back" => active = journal.previous

\* The api and the recorder never run against a database that is half migrated
\* or older than their release, whatever crashes, survives or is started again.
SafeWriters ==
    writers.up => db.whole /\ db.version >= SchemaOf[writers.slot]

\* The first cause of a failure outlives every later failure of its recovery.
FirstCause ==
    [][Exists /\ journal.cause # None /\ journal'.req = journal.req
       => journal'.cause = journal.cause]_vars

\* An activation that was begun is finished, turned back or blocked, though the
\* helper restarts on the way; one whose bridge process was killed waits for the
\* next request, the next start of the helper or the operator.
Left == spent.deaths > 0 /\ \A d \in Driver : run[d].at \in {"off", "seen", "repair"}
Converges ==
    (Exists /\ journal.phase \notin Terminal)
        ~> (\/ Exists /\ journal.phase \in Terminal
            \/ Left)

\* A claimed request is answered, unless a migration left the database in pieces,
\* which only its restoration ends.
Answered ==
    \A r \in Request : (request[r] = "claimed") ~> (request[r] # "claimed" \/ ~db.whole)

\* After a settled activation the api and the recorder run again; only a restart of
\* the host under the writer fence (restart policy "no") leaves them stopped.
WritersReturn == (Exists /\ Settled) ~> (writers.up \/ spent.reboots > 0)

\* Between any two steps of the helper, the drivers, the migrator and the operator the
\* writers, the database and the active slot fit each other.
ActivationSafe == TypeOK /\ SafeWriters /\ PointerAgrees

\* Every activation comes to its end, every request to its answer, and the writers
\* run again.
ActivationEnds == Converges /\ Answered /\ WritersReturn

=============================================================================

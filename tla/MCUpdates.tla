------------------------------ MODULE MCUpdates ------------------------------
(***************************************************************************)
(* Instances for TLC of what replaces the data or the layout of a running  *)
(* installation: the restore of the database, the schema update, the       *)
(* activation of another archive root, the update a user asks for and the  *)
(* release slots.  As in MCServices a behaviour is one of a single         *)
(* component, chosen at the start; the others stay as they begin.          *)
(***************************************************************************)
EXTENDS Naturals, FiniteSets, Sequences, TLC

CONSTANTS
    Submission, MaxRelease, MaxUpsets,                  \* requests
    Upgrade, RetryOf, Versions, Injects, MaxFailures,   \* schema
    Nobody, r1, r2, r3, A, B, c1

VARIABLES
    scope,
    wanted, redoing, public, marker, integrity, restorer, runs, backups, producers,
    policy, operator, before, database, costs,                                \* restore
    update, tables, ruling, attempts, bootstrap, receipts, mutation, runner, mishaps,
                                                                              \* schema
    bound, config, files, binder, pending, last, rows, asked, api, cams, count,  \* roots
    world, snapshot, checking, handler, current, answer, activation, updater, audit, admitted,
    told, upsets,                                                             \* request
    origin, slot, alias, pointer, projection, switching, lock, process, container, status,
    coordinator, issued, faults                                               \* slots

-----------------------------------------------------------------------------
Restoring == INSTANCE DatabaseRestore WITH
    MaxRestores <- 2, MaxRuns <- 2, MaxAttempts <- 2, Survivors <- {"reset"},
    MaxFailures <- 1, MaxDeaths <- 1, MaxReboots <- 1, MaxWrites <- 1, MaxOperators <- 1,
    request <- wanted, journal <- redoing, helper <- restorer, writers <- producers,
    db <- database, spent <- costs

Schema == INSTANCE SchemaUpdate WITH
    Request <- Upgrade, Target <- Versions, None <- Nobody, MaxMishaps <- MaxFailures,
    control <- ruling, db <- tables, spent <- mishaps

ASSUME SchemaAssumption ==
    /\ Versions \in Nat /\ MaxFailures \in Nat /\ Injects \in BOOLEAN
    /\ RetryOf \in [Upgrade -> Upgrade \cup {Nobody}]
    /\ Nobody \notin Upgrade /\ Nobody \notin 0..Versions

\* A retry is a request of its own.
ASSUME RetryAssumption == \A r \in Upgrade : RetryOf[r] # r

Retries == r1 :> Nobody @@ r2 :> r1 @@ r3 :> Nobody

Roots == INSTANCE RootActivation WITH
    Root <- {A, B}, First <- A, Camera <- {c1}, None <- Nobody,
    Losses <- FALSE, Repeats <- FALSE,
    ErrsAt <- {"snapshot", "pausing", "stopping", "stopped", "restoring", "checking",
               "rollback"},
    MaxOps <- 2, MaxToggles <- 1, MaxMishaps <- 2,
    active <- bound, helper <- binder

Requests == INSTANCE UpdateRequest WITH
    None <- Nobody, Returns <- FALSE, MaxMishaps <- MaxUpsets, journal <- activation,
    mishaps <- upsets

ASSUME SubmissionAssumption ==
    /\ MaxRelease \in Nat \ {0} /\ MaxUpsets \in Nat
    /\ Requests!Ui \notin Submission
    /\ Nobody \notin Requests!Final \cup {"prepared", "activated", "running"}
    /\ Nobody \notin Requests!Candidate \cup Requests!Checking \cup Requests!Request
    /\ Nobody \notin Requests!Answer \cup Requests!Activation

Slots == INSTANCE ReleaseSlots WITH
    None <- Nobody, MaxRelease <- 2, Builds <- 0 :> {1} @@ 1 :> {1, 2} @@ 2 :> {2},
    MaxRequests <- 2, MaxMishaps <- 1,
    run <- process, active <- pointer, projected <- projection, journal <- switching,
    helper <- container, mishaps <- faults

restoreVars == <<wanted, redoing, public, marker, integrity, restorer, runs, backups, producers,
                 policy, operator, before, database, costs>>
schemaVars == <<update, tables, ruling, attempts, bootstrap, receipts, mutation, runner,
                mishaps>>
rootVars == <<bound, config, files, binder, pending, last, rows, asked, api, cams, count>>
requestVars == <<world, snapshot, checking, handler, current, answer, activation, updater, audit,
                 admitted, told, upsets>>
slotVars == <<origin, slot, alias, pointer, projection, switching, lock, process, container,
              status, coordinator, issued, faults>>

RestoringStep ==
    /\ scope = "restore" /\ Restoring!Next
    /\ UNCHANGED <<scope, schemaVars, rootVars, requestVars, slotVars>>

SchemaStep ==
    /\ scope = "schema" /\ Schema!Next
    /\ UNCHANGED <<scope, restoreVars, rootVars, requestVars, slotVars>>

RootsStep ==
    /\ scope = "roots" /\ Roots!Next
    /\ UNCHANGED <<scope, restoreVars, schemaVars, requestVars, slotVars>>

RequestsStep ==
    /\ scope = "request" /\ Requests!Next
    /\ UNCHANGED <<scope, restoreVars, schemaVars, rootVars, slotVars>>

SlotsStep ==
    /\ scope = "slots" /\ Slots!Next
    /\ UNCHANGED <<scope, restoreVars, schemaVars, rootVars, requestVars>>

-----------------------------------------------------------------------------
Start ==
    /\ scope \in {"restore", "schema", "roots", "request", "slots"}
    /\ Restoring!Init
    /\ Schema!Init /\ (scope # "schema" => ~tables.old /\ ~tables.pending)
    /\ Roots!Init
    /\ Requests!Init
    /\ Slots!Init /\ (scope # "slots" => origin = "legacy")

AnyStep == RestoringStep \/ SchemaStep \/ RootsStep \/ RequestsStep \/ SlotsStep

Updates ==
    Start /\ [][AnyStep]_<<restoreVars, schemaVars, rootVars, requestVars, slotVars, scope>>

FairUpdates ==
    /\ Updates
    /\ WF_restoreVars(scope = "restore" /\ Restoring!HelperStep)
    /\ \A e \in 1..2 : WF_restoreVars(scope = "restore" /\ Restoring!ExecutorStep(e))
    /\ WF_rootVars(scope = "roots" /\ Roots!WorkerStep)
    /\ WF_rootVars(scope = "roots" /\ Roots!HelperStep)
    /\ WF_rootVars(scope = "roots" /\ (Roots!Boot \/ Roots!Persist))
    /\ WF_rootVars(scope = "roots" /\ Roots!RecorderStep(c1))
    /\ WF_requestVars(scope = "request" /\ (Requests!HelperStep \/ Requests!HelperBoots))
    /\ WF_slotVars(scope = "slots" /\ Slots!Works)

-----------------------------------------------------------------------------
\* Between any two steps of the helper, the executor and the reboots the writers are
\* kept from a database in replacement, and what is told of it is true.
RestoreSafe == scope = "restore" => Restoring!RestoreSafe

\* Whatever interrupts the pipeline of a schema update, its control row, attempts, receipts
\* and mutation record agree with what was made of the database.
SchemaTruthful == scope = "schema" => Schema!TypeOK /\ Schema!Truthful

\* A retry takes over only from a failure that left the database as it had found it.
SchemaFinal == [][Schema!TakenOver]_schemaVars

\* Whatever dies or fails while a root is activated, the cameras keep what their users
\* want, no paused camera writes through the switch, and what is told is what is bound.
RootsTruthful == scope = "roots" => Roots!TypeOK /\ Roots!Truthful

\* Whoever reads the status or submits an update, whatever dies, is published or taken
\* back: the helper works on the current request, no end that was told is taken back, the
\* audit knows every request, and no activation goes back behind what is installed.
RequestsTruthful == scope = "request" => Requests!TypeOK /\ Requests!Truthful

\* Whoever prepares, activates, cleans up or dies: what runs, what an activation came from
\* and leads to and what the helper runs can be started from its own slot and image; the
\* installed projection names nothing that is gone, and one update is at work at a time.
SlotsKept == scope = "slots" => Slots!TypeOK /\ Slots!SlotsKept

\* Whatever fails, dies or restarts within the bounds: an admitted restore ends and delivers
\* the projection of its result and the new scan of the archive; an accepted activation of
\* a root ends or asks for its recovery, and then the cameras record; an admitted update
\* ends; and after an update the helper is up again and nothing is at work, unless a
\* rollback finds another release's helper.
UpdatesSettle ==
    []<>(CASE scope = "restore" -> Restoring!Settled
           [] scope = "roots" -> Roots!Settled
           [] scope = "request" -> Requests!Settled
           [] scope = "slots" -> Slots!Settled
           [] scope = "schema" -> TRUE)
=============================================================================

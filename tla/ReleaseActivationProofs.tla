------------------------ MODULE ReleaseActivationProofs ------------------------
(***************************************************************************)
(* Theorems about the activation of a release: the types, that the writers *)
(* fit the database and the pointer fits the journal (ActivationSafe), and *)
(* that the first cause of a failure stays (FirstCause).  The last parts   *)
(* are about the request in whose name a release is activated              *)
(* (UpdateRequest) and about the update of its schema (SchemaUpdate).      *)
(*                                                                         *)
(* Neither property is inductive.  What they rest on is what the journal   *)
(* promises of the database in each phase (JournalOK), and what it says at *)
(* each place of the process that holds the lease (DriverOK): the process  *)
(* itself remembers next to nothing.  The migration works without a lease; *)
(* it is safe because the database is in its hands, or in pieces, only     *)
(* under a journal that nobody takes on or turns back meanwhile            *)
(* (DatabaseOK), with the writers fenced (WritersOK).  The outcome of a    *)
(* migration is believed for the request it names, so a request still to   *)
(* be activated must have left no trace (HelperOK).                        *)
(*                                                                         *)
(* A step with the lease is a step of one process (LeaseStep), and then    *)
(* one of the journal, of the writers, of the pointer or of nothing else;  *)
(* each of those is a lemma, and each action is reduced to one of them.    *)
(* Steps without the lease are those of the migration (MigrationStep), of  *)
(* processes that wait or read (AsideStep) and of what cuts a process off  *)
(* (CutOffStep).                                                           *)
(***************************************************************************)
EXTENDS ReleaseActivation, MCUpdates, FiniteSetTheorems, TLAPS

-----------------------------------------------------------------------------
(* The invariant.                                                          *)

\* A process of the bridge has the lease from "loop" on.
Leases(d) == run[d].at \notin {"off", "waiting", "seen", "repair"}
OneLease == \A d, e \in Driver : Leases(d) /\ Leases(e) => d = e

\* What its journal, and the database where that matters, say at each place of a process.
JournalAt(at) ==
    /\ at = "stopped" => journal.phase = "quiescing" /\ writers.fenced
    /\ at \in {"migrate", "migrating"} => journal.phase = "schema_preparing" /\ journal.invoked
    /\ at = "migrate" => evidence # journal.req
    /\ at = "switched" => journal.phase = "activating"
    /\ at = "started" => journal.phase = "verifying_target"
    /\ at \in {"rollback", "proved"} => journal.phase \notin Done
    /\ at \in {"turning", "back", "restored"} => journal.phase = "rolling_back"
    /\ at \in {"back", "restored"} => active = journal.previous
    /\ at \in {"unfence", "project", "clean"} => journal.phase \in Done
    /\ at \in {"migrate", "proved", "turning", "back", "restored"} =>
           db.whole /\ migrator.at = "off"
    /\ at = "restored" => writers.up

DriverOK(d) ==
    /\ Leases(d) => Exists /\ JournalAt(run[d].at)
    /\ run[d].ready /\ run[d].at \in {"proved", "turning", "back"} => writers.up
    /\ run[d].at = "off" => ~run[d].new

\* What a journal says of the database.
Prepared == {"activating", "verifying_target", "committing_target", "completed"}
Undone == {"schema_preparing", "blocked"}

JournalOK ==
    Exists =>
        /\ journal.target = TargetOf[journal.req]
        /\ SchemaOf[journal.previous] <= db.version /\ db.version <= SchemaOf[journal.target]
        /\ journal.invoked => journal.required
        /\ journal.migrated => evidence = journal.req
        /\ ~journal.required \/ evidence = journal.req \/ journal.phase \in Prepared =>
               db.version = SchemaOf[journal.target]
        /\ evidence = journal.req => journal.invoked /\ db.whole /\ migrator.at = "off"
        /\ journal.phase \in {"target_prepared", "quiescing"} => ~journal.invoked
        /\ journal.phase = "quiescing" => journal.required
        /\ journal.phase = "schema_preparing" => journal.invoked
        /\ journal.cause # None => journal.phase \in {"blocked", "rolling_back", "failed_rolled_back"}

\* The database is only ever in pieces, or in the hands of a migration, under a journal
\* that can neither go on nor turn back meanwhile.
DatabaseOK ==
    ~db.whole \/ migrator.at # "off" =>
        Exists /\ journal.invoked /\ journal.phase \in Undone
MigratorOK ==
    /\ migrator.at # "off" => migrator.req = journal.req
    /\ migrator.at = "begun" => \E d \in Driver : run[d].at = "migrating"
    /\ migrator.at = "committed" => db = [version |-> SchemaOf[journal.target], whole |-> TRUE]
    /\ ~db.whole => ~writers.up /\ migrator.at \in {"off", "mutating"}

Fits == db.whole /\ db.version >= SchemaOf[writers.slot]
WritersOK ==
    /\ writers.up \/ ~writers.fenced \/ Settled => Fits
    /\ Exists /\ journal.invoked /\ ~Settled => writers.fenced

\* A request whose activation is still to begin has left no trace.
Unused(r) == journal.req # r /\ evidence # r
HelperOK ==
    /\ \A r \in Request : request[r] = "new" => Unused(r)
    /\ helper.at \notin {"boot", "idle"} => helper.req \in Request /\ request[helper.req] = "claimed"
    /\ helper.at \in {"resolve", "resolving", "prepare"} => Unused(helper.req)
    /\ helper.at \in {"idle", "resolve", "prepare"} => run["helper"].at = "off"
    /\ run["helper"].at = "waiting" /\ run["helper"].new =>
           helper.at = "activate" /\ run["helper"].goal = helper.req /\ Unused(helper.req)
    /\ run["helper"].at \notin {"seen", "repair"} /\ ~run["operator"].new

\* A reader that repairs the pointer meets no activation later than the one it read of.
RepairOK ==
    run["operator"].at \in {"seen", "repair"} =>
        /\ Exists /\ \A r \in Request \ {journal.req} : request[r] \notin {"new", "claimed"}
        /\ run["operator"].at = "repair" =>
               journal.phase \in Done /\ run["operator"].seen = Selected

ActivationInvariant ==
    /\ TypeOK /\ OneLease /\ \A d \in Driver : DriverOK(d)
    /\ JournalOK /\ DatabaseOK /\ MigratorOK /\ WritersOK /\ HelperOK /\ RepairOK
    /\ PointerAgrees

-----------------------------------------------------------------------------
(* The types, and what the abbreviations of a step do.                     *)

LEMMA DriverTyped ==
    ASSUME TypeOK, NEW d \in Driver
    PROVE  run \in [Driver -> Run] /\ run[d] \in Run /\ run[d].trigger \in Cause \cup {None}
  <1> QED BY DEF TypeOK, Run

LEMMA JournalTyped ==
    ASSUME TypeOK
    PROVE  /\ Exists <=> journal \in Journal
           /\ Exists <=> journal.req # None
           /\ Exists => journal.req \in Request /\ {journal.previous, journal.target} \subseteq Slot
           /\ ~Exists => Settled
  <1>1. \A j \in Journal : j.req \in Request /\ j.req # None
    BY RequestAssumption DEF Journal
  <1>2. NoJournal.req = None
    BY DEF NoJournal
  <1>3. \A j \in Journal : j # NoJournal
    BY <1>1, <1>2
  <1>4. journal \in Journal \cup {NoJournal}
    BY DEF TypeOK
  <1> QED BY <1>1, <1>2, <1>3, <1>4 DEF Exists, Settled, Journal

\* One process moves, the other stays.
Moved(d) == run' \in [Driver -> Run] /\ \A e \in Driver : e # d => run'[e] = run[e]

LEMMA Going ==
    ASSUME TypeOK, NEW d \in Driver, NEW a \in Place, Goes(d, a)
    PROVE  /\ Moved(d) /\ run'[d].at = a /\ run'[d].new = run[d].new
           /\ run'[d].ready = run[d].ready /\ run'[d].seen = run[d].seen
  <1> QED BY DriverTyped DEF Goes, Moved, Run

LEMMA Turning ==
    ASSUME TypeOK, NEW d \in Driver, NEW t \in Cause \cup {None}, Turns(d, t)
    PROVE  /\ Moved(d) /\ run'[d].at = "rollback" /\ run'[d].new = run[d].new
  <1> "rollback" \in Place
    BY DEF Place
  <1> QED BY DriverTyped DEF Turns, Moved, Run

LEMMA Ending ==
    ASSUME TypeOK, NEW d \in Driver, Ends(d)
    PROVE  /\ Moved(d) /\ run'[d].at = "off" /\ ~run'[d].new /\ ~run'[d].ready
  <1>1. Off \in Run /\ Off.at = "off" /\ Off.new = FALSE /\ Off.ready = FALSE
    BY DEF Off, Run, Place
  <1> QED BY <1>1, DriverTyped DEF Ends, Moved

LEMMA Spending ==
    ASSUME TypeOK, NEW m \in {"failures", "deaths", "restarts", "reboots"}, Spends(m)
    PROVE  spent' \in [{"failures", "deaths", "restarts", "reboots"} -> Nat]
  <1> QED BY DEF TypeOK, Spends

\* Writing the journal without changing what it is about.
Rewritten ==
    /\ journal' \in Journal /\ journal'.req = journal.req
    /\ journal'.previous = journal.previous /\ journal'.target = journal.target
    /\ journal'.required = journal.required /\ journal'.invoked = journal.invoked

LEMMA Moving ==
    ASSUME TypeOK, Exists, NEW p \in Phase, Moves(p)
    PROVE  /\ Rewritten /\ journal'.phase = p
           /\ journal'.migrated = journal.migrated /\ journal'.cause = journal.cause
  <1> QED BY JournalTyped DEF Moves, Rewritten, Journal

LEMMA Blocking ==
    ASSUME TypeOK, Exists, NEW c \in Cause, NEW t \in Cause \cup {None},
           journal' = Blocked(journal, c, t)
    PROVE  /\ Rewritten /\ journal'.phase = "blocked" /\ journal'.migrated = journal.migrated
           /\ journal.cause # None => journal'.cause = journal.cause
  <1> "blocked" \in Phase
    BY DEF Phase, Terminal
  <1> journal \in Journal
    BY JournalTyped
  <1> DEFINE a == IF journal.cause = None THEN c ELSE journal.cause
             b == IF journal.trigger = None THEN t ELSE journal.trigger
  <1>1. a \in Cause \cup {None} /\ b \in Cause \cup {None}
    BY DEF Journal
  <1>2. journal' = [journal EXCEPT !.phase = "blocked", !.cause = a, !.trigger = b]
    BY DEF Blocked
  <1>3. journal.cause # None => a = journal.cause
    OBVIOUS
  <1> HIDE DEF a, b
  <1> QED BY <1>1, <1>2, <1>3 DEF Rewritten, Journal

-----------------------------------------------------------------------------
(* What a step with the lease may disturb.                                 *)

\* A request is as unused as it was, for who keeps to the journal.
LEMMA LeaseStep ==
    ASSUME ActivationInvariant, NEW d \in Driver, Leases(d), Moved(d),
           run'[d].at \notin {"waiting", "seen", "repair"}, run'[d].new => run[d].new,
           run'[d].at = "off" => ~run'[d].new,
           UNCHANGED <<request, helper, evidence>>, journal'.req = journal.req,
           journal.phase \in Done => journal' = journal, Exists',
           TypeOK', DriverOK(d)', JournalOK', DatabaseOK', MigratorOK', WritersOK', PointerAgrees'
    PROVE  ActivationInvariant'
  <1>1. TypeOK /\ OneLease /\ HelperOK /\ RepairOK /\ Exists
    BY DEF ActivationInvariant, DriverOK
  <1>2. \A e \in Driver : e # d => ~Leases(e) /\ run'[e] = run[e]
    BY <1>1 DEF OneLease, Moved
  <1>3. OneLease'
    BY <1>2 DEF OneLease, Leases
  <1>4. \A e \in Driver : DriverOK(e)'
    <2>1. ASSUME NEW e \in Driver, e # d PROVE DriverOK(e)'
      <3>1. DriverOK(e) /\ ~Leases(e) /\ run'[e] = run[e]
        BY <1>2, <2>1 DEF ActivationInvariant
      <3>2. ~Leases(e)' /\ run[e].at \notin {"proved", "turning", "back"}
        BY <3>1 DEF Leases
      <3> QED BY <3>1, <3>2 DEF DriverOK
    <2> QED BY <2>1
  <1>5. HelperOK'
    <2>1. \A r \in Request : Unused(r)' = Unused(r)
      BY DEF Unused
    <2>2. run'["helper"].at \notin {"seen", "repair"} /\ ~run'["operator"].new
      BY <1>1, <1>2 DEF HelperOK, Driver
    <2>3. helper.at \in {"idle", "resolve", "prepare"} => run'["helper"].at = "off"
      BY <1>1, <1>2 DEF HelperOK, Driver, Leases
    <2>4. run'["helper"].at = "waiting" => d # "helper" /\ run'["helper"] = run["helper"]
      BY <1>2 DEF Driver
    <2> QED BY <1>1, <2>1, <2>2, <2>3, <2>4 DEF HelperOK
  <1>6. RepairOK'
    <2>1. SUFFICES ASSUME run'["operator"].at \in {"seen", "repair"} PROVE RepairOK'
      BY DEF RepairOK
    <2>2. run'["operator"] = run["operator"]
      BY <1>2, <2>1 DEF Driver
    <2>3. run["operator"].at = "repair" => journal' = journal
      BY <1>1, <2>2 DEF RepairOK
    <2> QED BY <1>1, <2>1, <2>2, <2>3 DEF RepairOK, Selected
  <1> QED BY <1>3, <1>4, <1>5, <1>6 DEF ActivationInvariant

\* A step that neither starts nor ends the wait for a migration.
Still(d) == migrator.at = "begun" => run[d].at # "migrating"

LEMMA MigratingKept ==
    ASSUME MigratorOK, NEW d \in Driver, Moved(d), Still(d), migrator.at = "begun"
    PROVE  \E e \in Driver : run'[e].at = "migrating"
  <1>1. PICK e \in Driver : run[e].at = "migrating"
    BY DEF MigratorOK
  <1>2. e # d
    BY <1>1 DEF Still
  <1> QED BY <1>1, <1>2 DEF Moved

\* Nothing changes but the process itself.
LEMMA RunStep ==
    ASSUME ActivationInvariant, NEW d \in Driver, Leases(d), Moved(d), Still(d),
           run'[d].at \notin {"waiting", "seen", "repair"}, run'[d].new => run[d].new,
           run'[d].at = "off" => ~run'[d].new,
           UNCHANGED <<request, helper, journal, active, projected, slots, writers, db, migrator,
                       evidence>>,
           spent' \in [{"failures", "deaths", "restarts", "reboots"} -> Nat], DriverOK(d)'
    PROVE  ActivationInvariant'
  <1>1. /\ TypeOK /\ Exists /\ JournalOK /\ DatabaseOK /\ MigratorOK /\ WritersOK
        /\ PointerAgrees
    BY DEF ActivationInvariant, DriverOK
  <1>2. TypeOK'
    BY <1>1 DEF TypeOK, Moved
  <1>3. Exists'
    BY <1>1 DEF Exists
  <1>4. JournalOK' /\ DatabaseOK' /\ WritersOK' /\ PointerAgrees'
    BY <1>1 DEF JournalOK, DatabaseOK, WritersOK, PointerAgrees, Exists, Settled, Fits
  <1>5. MigratorOK'
    BY <1>1, MigratingKept DEF MigratorOK
  <1> QED BY <1>2, <1>3, <1>4, <1>5, LeaseStep

\* The process writes the journal, before it is done.
LEMMA JournalStep ==
    ASSUME ActivationInvariant, NEW d \in Driver, Leases(d), Moved(d), Still(d),
           run'[d].at \notin {"waiting", "seen", "repair"}, run'[d].new => run[d].new,
           run'[d].at = "off" => ~run'[d].new,
           UNCHANGED <<request, helper, active, projected, slots, writers, db, migrator,
                       evidence>>,
           spent' \in [{"failures", "deaths", "restarts", "reboots"} -> Nat],
           journal' \in Journal, journal'.req = journal.req, journal'.target = journal.target,
           journal.phase \notin Done,
           journal'.invoked => writers.fenced, journal'.phase \in Done => Fits,
           DriverOK(d)', JournalOK', DatabaseOK', PointerAgrees'
    PROVE  ActivationInvariant'
  <1>1. TypeOK /\ Exists /\ MigratorOK /\ WritersOK
    BY DEF ActivationInvariant, DriverOK
  <1>2. TypeOK' /\ Exists'
    <2>1. journal'.req # None
      BY <1>1, JournalTyped
    <2>2. TypeOK'
      BY <1>1 DEF TypeOK, Moved
    <2>3. journal' # NoJournal
      BY <2>1 DEF NoJournal
    <2> QED BY <2>2, <2>3 DEF Exists
  <1>3. MigratorOK'
    BY <1>1, MigratingKept DEF MigratorOK
  <1>4. WritersOK'
    <2>1. Settled' => Fits
      BY <1>2 DEF Settled
    <2>2. Fits' = Fits
      BY DEF Fits
    <2>3. journal'.invoked => writers.fenced
      OBVIOUS
    <2> QED BY <1>1, <2>1, <2>2, <2>3 DEF WritersOK
  <1> QED BY <1>2, <1>3, <1>4, LeaseStep

-----------------------------------------------------------------------------
(* Turning back, giving up, and going on.                                  *)

LEMMA AtWork ==
    ASSUME ActivationInvariant, NEW d \in Driver, Leases(d)
    PROVE  /\ TypeOK /\ Exists /\ JournalAt(run[d].at) /\ journal \in Journal
           /\ JournalOK /\ WritersOK /\ DatabaseOK /\ PointerAgrees
           /\ journal.phase \notin Done <=> ~Settled
           /\ spent \in [{"failures", "deaths", "restarts", "reboots"} -> Nat]
  <1> QED BY JournalTyped DEF ActivationInvariant, DriverOK, TypeOK, Settled

LEMMA TurnsStep ==
    ASSUME ActivationInvariant, NEW d \in Driver, Leases(d), Still(d),
           NEW t \in Cause \cup {None}, Turns(d, t), journal.phase \notin Done,
           UNCHANGED <<request, helper, journal, active, projected, slots, writers, db, migrator,
                       evidence>>,
           spent' \in [{"failures", "deaths", "restarts", "reboots"} -> Nat]
    PROVE  ActivationInvariant'
  <1>1. TypeOK /\ Exists
    BY AtWork
  <1>2. Moved(d) /\ run'[d].at = "rollback" /\ run'[d].new = run[d].new
    BY <1>1, Turning
  <1>3. DriverOK(d)'
    BY <1>1, <1>2 DEF DriverOK, JournalAt, Exists
  <1> QED BY <1>2, <1>3, RunStep

LEMMA BlocksStep ==
    ASSUME ActivationInvariant, NEW d \in Driver, Leases(d), Still(d),
           NEW c \in Cause, NEW t \in Cause \cup {None}, Blocks(d, c, t), journal.phase \notin Done,
           UNCHANGED <<request, helper, active, projected, slots, writers, db, migrator, evidence>>,
           spent' \in [{"failures", "deaths", "restarts", "reboots"} -> Nat]
    PROVE  ActivationInvariant'
  <1>1. TypeOK /\ Exists /\ JournalOK /\ WritersOK /\ DatabaseOK /\ ~Settled
    BY AtWork
  <1>2. Moved(d) /\ run'[d].at = "off" /\ ~run'[d].new /\ ~run'[d].ready
    BY <1>1, Ending DEF Blocks
  <1>3. /\ Rewritten /\ journal'.phase = "blocked" /\ journal'.migrated = journal.migrated
    BY <1>1, Blocking DEF Blocks
  <1>4. DriverOK(d)'
    BY <1>2 DEF DriverOK, Leases
  <1>5. JournalOK'
    BY <1>1, <1>3 DEF JournalOK, Rewritten, Prepared
  <1>6. DatabaseOK'
    <2>1. Exists'
      BY <1>1, <1>3, JournalTyped DEF Exists, NoJournal, Rewritten
    <2> QED BY <1>1, <1>3, <2>1 DEF DatabaseOK, Undone, Rewritten
  <1>7. PointerAgrees'
    BY <1>3 DEF PointerAgrees
  <1>8. journal'.invoked => writers.fenced
    BY <1>1, <1>3 DEF WritersOK, Rewritten
  <1>9. journal'.phase \notin Done
    BY <1>3 DEF Done
  <1> QED BY <1>2, <1>3, <1>4, <1>5, <1>6, <1>7, <1>8, <1>9, JournalStep DEF Rewritten

\* A process that is done, or gives up without a word.
LEMMA EndsStep ==
    ASSUME ActivationInvariant, NEW d \in Driver, Leases(d), Still(d), Ends(d),
           UNCHANGED <<request, helper, journal, active, projected, slots, writers, db, migrator,
                       evidence>>,
           spent' \in [{"failures", "deaths", "restarts", "reboots"} -> Nat]
    PROVE  ActivationInvariant'
  <1>1. Moved(d) /\ run'[d].at = "off" /\ ~run'[d].new /\ ~run'[d].ready
    BY AtWork, Ending
  <1>2. DriverOK(d)'
    BY <1>1 DEF DriverOK, Leases
  <1> QED BY <1>1, <1>2, RunStep

\* The journal enters another phase before the switch is over.
LEMMA MovesStep ==
    ASSUME ActivationInvariant, NEW d \in Driver, Leases(d), Still(d), NEW p \in Phase \ Terminal,
           NEW a \in Place, Moves(p), Goes(d, a) \/ (UNCHANGED run /\ a = run[d].at),
           journal.phase \notin Done, a \in {"loop"},
           UNCHANGED <<request, helper, active, projected, slots, writers, db, migrator,
                       evidence, spent>>,
           journal.cause = None, db.whole /\ migrator.at = "off",
           p \in Prepared => db.version = SchemaOf[journal.target],
           p \in {"target_prepared", "quiescing"} => ~journal.invoked,
           p = "quiescing" => journal.required,
           p = "schema_preparing" => journal.invoked
    PROVE  ActivationInvariant'
  <1>1. TypeOK /\ Exists /\ JournalOK /\ WritersOK /\ DatabaseOK /\ ~Settled
    BY AtWork
  <1>2. /\ Moved(d) /\ run'[d].at = "loop" /\ run'[d].new = run[d].new
    BY <1>1, Going, DriverTyped DEF Moved
  <1>3. /\ Rewritten /\ journal'.phase = p /\ journal'.migrated = journal.migrated
        /\ journal'.cause = None
    BY <1>1, Moving
  <1>4. Exists'
    BY <1>1, <1>3, JournalTyped DEF Exists, NoJournal, Rewritten
  <1>5. DriverOK(d)'
    BY <1>2, <1>4 DEF DriverOK, JournalAt
  <1>6. JournalOK'
    BY <1>1, <1>3 DEF JournalOK, Rewritten, Prepared
  <1>7. DatabaseOK' /\ p \notin Done
    BY DEF DatabaseOK, Done, Terminal
  <1>8. PointerAgrees'
    BY <1>3 DEF PointerAgrees, Terminal
  <1>9. journal'.invoked => writers.fenced
    BY <1>1, <1>3 DEF WritersOK, Rewritten
  <1> QED BY <1>1, <1>2, <1>3, <1>5, <1>6, <1>7, <1>8, <1>9, AtWork, JournalStep DEF Rewritten

\* The process starts, stops or fences the api and the recorder.
LEMMA WriterStep ==
    ASSUME ActivationInvariant, NEW d \in Driver, Leases(d), Moved(d), Still(d),
           run'[d].at \notin {"waiting", "seen", "repair"}, run'[d].new => run[d].new,
           run'[d].at = "off" => ~run'[d].new,
           UNCHANGED <<request, helper, journal, active, projected, slots, db, migrator,
                       evidence>>,
           spent' \in [{"failures", "deaths", "restarts", "reboots"} -> Nat],
           writers' \in [slot : Slot, up : BOOLEAN, fenced : BOOLEAN],
           ~db.whole => ~writers'.up, DriverOK(d)', WritersOK'
    PROVE  ActivationInvariant'
  <1>1. /\ TypeOK /\ Exists /\ JournalOK /\ DatabaseOK /\ MigratorOK /\ PointerAgrees
    BY DEF ActivationInvariant, DriverOK
  <1>2. TypeOK' /\ Exists'
    BY <1>1 DEF TypeOK, Moved, Exists
  <1>3. JournalOK' /\ DatabaseOK' /\ PointerAgrees'
    BY <1>1 DEF JournalOK, DatabaseOK, PointerAgrees, Exists
  <1>4. MigratorOK'
    BY <1>1, MigratingKept DEF MigratorOK
  <1> QED BY <1>2, <1>3, <1>4, LeaseStep

\* The process switches the pointer, before it is done.
LEMMA PointerStep ==
    ASSUME ActivationInvariant, NEW d \in Driver, Leases(d), Moved(d), Still(d),
           run'[d].at \notin {"waiting", "seen", "repair"}, run'[d].new => run[d].new,
           run'[d].at = "off" => ~run'[d].new,
           UNCHANGED <<request, helper, journal, projected, slots, writers, db, migrator,
                       evidence, spent>>,
           active' \in Slot, journal.phase \notin Done, DriverOK(d)'
    PROVE  ActivationInvariant'
  <1>1. /\ TypeOK /\ Exists /\ JournalOK /\ DatabaseOK /\ MigratorOK /\ WritersOK
    BY DEF ActivationInvariant, DriverOK
  <1>2. TypeOK' /\ Exists'
    BY <1>1 DEF TypeOK, Moved, Exists
  <1>3. JournalOK' /\ DatabaseOK' /\ WritersOK'
    BY <1>1 DEF JournalOK, DatabaseOK, WritersOK, Exists, Settled, Fits
  <1>4. PointerAgrees'
    BY DEF PointerAgrees, Done
  <1>5. MigratorOK'
    BY <1>1, MigratingKept DEF MigratorOK
  <1> QED BY <1>2, <1>3, <1>4, <1>5, LeaseStep

-----------------------------------------------------------------------------
(* The steps towards the target.                                           *)

LEMMA BeginActivationStep ==
    ASSUME ActivationInvariant, NEW d \in Driver, BeginActivation(d)
    PROVE  ActivationInvariant'
  <1>1. /\ run[d].at = "loop" /\ journal.phase = "target_prepared"
        /\ UNCHANGED <<request, helper, active, projected, slots, writers, db, migrator,
                       evidence, spent>>
    BY DEF BeginActivation, In, control, disk, schema
  <1>2. Leases(d) /\ Still(d) /\ journal.phase \notin Done
    BY <1>1 DEF Leases, Still, Done
  <1>3. /\ JournalOK /\ Exists /\ DatabaseOK /\ ~Settled
        /\ spent' \in [{"failures", "deaths", "restarts", "reboots"} -> Nat]
    BY <1>1, <1>2, AtWork
  <1>4. CASE active # journal.previous
    <2>1. "activation_pointer_conflict" \in Cause /\ None \in Cause \cup {None}
      BY DEF Cause
    <2>2. Blocks(d, "activation_pointer_conflict", None)
      BY <1>4 DEF BeginActivation
    <2> QED BY <1>1, <1>2, <1>3, <2>1, <2>2, BlocksStep
  <1>5. CASE active = journal.previous
    <2> PICK p \in {"quiescing", "activating"} :
            p = IF journal.required THEN "quiescing" ELSE "activating"
      OBVIOUS
    <2>1. Moves(p) /\ UNCHANGED run /\ "loop" \in Place /\ p \in Phase \ Terminal
      BY <1>5 DEF BeginActivation, Place, Phase, Terminal
    <2>2. /\ journal.cause = None /\ ~journal.invoked
          /\ p \in Prepared => db.version = SchemaOf[journal.target]
      BY <1>1, <1>3 DEF JournalOK, Prepared
    <2>3. db.whole /\ migrator.at = "off"
      BY <1>3, <2>2 DEF DatabaseOK
    <2> QED BY <1>1, <1>2, <1>3, <2>1, <2>2, <2>3, MovesStep
  <1> QED BY <1>4, <1>5

LEMMA QuiesceStep ==
    ASSUME ActivationInvariant, NEW d \in Driver, Quiesce(d)
    PROVE  ActivationInvariant'
  <1>1. /\ run[d].at = "loop" /\ journal.phase = "quiescing"
        /\ UNCHANGED <<request, helper, journal, active, projected, slots, db, migrator, evidence>>
    BY DEF Quiesce, In, control, disk, schema
  <1>2. Leases(d) /\ Still(d) /\ journal.phase \notin Done
    BY <1>1 DEF Leases, Still, Done
  <1>3. TypeOK /\ JournalOK /\ Exists /\ DatabaseOK /\ WritersOK /\ ~Settled /\ ~journal.invoked
    BY <1>1, <1>2, AtWork DEF JournalOK
  <1>4. db.whole
    BY <1>3 DEF DatabaseOK
  <1>5. \/ /\ writers' = [writers EXCEPT !.fenced = TRUE, !.up = FALSE]
            /\ Goes(d, "stopped") /\ UNCHANGED spent
         \/ /\ \E f \in {writers.fenced, TRUE}, u \in {writers.up, FALSE} :
                   writers' = [writers EXCEPT !.fenced = f, !.up = u]
            /\ Turns(d, "slot_quiesce_failed") /\ Fails
    BY DEF Quiesce
  <1>6. /\ writers' \in [slot : Slot, up : BOOLEAN, fenced : BOOLEAN]
        /\ writers'.slot = writers.slot /\ (writers'.up => writers.up)
        /\ ~writers'.fenced => ~writers.fenced
    <2>1. writers \in [slot : Slot, up : BOOLEAN, fenced : BOOLEAN]
      BY <1>3 DEF TypeOK
    <2>2. \A f \in {writers.fenced, TRUE}, u \in {writers.up, FALSE} :
              LET w == [writers EXCEPT !.fenced = f, !.up = u]
              IN /\ w \in [slot : Slot, up : BOOLEAN, fenced : BOOLEAN] /\ w.slot = writers.slot
                 /\ (w.up => writers.up) /\ (~w.fenced => ~writers.fenced)
      BY <2>1
    <2> QED BY <1>5, <2>1, <2>2
  <1>7. WritersOK'
    BY <1>1, <1>3, <1>6 DEF WritersOK, Fits, Settled, Exists
  <1>8. Exists'
    BY <1>1, <1>3 DEF Exists
  <1>9. CASE /\ writers' = [writers EXCEPT !.fenced = TRUE, !.up = FALSE]
             /\ Goes(d, "stopped") /\ UNCHANGED spent
    <2>1. "stopped" \in Place
      BY DEF Place
    <2>2. Moved(d) /\ run'[d].at = "stopped" /\ run'[d].new = run[d].new
      BY <1>3, <1>9, <2>1, Going
    <2>3. writers'.fenced
      BY <1>3, <1>9 DEF TypeOK
    <2>4. DriverOK(d)'
      BY <1>1, <1>8, <2>2, <2>3 DEF DriverOK, JournalAt
    <2> QED BY <1>1, <1>2, <1>4, <1>6, <1>7, <1>9, <2>2, <2>4, AtWork, WriterStep
  <1>10. CASE Turns(d, "slot_quiesce_failed") /\ Fails
    <2>1. "slot_quiesce_failed" \in Cause \cup {None}
      BY DEF Cause
    <2>2. Moved(d) /\ run'[d].at = "rollback" /\ run'[d].new = run[d].new
      BY <1>3, <1>10, <2>1, Turning
    <2>3. DriverOK(d)'
      BY <1>1, <1>2, <1>8, <2>2 DEF DriverOK, JournalAt
    <2>4. spent' \in [{"failures", "deaths", "restarts", "reboots"} -> Nat]
      BY <1>3, <1>10, Spending DEF Fails
    <2> QED BY <1>1, <1>2, <1>4, <1>6, <1>7, <2>2, <2>3, <2>4, WriterStep
  <1> QED BY <1>9, <1>10, <1>5

LEMMA RecordInvokedStep ==
    ASSUME ActivationInvariant, NEW d \in Driver, RecordInvoked(d)
    PROVE  ActivationInvariant'
  <1>1. /\ run[d].at = "stopped" /\ Goes(d, "migrate")
        /\ UNCHANGED <<request, helper, active, projected, slots, writers, db, migrator,
                       evidence, spent>>
    BY DEF RecordInvoked, control, disk, schema
  <1>2. Leases(d) /\ Still(d)
    BY <1>1 DEF Leases, Still
  <1>3. /\ TypeOK /\ JournalOK /\ Exists /\ DatabaseOK /\ WritersOK /\ journal \in Journal
        /\ journal.phase = "quiescing" /\ writers.fenced
        /\ spent' \in [{"failures", "deaths", "restarts", "reboots"} -> Nat]
    BY <1>1, <1>2, AtWork DEF JournalAt
  <1>4. ~journal.invoked /\ journal.required /\ evidence # journal.req /\ journal.cause = None
    BY <1>3 DEF JournalOK
  <1>5. db.whole /\ migrator.at = "off"
    BY <1>3, <1>4 DEF DatabaseOK
  <1>6. /\ journal' \in Journal /\ journal'.phase = "schema_preparing" /\ journal'.invoked
        /\ journal'.req = journal.req /\ journal'.previous = journal.previous
        /\ journal'.target = journal.target /\ journal'.required = journal.required
        /\ journal'.migrated = journal.migrated /\ journal'.cause = journal.cause
    <2>1. "schema_preparing" \in Phase
      BY DEF Phase
    <2> QED BY <1>3, <2>1 DEF RecordInvoked, Journal
  <1>7. Moved(d) /\ run'[d].at = "migrate" /\ run'[d].new = run[d].new
    <2>1. "migrate" \in Place
      BY DEF Place
    <2> QED BY <1>1, <1>3, <2>1, Going
  <1>8. Exists'
    BY <1>3, <1>6, JournalTyped DEF Exists, NoJournal
  <1>9. DriverOK(d)'
    BY <1>1, <1>4, <1>5, <1>6, <1>7, <1>8 DEF DriverOK, JournalAt
  <1>10. JournalOK'
    BY <1>1, <1>3, <1>4, <1>5, <1>6 DEF JournalOK, Prepared
  <1>11. DatabaseOK' /\ PointerAgrees' /\ journal.phase \notin Done /\ journal'.phase \notin Done
    BY <1>1, <1>3, <1>5, <1>6 DEF DatabaseOK, PointerAgrees, Done
  <1> QED BY <1>1, <1>2, <1>3, <1>6, <1>7, <1>9, <1>10, <1>11, JournalStep
LEMMA RunMigrationStep ==
    ASSUME ActivationInvariant, NEW d \in Driver, RunMigration(d)
    PROVE  ActivationInvariant'
  <1>1. /\ run[d].at = "migrate"
        /\ UNCHANGED <<request, helper, journal, active, projected, slots, writers, db, evidence>>
    BY DEF RunMigration, control, disk
  <1>2. Leases(d) /\ Still(d)
    BY <1>1 DEF Leases, Still
  <1>3. /\ TypeOK /\ JournalOK /\ Exists /\ DatabaseOK /\ WritersOK /\ PointerAgrees
        /\ journal.phase = "schema_preparing" /\ journal.invoked /\ evidence # journal.req
        /\ db.whole /\ journal.req \in Request
        /\ spent \in [{"failures", "deaths", "restarts", "reboots"} -> Nat]
    BY <1>1, <1>2, AtWork, JournalTyped DEF JournalAt
  <1>4. journal.phase \notin Done
    BY <1>3 DEF Done
  <1>5. CASE Turns(d, "migration_failed") /\ Fails /\ UNCHANGED migrator
    <2>1. "migration_failed" \in Cause \cup {None}
      BY DEF Cause
    <2>2. spent' \in [{"failures", "deaths", "restarts", "reboots"} -> Nat]
      BY <1>3, <1>5, Spending DEF Fails
    <2> QED BY <1>1, <1>2, <1>4, <1>5, <2>1, <2>2, TurnsStep
  <1>6. CASE /\ migrator' = [at |-> "begun", req |-> journal.req]
             /\ Goes(d, "migrating") /\ UNCHANGED spent
    <2>1. "migrating" \in Place /\ migrator' \in Migrator
      BY <1>3, <1>6 DEF Place, Migrator
    <2>2. Moved(d) /\ run'[d].at = "migrating" /\ run'[d].new = run[d].new
      BY <1>3, <1>6, <2>1, Going
    <2>3. TypeOK' /\ Exists'
      BY <1>1, <1>3, <1>6, <2>1, <2>2 DEF TypeOK, Moved, Exists
    <2>4. DriverOK(d)'
      BY <1>1, <1>3, <2>2, <2>3 DEF DriverOK, JournalAt
    <2>5. JournalOK' /\ PointerAgrees'
      BY <1>1, <1>3 DEF JournalOK, PointerAgrees, Exists
    <2>6. DatabaseOK'
      BY <1>1, <1>3, <2>3 DEF DatabaseOK, Undone
    <2>7. MigratorOK'
      BY <1>1, <1>3, <1>6, <2>2 DEF MigratorOK
    <2>8. WritersOK'
      BY <1>1, <1>3 DEF WritersOK, Fits, Settled, Exists
    <2> QED BY <1>1, <1>2, <2>2, <2>3, <2>4, <2>5, <2>6, <2>7, <2>8, LeaseStep
  <1> QED BY <1>5, <1>6 DEF RunMigration

LEMMA MigrationReturnsStep ==
    ASSUME ActivationInvariant, NEW d \in Driver, MigrationReturns(d)
    PROVE  ActivationInvariant'
  <1>1. /\ run[d].at = "migrating"
        /\ UNCHANGED <<request, helper, active, projected, slots, writers, db, migrator, evidence>>
    BY DEF MigrationReturns, control, disk, schema
  <1>2. Leases(d)
    BY <1>1 DEF Leases
  <1>3. Still(d)
    BY DEF MigrationReturns, Still, Locked
  <1>4. /\ TypeOK /\ JournalOK /\ Exists /\ DatabaseOK /\ WritersOK /\ PointerAgrees
        /\ journal.phase = "schema_preparing" /\ journal.invoked /\ journal \in Journal
        /\ spent \in [{"failures", "deaths", "restarts", "reboots"} -> Nat]
    BY <1>1, <1>2, AtWork DEF JournalAt
  <1>5. journal.phase \notin Done
    BY <1>4 DEF Done
  <1>6. spent' \in [{"failures", "deaths", "restarts", "reboots"} -> Nat]
    BY <1>4, Spending DEF MigrationReturns, Fails
  <1>7. CASE evidence # journal.req
    <2>1. "migration_failed" \in Cause \cup {None}
      BY DEF Cause
    <2> QED BY <1>1, <1>2, <1>3, <1>5, <1>6, <1>7, <2>1, TurnsStep DEF MigrationReturns
  <1>8. CASE evidence = journal.req
    <2>1. journal' = [journal EXCEPT !.migrated = TRUE] /\ Goes(d, "loop")
      BY <1>8 DEF MigrationReturns
    <2>2. /\ Rewritten /\ journal'.phase = journal.phase /\ journal'.cause = journal.cause
      BY <1>4, <2>1 DEF Rewritten, Journal
    <2>3. Moved(d) /\ run'[d].at = "loop" /\ run'[d].new = run[d].new
      <3>1. "loop" \in Place
        BY DEF Place
      <3> QED BY <1>4, <2>1, <3>1, Going
    <2>4. Exists'
      BY <1>4, <2>2, JournalTyped DEF Exists, NoJournal, Rewritten
    <2>5. DriverOK(d)'
      BY <2>3, <2>4 DEF DriverOK, JournalAt
    <2>6. JournalOK'
      BY <1>1, <1>4, <1>8, <2>2 DEF JournalOK, Rewritten
    <2>7. DatabaseOK' /\ PointerAgrees' /\ (journal'.invoked => writers.fenced)
      BY <1>1, <1>4, <1>5, <2>2, <2>4
         DEF DatabaseOK, PointerAgrees, Rewritten, Done, WritersOK, Settled, Undone
    <2> QED BY <1>1, <1>2, <1>3, <1>4, <1>5, <1>6, <2>2, <2>3, <2>5, <2>6, <2>7, JournalStep
            DEF Rewritten
  <1> QED BY <1>7, <1>8

LEMMA SchemaPreparedStep ==
    ASSUME ActivationInvariant, NEW d \in Driver, SchemaPrepared(d)
    PROVE  ActivationInvariant'
  <1>1. /\ run[d].at = "loop" /\ journal.phase = "schema_preparing"
        /\ UNCHANGED <<request, helper, active, projected, slots, writers, db, migrator,
                       evidence, spent>>
    BY DEF SchemaPrepared, In, control, disk, schema
  <1>2. Leases(d) /\ Still(d) /\ journal.phase \notin Done
    BY <1>1 DEF Leases, Still, Done
  <1>3. /\ TypeOK /\ JournalOK /\ Exists /\ DatabaseOK /\ WritersOK /\ journal \in Journal
        /\ spent' \in [{"failures", "deaths", "restarts", "reboots"} -> Nat]
    BY <1>1, <1>2, AtWork
  <1>4. CASE ~(journal.migrated \/ evidence = journal.req)
    <2>1. "schema_migration_interrupted" \in Cause \cup {None}
      BY DEF Cause
    <2> QED BY <1>1, <1>2, <1>3, <1>4, <2>1, TurnsStep DEF SchemaPrepared
  <1>5. CASE journal.migrated
    <2>1. Moves("activating") /\ UNCHANGED run /\ "loop" \in Place
          /\ "activating" \in Phase \ Terminal
      BY <1>5 DEF SchemaPrepared, Moves, Place, Phase, Terminal
    <2>2. /\ evidence = journal.req /\ journal.cause = None /\ db.whole /\ migrator.at = "off"
          /\ db.version = SchemaOf[journal.target]
      BY <1>1, <1>3, <1>5 DEF JournalOK
    <2> QED BY <1>1, <1>2, <2>1, <2>2, MovesStep
  <1>6. CASE evidence = journal.req /\ ~journal.migrated
    <2>1. journal' = [journal EXCEPT !.migrated = TRUE] /\ UNCHANGED run
      BY <1>6 DEF SchemaPrepared
    <2>2. /\ Rewritten /\ journal'.phase = journal.phase /\ journal'.cause = journal.cause
      BY <1>3, <2>1 DEF Rewritten, Journal
    <2>3. Moved(d) /\ run'[d] = run[d]
      BY <1>3, <2>1, DriverTyped DEF Moved
    <2>4. Exists'
      BY <1>3, <2>2, JournalTyped DEF Exists, NoJournal, Rewritten
    <2>5. DriverOK(d)'
      BY <1>1, <2>3, <2>4 DEF DriverOK, JournalAt
    <2>6. JournalOK'
      BY <1>1, <1>3, <1>6, <2>2 DEF JournalOK, Rewritten
    <2>7. DatabaseOK' /\ PointerAgrees' /\ (journal'.invoked => writers.fenced)
      BY <1>1, <1>2, <1>3, <2>2, <2>4
         DEF DatabaseOK, PointerAgrees, Rewritten, Done, WritersOK, Settled, Undone
    <2> QED BY <1>1, <1>2, <1>3, <2>2, <2>3, <2>5, <2>6, <2>7, JournalStep DEF Rewritten
  <1> QED BY <1>4, <1>5, <1>6

LEMMA SwitchPointerStep ==
    ASSUME ActivationInvariant, NEW d \in Driver, SwitchPointer(d)
    PROVE  ActivationInvariant'
  <1>1. /\ run[d].at = "loop" /\ journal.phase = "activating"
        /\ UNCHANGED <<request, helper, journal, projected, slots, writers, db, migrator, evidence>>
    BY DEF SwitchPointer, In, control, schema
  <1>2. Leases(d) /\ Still(d) /\ journal.phase \notin Done
    BY <1>1 DEF Leases, Still, Done
  <1>3. TypeOK /\ Exists /\ {journal.previous, journal.target} \subseteq Slot
    BY <1>2, AtWork, JournalTyped
  <1>4. CASE active' = journal.target /\ Goes(d, "switched") /\ UNCHANGED spent
    <2>1. "switched" \in Place
      BY DEF Place
    <2>2. Moved(d) /\ run'[d].at = "switched" /\ run'[d].new = run[d].new
      BY <1>3, <1>4, <2>1, Going
    <2>3. DriverOK(d)'
      BY <1>1, <1>3, <2>2 DEF DriverOK, JournalAt, Exists
    <2> QED BY <1>1, <1>2, <1>3, <1>4, <2>2, <2>3, PointerStep
  <1>5. CASE Turns(d, "active_pointer_switch_failed") /\ Fails /\ UNCHANGED active
    <2>1. "active_pointer_switch_failed" \in Cause \cup {None}
      BY DEF Cause
    <2>2. spent' \in [{"failures", "deaths", "restarts", "reboots"} -> Nat]
      BY <1>3, <1>5, Spending DEF Fails
    <2> QED BY <1>1, <1>2, <1>5, <2>1, <2>2, TurnsStep
  <1> QED BY <1>4, <1>5 DEF SwitchPointer

LEMMA RecordSwitchStep ==
    ASSUME ActivationInvariant, NEW d \in Driver, RecordSwitch(d)
    PROVE  ActivationInvariant'
  <1>1. /\ run[d].at = "switched" /\ Moves("verifying_target") /\ Goes(d, "loop")
        /\ UNCHANGED <<request, helper, active, projected, slots, writers, db, migrator,
                       evidence, spent>>
    BY DEF RecordSwitch, control, disk, schema
  <1>2. Leases(d) /\ Still(d)
    BY <1>1 DEF Leases, Still
  <1>3. JournalOK /\ Exists /\ DatabaseOK /\ journal.phase = "activating"
    BY <1>1, <1>2, AtWork DEF JournalAt
  <1>4. /\ journal.phase \notin Done /\ journal.cause = None
        /\ db.version = SchemaOf[journal.target] /\ db.whole /\ migrator.at = "off"
    BY <1>3 DEF JournalOK, DatabaseOK, Done, Prepared, Undone
  <1>5. "verifying_target" \in Phase \ Terminal /\ "loop" \in Place
    BY DEF Phase, Terminal, Place
  <1> QED BY <1>1, <1>2, <1>4, <1>5, MovesStep

LEMMA RecordVerifiedStep ==
    ASSUME ActivationInvariant, NEW d \in Driver, RecordVerified(d)
    PROVE  ActivationInvariant'
  <1>1. /\ run[d].at = "started" /\ Moves("committing_target") /\ Goes(d, "loop")
        /\ UNCHANGED <<request, helper, active, projected, slots, writers, db, migrator,
                       evidence, spent>>
    BY DEF RecordVerified, control, disk, schema
  <1>2. Leases(d) /\ Still(d)
    BY <1>1 DEF Leases, Still
  <1>3. JournalOK /\ Exists /\ DatabaseOK /\ journal.phase = "verifying_target"
    BY <1>1, <1>2, AtWork DEF JournalAt
  <1>4. /\ journal.phase \notin Done /\ journal.cause = None
        /\ db.version = SchemaOf[journal.target] /\ db.whole /\ migrator.at = "off"
    BY <1>3 DEF JournalOK, DatabaseOK, Done, Prepared, Undone
  <1>5. "committing_target" \in Phase \ Terminal /\ "loop" \in Place
    BY DEF Phase, Terminal, Place
  <1> QED BY <1>1, <1>2, <1>4, <1>5, MovesStep

LEMMA StartTargetStep ==
    ASSUME ActivationInvariant, NEW d \in Driver, StartTarget(d)
    PROVE  ActivationInvariant'
  <1>1. /\ run[d].at = "loop" /\ journal.phase = "verifying_target"
        /\ UNCHANGED <<request, helper, active, projected, slots, db, migrator, evidence>>
    BY DEF StartTarget, In, control, disk, schema
  <1>2. Leases(d) /\ Still(d) /\ journal.phase \notin Done
    BY <1>1 DEF Leases, Still, Done
  <1>3. /\ TypeOK /\ JournalOK /\ Exists /\ DatabaseOK /\ WritersOK /\ journal \in Journal
        /\ active \in Slot /\ ~Settled
        /\ spent \in [{"failures", "deaths", "restarts", "reboots"} -> Nat]
    BY <1>1, <1>2, AtWork DEF TypeOK
  <1>4. db.whole /\ db.version = SchemaOf[journal.target]
    BY <1>1, <1>3 DEF DatabaseOK, JournalOK, Prepared, Undone
  <1>5. CASE active # journal.target
    <2>1. "target_pointer_mismatch" \in Cause /\ None \in Cause \cup {None}
      BY DEF Cause
    <2>2. Blocks(d, "target_pointer_mismatch", None) /\ UNCHANGED <<writers, spent>>
      BY <1>5 DEF StartTarget
    <2> QED BY <1>1, <1>2, <1>3, <2>1, <2>2, BlocksStep
  <1>6. ASSUME active = journal.target, UNCHANGED journal, Moved(d), run'[d].new = run[d].new,
               run'[d].at \in {"started", "rollback"},
               writers' \in {writers} \cup
                   {[slot |-> active, up |-> u, fenced |-> journal.required] : u \in BOOLEAN},
               spent' \in [{"failures", "deaths", "restarts", "reboots"} -> Nat]
        PROVE  ActivationInvariant'
    <2>1. journal.required \in BOOLEAN
      BY <1>3 DEF Journal
    <2>2. \/ writers' = writers
          \/ \E u \in BOOLEAN :
                writers' = [slot |-> active, up |-> u, fenced |-> journal.required]
      BY <1>6
    <2>3. writers' \in [slot : Slot, up : BOOLEAN, fenced : BOOLEAN]
      BY <1>3, <2>1, <2>2 DEF TypeOK
    <2>4. WritersOK'
      <3>1. CASE writers' = writers
        BY <1>1, <1>3, <1>6, <3>1 DEF WritersOK, Fits, Settled, Exists
      <3>2. CASE \E u \in BOOLEAN :
                    writers' = [slot |-> active, up |-> u, fenced |-> journal.required]
        <4>1. writers'.slot = journal.target /\ writers'.fenced = journal.required
          BY <1>6, <3>2
        <4>2. SchemaOf[journal.target] \in Nat
          BY <1>3, JournalTyped, RequestAssumption
        <4>3. Fits'
          BY <1>1, <1>4, <4>1, <4>2 DEF Fits
        <4> QED BY <1>1, <1>3, <1>6, <4>1, <4>3 DEF WritersOK, Settled, Exists, JournalOK
      <3> QED BY <2>2, <3>1, <3>2
    <2>5. DriverOK(d)'
      BY <1>1, <1>2, <1>3, <1>6 DEF DriverOK, JournalAt, Exists
    <2> QED BY <1>1, <1>2, <1>4, <1>6, <2>3, <2>4, <2>5, WriterStep
  <1>7. CASE /\ writers' = [slot |-> active, up |-> TRUE, fenced |-> journal.required]
             /\ Goes(d, "started") /\ UNCHANGED <<journal, spent>> /\ active = journal.target
    <2>1. "started" \in Place
      BY DEF Place
    <2>2. Moved(d) /\ run'[d].at = "started" /\ run'[d].new = run[d].new
      BY <1>3, <1>7, <2>1, Going
    <2> QED BY <1>3, <1>6, <1>7, <2>2
  <1>8. CASE /\ writers' \in {writers} \cup
                   {[slot |-> active, up |-> u, fenced |-> journal.required] : u \in BOOLEAN}
             /\ Turns(d, "target_health_failed") /\ Fails /\ UNCHANGED journal
             /\ active = journal.target
    <2>1. "target_health_failed" \in Cause \cup {None}
      BY DEF Cause
    <2>2. Moved(d) /\ run'[d].at = "rollback" /\ run'[d].new = run[d].new
      BY <1>3, <1>8, <2>1, Turning
    <2>3. spent' \in [{"failures", "deaths", "restarts", "reboots"} -> Nat]
      BY <1>3, <1>8, Spending DEF Fails
    <2> QED BY <1>6, <1>8, <2>2, <2>3
  <1> QED BY <1>5, <1>7, <1>8 DEF StartTarget

LEMMA CommitStep ==
    ASSUME ActivationInvariant, NEW d \in Driver, Commit(d)
    PROVE  ActivationInvariant'
  <1>1. /\ run[d].at = "loop" /\ journal.phase = "committing_target"
        /\ UNCHANGED <<request, helper, active, projected, slots, writers, db, migrator, evidence>>
    BY DEF Commit, In, control, disk, schema
  <1>2. Leases(d) /\ Still(d) /\ journal.phase \notin Done
    BY <1>1 DEF Leases, Still, Done
  <1>3. /\ TypeOK /\ JournalOK /\ Exists /\ DatabaseOK /\ WritersOK /\ journal \in Journal
        /\ ~Settled /\ spent \in [{"failures", "deaths", "restarts", "reboots"} -> Nat]
    BY <1>1, <1>2, AtWork
  <1>4. CASE Ends(d) /\ UNCHANGED <<journal, spent>>
    BY <1>1, <1>2, <1>3, <1>4, EndsStep
  <1>5. "target_health_failed" \in Cause \cup {None}
    BY DEF Cause
  <1>6. CASE Turns(d, "target_health_failed") /\ UNCHANGED <<journal, spent>>
    BY <1>1, <1>2, <1>3, <1>5, <1>6, TurnsStep
  <1>7. CASE Turns(d, "target_health_failed") /\ Fails /\ UNCHANGED journal
    <2>1. spent' \in [{"failures", "deaths", "restarts", "reboots"} -> Nat]
      BY <1>3, <1>7, Spending DEF Fails
    <2> QED BY <1>1, <1>2, <1>5, <1>7, <2>1, TurnsStep
  <1>8. CASE /\ journal' = [journal EXCEPT !.phase = "completed",
                                           !.cause = None, !.trigger = None]
             /\ run' = [run EXCEPT ![d].at = "unfence", ![d].cleans = TRUE]
             /\ UNCHANGED spent /\ active = journal.target /\ writers.up
    <2>1. /\ Rewritten /\ journal'.phase = "completed" /\ journal'.cause = None
          /\ journal'.migrated = journal.migrated
      <3>1. "completed" \in Phase /\ None \in Cause \cup {None}
        BY DEF Phase, Terminal
      <3> QED BY <1>3, <1>8, <3>1 DEF Rewritten, Journal
    <2>2. Moved(d) /\ run'[d].at = "unfence" /\ run'[d].new = run[d].new
      <3>1. "unfence" \in Place
        BY DEF Place
      <3>2. run \in [Driver -> Run]
        BY <1>3, DriverTyped
      <3>3. [run[d] EXCEPT !.at = "unfence", !.cleans = TRUE] \in Run
        BY <3>1, <3>2 DEF Run
      <3>4. run' = [run EXCEPT ![d] = [run[d] EXCEPT !.at = "unfence", !.cleans = TRUE]]
        BY <1>8, <3>2
      <3>5. run'[d] = [run[d] EXCEPT !.at = "unfence", !.cleans = TRUE]
        BY <3>2, <3>4
      <3>6. run'[d].at = "unfence" /\ run'[d].new = run[d].new
        BY <3>2, <3>5 DEF Run
      <3> QED BY <3>2, <3>3, <3>4, <3>6 DEF Moved
    <2>3. Exists'
      BY <1>3, <2>1, JournalTyped DEF Exists, NoJournal, Rewritten
    <2>4. DriverOK(d)'
      BY <2>1, <2>2, <2>3 DEF DriverOK, JournalAt, Done
    <2>5. JournalOK'
      BY <1>1, <1>3, <2>1 DEF JournalOK, Rewritten, Prepared
    <2>6. DatabaseOK'
      BY <1>1, <1>3 DEF DatabaseOK, Undone
    <2>7. PointerAgrees'
      BY <1>1, <1>8, <2>1 DEF PointerAgrees, Rewritten
    <2>8. Fits /\ (journal'.invoked => writers.fenced)
      BY <1>3, <1>8, <2>1 DEF WritersOK, Rewritten
    <2> QED BY <1>1, <1>2, <1>3, <1>8, <2>1, <2>2, <2>4, <2>5, <2>6, <2>7, <2>8, JournalStep
            DEF Rewritten
  <1> QED BY <1>4, <1>6, <1>7, <1>8 DEF Commit

LEMMA ResumeDoneStep ==
    ASSUME ActivationInvariant, NEW d \in Driver, ResumeDone(d)
    PROVE  ActivationInvariant'
  <1>1. /\ run[d].at = "loop" /\ journal.phase \in Done /\ Goes(d, "unfence")
        /\ UNCHANGED <<request, helper, journal, active, projected, slots, writers, db, migrator,
                       evidence, spent>>
    BY DEF ResumeDone, control, disk, schema
  <1>2. Leases(d) /\ Still(d) /\ "unfence" \in Place
    BY <1>1 DEF Leases, Still, Place
  <1>3. TypeOK /\ Exists /\ spent' \in [{"failures", "deaths", "restarts", "reboots"} -> Nat]
    BY <1>1, <1>2, AtWork
  <1>4. Moved(d) /\ run'[d].at = "unfence" /\ run'[d].new = run[d].new
    BY <1>1, <1>2, <1>3, Going
  <1>5. DriverOK(d)'
    BY <1>1, <1>3, <1>4 DEF DriverOK, JournalAt, Exists
  <1> QED BY <1>1, <1>2, <1>3, <1>4, <1>5, RunStep

LEMMA ResumeRollbackStep ==
    ASSUME ActivationInvariant, NEW d \in Driver, ResumeRollback(d)
    PROVE  ActivationInvariant'
  <1>1. /\ run[d].at = "loop" /\ journal.phase \in {"blocked", "rolling_back"}
        /\ UNCHANGED <<request, helper, journal, active, projected, slots, writers, db, migrator,
                       evidence, spent>>
    BY DEF ResumeRollback, control, disk, schema
  <1>2. Leases(d) /\ Still(d) /\ journal.phase \notin Done
    BY <1>1 DEF Leases, Still, Done
  <1>3. spent' \in [{"failures", "deaths", "restarts", "reboots"} -> Nat] /\ journal \in Journal
    BY <1>1, <1>2, AtWork
  <1> PICK t \in Cause \cup {None} : t = IF journal.trigger = None THEN journal.cause ELSE journal.trigger
    BY <1>3 DEF Journal
  <1>4. Turns(d, t)
    BY DEF ResumeRollback
  <1> QED BY <1>1, <1>2, <1>3, <1>4, TurnsStep

-----------------------------------------------------------------------------
(* The end of an activation.                                               *)

LEMMA UnfenceStep ==
    ASSUME ActivationInvariant, NEW d \in Driver, Unfence(d)
    PROVE  ActivationInvariant'
  <1>1. /\ run[d].at = "unfence" /\ Goes(d, "project")
        /\ writers' = [writers EXCEPT !.fenced = FALSE]
        /\ UNCHANGED <<request, helper, journal, active, projected, slots, db, migrator, evidence,
                       spent>>
    BY DEF Unfence, control, disk, schema
  <1>2. Leases(d) /\ Still(d) /\ "project" \in Place
    BY <1>1 DEF Leases, Still, Place
  <1>3. /\ TypeOK /\ Exists /\ WritersOK /\ journal.phase \in Done /\ Settled
        /\ spent' \in [{"failures", "deaths", "restarts", "reboots"} -> Nat]
    BY <1>1, <1>2, AtWork DEF JournalAt
  <1>4. Moved(d) /\ run'[d].at = "project" /\ run'[d].new = run[d].new
    BY <1>1, <1>2, <1>3, Going
  <1>5. DriverOK(d)'
    BY <1>1, <1>3, <1>4 DEF DriverOK, JournalAt, Exists
  <1>6. /\ writers' \in [slot : Slot, up : BOOLEAN, fenced : BOOLEAN]
        /\ writers'.slot = writers.slot
    BY <1>1, <1>3 DEF TypeOK
  <1>7. Fits /\ Fits'
    BY <1>1, <1>3, <1>6 DEF WritersOK, Fits
  <1>8. WritersOK'
    BY <1>1, <1>3, <1>7 DEF WritersOK, Settled, Exists
  <1> QED BY <1>1, <1>2, <1>3, <1>4, <1>5, <1>6, <1>7, <1>8, WriterStep DEF Fits

\* The projection and the slots on disk bind nobody.
LEMMA DiskStep ==
    ASSUME ActivationInvariant, NEW d \in Driver, Leases(d), Moved(d), Still(d),
           run'[d].at \notin {"waiting", "seen", "repair"}, run'[d].new => run[d].new,
           run'[d].at = "off" => ~run'[d].new,
           UNCHANGED <<request, helper, journal, active, writers, db, migrator, evidence>>,
           spent' \in [{"failures", "deaths", "restarts", "reboots"} -> Nat],
           projected' \in Slot, slots' \subseteq Slot, DriverOK(d)'
    PROVE  ActivationInvariant'
  <1>1. /\ TypeOK /\ Exists /\ JournalOK /\ DatabaseOK /\ MigratorOK /\ WritersOK
        /\ PointerAgrees
    BY DEF ActivationInvariant, DriverOK
  <1>2. TypeOK' /\ Exists'
    BY <1>1 DEF TypeOK, Moved, Exists
  <1>3. JournalOK' /\ DatabaseOK' /\ WritersOK' /\ PointerAgrees'
    BY <1>1 DEF JournalOK, DatabaseOK, WritersOK, PointerAgrees, Exists, Settled, Fits
  <1>4. MigratorOK'
    BY <1>1, MigratingKept DEF MigratorOK
  <1> QED BY <1>2, <1>3, <1>4, LeaseStep

LEMMA ProjectStep ==
    ASSUME ActivationInvariant, NEW d \in Driver, Project(d)
    PROVE  ActivationInvariant'
  <1>1. /\ run[d].at = "project"
        /\ UNCHANGED <<request, helper, journal, active, slots, writers, db, migrator, evidence,
                       spent>>
    BY DEF Project, control, schema
  <1>2. Leases(d) /\ Still(d) /\ "clean" \in Place
    BY <1>1 DEF Leases, Still, Place
  <1>3. /\ TypeOK /\ Exists /\ journal.phase \in Done
        /\ spent' \in [{"failures", "deaths", "restarts", "reboots"} -> Nat]
    BY <1>1, <1>2, AtWork DEF JournalAt
  <1>4. Goes(d, "clean") \/ Ends(d)
    BY DEF Project
  <1>5. /\ Moved(d) /\ run'[d].at \in {"clean", "off"}
        /\ run'[d].new => run[d].new /\ run'[d].at # "off"
    BY <1>2, <1>3, <1>4, Going, Ending
  <1>6. DriverOK(d)'
    BY <1>1, <1>3, <1>5 DEF DriverOK, JournalAt, Leases, Exists
  <1>7. projected' \in Slot /\ slots' \subseteq Slot
    BY <1>1, <1>3 DEF Project, TypeOK
  <1> QED BY <1>1, <1>2, <1>3, <1>5, <1>6, <1>7, DiskStep

LEMMA CleanStep ==
    ASSUME ActivationInvariant, NEW d \in Driver, Clean(d)
    PROVE  ActivationInvariant'
  <1>1. /\ run[d].at = "clean" /\ Ends(d)
        /\ UNCHANGED <<request, helper, journal, active, projected, writers, db, migrator,
                       evidence>>
    BY DEF Clean, control, schema
  <1>2. Leases(d) /\ Still(d)
    BY <1>1 DEF Leases, Still
  <1>3. TypeOK /\ spent \in [{"failures", "deaths", "restarts", "reboots"} -> Nat]
    BY <1>2, AtWork
  <1>4. Moved(d) /\ run'[d].at = "off" /\ ~run'[d].new
    BY <1>1, <1>3, Ending
  <1>5. DriverOK(d)'
    BY <1>4 DEF DriverOK, Leases
  <1>6. projected' \in Slot /\ slots' \subseteq Slot
    BY <1>1, <1>3 DEF Clean, TypeOK
  <1>7. spent' \in [{"failures", "deaths", "restarts", "reboots"} -> Nat]
    BY <1>3, Spending DEF Clean, Fails
  <1> QED BY <1>1, <1>2, <1>4, <1>5, <1>6, <1>7, DiskStep

-----------------------------------------------------------------------------
(* The way back.                                                           *)

LEMMA ProveDatabaseStep ==
    ASSUME ActivationInvariant, NEW d \in Driver, ProveDatabase(d)
    PROVE  ActivationInvariant'
  <1>1. /\ run[d].at = "rollback"
        /\ UNCHANGED <<request, helper, active, projected, slots, writers, db, migrator, evidence>>
    BY DEF ProveDatabase, control, disk, schema
  <1>2. Leases(d) /\ Still(d)
    BY <1>1 DEF Leases, Still
  <1>3. /\ TypeOK /\ Exists /\ journal.phase \notin Done
        /\ run[d].trigger \in Cause \cup {None}
        /\ spent \in [{"failures", "deaths", "restarts", "reboots"} -> Nat]
    BY <1>1, <1>2, AtWork, DriverTyped DEF JournalAt
  <1>4. {"rollback_pointer_conflict", "rollback_database_unverified"} \subseteq Cause
    BY DEF Cause
  <1>5. CASE Blocks(d, "rollback_pointer_conflict", run[d].trigger) /\ UNCHANGED spent
    BY <1>1, <1>2, <1>3, <1>4, <1>5, BlocksStep
  <1>6. CASE Blocks(d, "rollback_database_unverified", run[d].trigger) /\ (UNCHANGED spent \/ Fails)
    <2>1. spent' \in [{"failures", "deaths", "restarts", "reboots"} -> Nat]
      BY <1>3, <1>6, Spending DEF Fails
    <2> QED BY <1>1, <1>2, <1>3, <1>4, <1>6, <2>1, BlocksStep
  <1>7. CASE /\ Proved /\ run' = [run EXCEPT ![d].at = "proved", ![d].ready = Ready]
             /\ UNCHANGED <<journal, spent>>
    <2>1. MigratorOK /\ OneLease
      BY DEF ActivationInvariant
    <2>2. migrator.at # "begun"
      BY <1>1, <1>2, <2>1 DEF MigratorOK, OneLease, Leases
    <2>3. db.whole /\ migrator.at = "off"
      BY <1>3, <1>7, <2>2 DEF Proved, Locked, TypeOK, Migrator
    <2>4. PICK b \in BOOLEAN : (b <=> Ready) /\ run' = [run EXCEPT ![d].at = "proved", ![d].ready = b]
      BY <1>7 DEF Ready
    <2>5. /\ Moved(d) /\ run'[d].at = "proved" /\ run'[d].new = run[d].new
          /\ run'[d].ready => writers.up
      <3>1. "proved" \in Place
        BY DEF Place
      <3>2. Moved(d) /\ run'[d].at = "proved" /\ run'[d].new = run[d].new /\ run'[d].ready = b
        BY <1>3, <2>4, <3>1, DriverTyped DEF Moved, Run
      <3>3. b => writers.up
        BY <2>4 DEF Ready
      <3> QED BY <3>2, <3>3
    <2>6. DriverOK(d)'
      BY <1>1, <1>3, <1>7, <2>3, <2>5 DEF DriverOK, JournalAt, Exists
    <2> QED BY <1>1, <1>2, <1>3, <1>7, <2>5, <2>6, RunStep
  <1> QED BY <1>5, <1>6, <1>7 DEF ProveDatabase

LEMMA TurnBackStep ==
    ASSUME ActivationInvariant, NEW d \in Driver, TurnBack(d)
    PROVE  ActivationInvariant'
  <1>1. /\ run[d].at = "proved" /\ Goes(d, "turning")
        /\ journal' = [journal EXCEPT !.phase = "rolling_back", !.trigger = run[d].trigger]
        /\ UNCHANGED <<request, helper, active, projected, slots, writers, db, migrator, evidence,
                       spent>>
    BY DEF TurnBack, control, disk, schema
  <1>2. Leases(d) /\ Still(d) /\ "turning" \in Place
    BY <1>1 DEF Leases, Still, Place
  <1>3. /\ TypeOK /\ Exists /\ journal.phase \notin Done /\ db.whole /\ migrator.at = "off"
        /\ run[d].trigger \in Cause \cup {None} /\ journal \in Journal
        /\ JournalOK /\ WritersOK /\ ~Settled /\ DriverOK(d)
        /\ spent' \in [{"failures", "deaths", "restarts", "reboots"} -> Nat]
    BY <1>1, <1>2, AtWork, DriverTyped DEF JournalAt, ActivationInvariant
  <1>4. /\ Rewritten /\ journal'.phase = "rolling_back" /\ journal'.cause = journal.cause
        /\ journal'.migrated = journal.migrated
    <2>1. "rolling_back" \in Phase
      BY DEF Phase
    <2> QED BY <1>1, <1>3, <2>1 DEF Rewritten, Journal
  <1>5. /\ Moved(d) /\ run'[d].at = "turning" /\ run'[d].new = run[d].new
        /\ run'[d].ready = run[d].ready
    BY <1>1, <1>2, <1>3, Going
  <1>6. Exists'
    BY <1>3, <1>4, JournalTyped DEF Exists, NoJournal, Rewritten
  <1>7. DriverOK(d)'
    BY <1>1, <1>3, <1>4, <1>5, <1>6 DEF DriverOK, JournalAt
  <1>8. JournalOK'
    BY <1>1, <1>3, <1>4 DEF JournalOK, Rewritten, Prepared
  <1>9. /\ DatabaseOK' /\ PointerAgrees' /\ journal'.phase \notin Done
        /\ journal'.invoked => writers.fenced
    BY <1>1, <1>3, <1>4 DEF DatabaseOK, PointerAgrees, Done, WritersOK, Rewritten
  <1> QED BY <1>1, <1>2, <1>3, <1>4, <1>5, <1>7, <1>8, <1>9, JournalStep DEF Rewritten

LEMMA RollbackFailsStep ==
    ASSUME ActivationInvariant, NEW d \in Driver, Leases(d), Still(d), journal.phase \notin Done,
           RollbackFails(d),
           UNCHANGED <<request, helper, active, projected, slots, writers, db, migrator, evidence>>
    PROVE  ActivationInvariant'
  <1>1. /\ run[d].trigger \in Cause \cup {None} /\ "rollback_verification_failed" \in Cause
        /\ spent' \in [{"failures", "deaths", "restarts", "reboots"} -> Nat]
    BY AtWork, DriverTyped, Spending DEF Cause, RollbackFails, Fails
  <1> QED BY <1>1, BlocksStep DEF RollbackFails

LEMMA SwitchBackStep ==
    ASSUME ActivationInvariant, NEW d \in Driver, SwitchBack(d)
    PROVE  ActivationInvariant'
  <1>1. /\ run[d].at = "turning"
        /\ UNCHANGED <<request, helper, projected, slots, writers, db, migrator, evidence>>
    BY DEF SwitchBack, control, schema
  <1>2. Leases(d) /\ Still(d) /\ "back" \in Place
    BY <1>1 DEF Leases, Still, Place
  <1>3. /\ TypeOK /\ Exists /\ journal.phase = "rolling_back" /\ db.whole /\ migrator.at = "off"
        /\ journal.previous \in Slot /\ DriverOK(d)
    BY <1>1, <1>2, AtWork, JournalTyped DEF JournalAt, ActivationInvariant
  <1>4. journal.phase \notin Done
    BY <1>3 DEF Done
  <1>5. CASE RollbackFails(d) /\ UNCHANGED active
    BY <1>1, <1>2, <1>4, <1>5, RollbackFailsStep
  <1>6. CASE active' = journal.previous /\ Goes(d, "back") /\ UNCHANGED <<journal, spent>>
    <2>1. /\ Moved(d) /\ run'[d].at = "back" /\ run'[d].new = run[d].new
          /\ run'[d].ready = run[d].ready
      BY <1>2, <1>3, <1>6, Going
    <2>2. DriverOK(d)'
      BY <1>1, <1>3, <1>6, <2>1 DEF DriverOK, JournalAt, Exists
    <2> QED BY <1>1, <1>2, <1>3, <1>4, <1>6, <2>1, <2>2, PointerStep
  <1> QED BY <1>5, <1>6 DEF SwitchBack

LEMMA RestartPreviousStep ==
    ASSUME ActivationInvariant, NEW d \in Driver, RestartPrevious(d)
    PROVE  ActivationInvariant'
  <1>1. /\ run[d].at = "back"
        /\ UNCHANGED <<request, helper, active, projected, slots, db, migrator, evidence>>
    BY DEF RestartPrevious, control, disk, schema
  <1>2. Leases(d) /\ Still(d) /\ "restored" \in Place
    BY <1>1 DEF Leases, Still, Place
  <1>3. /\ TypeOK /\ Exists /\ journal.phase = "rolling_back" /\ db.whole /\ migrator.at = "off"
        /\ active = journal.previous /\ journal \in Journal /\ active \in Slot
        /\ JournalOK /\ WritersOK /\ ~Settled /\ DriverOK(d)
        /\ spent \in [{"failures", "deaths", "restarts", "reboots"} -> Nat]
    <2>1. /\ TypeOK /\ Exists /\ JournalAt(run[d].at) /\ journal \in Journal
          /\ JournalOK /\ WritersOK /\ (journal.phase \notin Done <=> ~Settled)
          /\ spent \in [{"failures", "deaths", "restarts", "reboots"} -> Nat]
      BY <1>2, AtWork
    <2>2. journal.phase = "rolling_back" /\ db.whole /\ migrator.at = "off"
          /\ active = journal.previous
      BY <1>1, <2>1 DEF JournalAt
    <2>3. ~Settled /\ active \in Slot /\ DriverOK(d)
      BY <2>1, <2>2 DEF Done, TypeOK, ActivationInvariant
    <2> QED BY <2>1, <2>2, <2>3
  <1>4. journal.phase \notin Done /\ "rollback_verification_failed" \in Cause
    BY <1>3 DEF Done, Cause
  <1>5. /\ run[d].trigger \in Cause \cup {None} /\ journal.required \in BOOLEAN
        /\ SchemaOf[active] <= db.version /\ db.version \in Nat /\ SchemaOf[active] \in Nat
        /\ run[d].ready => writers.up
    BY <1>1, <1>3, DriverTyped, RequestAssumption DEF Journal, JournalOK, DriverOK, TypeOK
  <1>6. ASSUME \/ writers' = writers
               \/ \E u \in BOOLEAN :
                     writers' = [slot |-> active, up |-> u, fenced |-> journal.required]
        PROVE  /\ writers' \in [slot : Slot, up : BOOLEAN, fenced : BOOLEAN]
               /\ writers'.up \/ ~writers'.fenced => Fits'
               /\ journal.invoked => writers'.fenced
    <2>1. CASE writers' = writers
      BY <1>1, <1>3, <2>1 DEF WritersOK, Fits, TypeOK
    <2>2. CASE \E u \in BOOLEAN :
                  writers' = [slot |-> active, up |-> u, fenced |-> journal.required]
      <3>1. /\ writers' \in [slot : Slot, up : BOOLEAN, fenced : BOOLEAN]
            /\ writers'.slot = active /\ writers'.fenced = journal.required
        BY <1>3, <1>5, <2>2
      <3>2. Fits'
        BY <1>1, <1>3, <1>5, <3>1 DEF Fits
      <3> QED BY <1>3, <3>1, <3>2 DEF JournalOK
    <2> QED BY <1>6, <2>1, <2>2
  <1>7. CASE /\ writers' = IF run[d].ready THEN writers
                           ELSE [slot |-> active, up |-> TRUE, fenced |-> journal.required]
             /\ Goes(d, "restored") /\ UNCHANGED <<journal, spent>>
    <2>1. Moved(d) /\ run'[d].at = "restored" /\ run'[d].new = run[d].new
      BY <1>2, <1>3, <1>7, Going
    <2>2. \/ writers' = writers
          \/ \E u \in BOOLEAN :
                writers' = [slot |-> active, up |-> u, fenced |-> journal.required]
      BY <1>7
    <2>3. writers'.up
      BY <1>5, <1>7
    <2>4. WritersOK'
      BY <1>3, <1>6, <1>7, <2>2 DEF WritersOK, Settled, Exists
    <2>5. DriverOK(d)'
      BY <1>1, <1>3, <1>7, <2>1, <2>3 DEF DriverOK, JournalAt, Exists
    <2> QED BY <1>1, <1>2, <1>3, <1>6, <1>7, <2>1, <2>2, <2>4, <2>5, WriterStep
  <1>8. CASE /\ ~run[d].ready /\ RollbackFails(d)
             /\ writers' \in {writers} \cup
                 {[slot |-> active, up |-> u, fenced |-> journal.required] : u \in BOOLEAN}
    <2>1. \/ writers' = writers
          \/ \E u \in BOOLEAN :
                writers' = [slot |-> active, up |-> u, fenced |-> journal.required]
      BY <1>8
    <2>2. Moved(d) /\ run'[d].at = "off" /\ ~run'[d].new /\ ~run'[d].ready
      BY <1>3, <1>8, Ending DEF RollbackFails, Blocks
    <2>3. Rewritten /\ journal'.phase = "blocked" /\ journal'.migrated = journal.migrated
      BY <1>3, <1>4, <1>5, <1>8, Blocking DEF RollbackFails, Blocks
    <2>4. spent' \in [{"failures", "deaths", "restarts", "reboots"} -> Nat]
      BY <1>3, <1>8, Spending DEF RollbackFails, Fails
    <2>5. Exists'
      BY <1>3, <2>3, JournalTyped DEF Exists, NoJournal, Rewritten
    <2>6. TypeOK'
      BY <1>1, <1>3, <1>6, <2>1, <2>2, <2>3, <2>4 DEF TypeOK, Moved, Rewritten
    <2>7. DriverOK(d)'
      BY <2>2 DEF DriverOK, Leases
    <2>8. JournalOK'
      BY <1>1, <1>3, <2>3 DEF JournalOK, Rewritten, Prepared
    <2>9. DatabaseOK' /\ MigratorOK' /\ PointerAgrees'
      BY <1>1, <1>3, <2>3 DEF DatabaseOK, MigratorOK, PointerAgrees
    <2>10. WritersOK'
      <3>1. ~Settled'
        BY <2>3, <2>5 DEF Settled, Done
      <3>2. journal'.invoked => writers'.fenced
        BY <1>6, <2>1, <2>3 DEF Rewritten
      <3>3. writers'.up \/ ~writers'.fenced => Fits'
        BY <1>6, <2>1
      <3> QED BY <3>1, <3>2, <3>3 DEF WritersOK
    <2> QED BY <1>1, <1>2, <1>4, <2>2, <2>3, <2>5, <2>6, <2>7, <2>8, <2>9, <2>10, LeaseStep
            DEF Rewritten
  <1> QED BY <1>7, <1>8 DEF RestartPrevious

LEMMA RecordRollbackStep ==
    ASSUME ActivationInvariant, NEW d \in Driver, RecordRollback(d)
    PROVE  ActivationInvariant'
  <1>1. /\ run[d].at = "restored"
        /\ UNCHANGED <<request, helper, active, projected, slots, writers, db, migrator, evidence,
                       spent>>
    BY DEF RecordRollback, control, disk, schema
  <1>2. Leases(d) /\ Still(d)
    BY <1>1 DEF Leases, Still
  <1>3. /\ TypeOK /\ Exists /\ journal.phase = "rolling_back" /\ db.whole /\ migrator.at = "off"
        /\ active = journal.previous /\ journal \in Journal /\ writers.up
        /\ JournalOK /\ WritersOK /\ ~Settled
        /\ spent' \in [{"failures", "deaths", "restarts", "reboots"} -> Nat]
    <2>1. /\ TypeOK /\ Exists /\ JournalAt(run[d].at) /\ journal \in Journal
          /\ JournalOK /\ WritersOK /\ (journal.phase \notin Done <=> ~Settled)
          /\ spent' \in [{"failures", "deaths", "restarts", "reboots"} -> Nat]
      BY <1>1, <1>2, AtWork
    <2>2. journal.phase = "rolling_back" /\ db.whole /\ migrator.at = "off"
          /\ active = journal.previous /\ writers.up
      BY <1>1, <2>1 DEF JournalAt
    <2>3. ~Settled
      BY <2>1, <2>2 DEF Done
    <2> QED BY <2>1, <2>2, <2>3
  <1> PICK c \in Cause \cup {None} :
          c = IF journal.cause = None THEN run[d].trigger ELSE journal.cause
    BY <1>3, DriverTyped DEF Journal
  <1>4. /\ journal' = [journal EXCEPT !.phase = "failed_rolled_back", !.cause = c]
        /\ run' = [run EXCEPT ![d].at = "unfence", ![d].cleans = TRUE]
    BY <1>3 DEF RecordRollback
  <1>5. /\ Rewritten /\ journal'.phase = "failed_rolled_back" /\ journal'.cause = c
        /\ journal'.migrated = journal.migrated
    <2>1. "failed_rolled_back" \in Phase
      BY DEF Phase, Terminal
    <2> QED BY <1>3, <1>4, <2>1 DEF Rewritten, Journal
  <1>6. Moved(d) /\ run'[d].at = "unfence" /\ run'[d].new = run[d].new
    <2>1. "unfence" \in Place
      BY DEF Place
    <2>2. run \in [Driver -> Run]
      BY <1>3, DriverTyped
    <2>3. [run[d] EXCEPT !.at = "unfence", !.cleans = TRUE] \in Run
      BY <2>1, <2>2 DEF Run
    <2>4. run' = [run EXCEPT ![d] = [run[d] EXCEPT !.at = "unfence", !.cleans = TRUE]]
      BY <1>4, <2>2
    <2>5. run'[d] = [run[d] EXCEPT !.at = "unfence", !.cleans = TRUE]
      BY <2>2, <2>4
    <2>6. run'[d].at = "unfence" /\ run'[d].new = run[d].new
      BY <2>2, <2>5 DEF Run
    <2> QED BY <2>2, <2>3, <2>4, <2>6 DEF Moved
  <1>7. Exists'
    BY <1>3, <1>5, JournalTyped DEF Exists, NoJournal, Rewritten
  <1>8. DriverOK(d)'
    BY <1>5, <1>6, <1>7 DEF DriverOK, JournalAt, Done
  <1>9. JournalOK'
    BY <1>1, <1>3, <1>5 DEF JournalOK, Rewritten, Prepared
  <1>10. DatabaseOK' /\ PointerAgrees'
    BY <1>1, <1>3, <1>5 DEF DatabaseOK, PointerAgrees, Rewritten
  <1>11. Fits /\ (journal'.invoked => writers.fenced) /\ journal.phase \notin Done
    BY <1>3, <1>5 DEF WritersOK, Rewritten, Done
  <1> QED BY <1>1, <1>2, <1>3, <1>5, <1>6, <1>8, <1>9, <1>10, <1>11, JournalStep DEF Rewritten

-----------------------------------------------------------------------------
(* The migration container goes on without the lease: under a journal that *)
(* no other process takes on or back meanwhile.                            *)

LEMMA MigrationUnderWay ==
    ASSUME ActivationInvariant, migrator.at # "off"
    PROVE  /\ TypeOK /\ JournalOK /\ WritersOK /\ MigratorOK
           /\ Exists /\ journal.invoked /\ journal.phase \in Undone /\ ~Settled
           /\ journal.req \in Request /\ migrator.req = journal.req /\ evidence # journal.req
           /\ ~writers.up \/ db.whole
           /\ SchemaOf[journal.target] \in Nat /\ db.version \in Nat
  <1>1. /\ TypeOK /\ JournalOK /\ DatabaseOK /\ MigratorOK /\ WritersOK
    BY DEF ActivationInvariant
  <1>2. Exists /\ journal.invoked /\ journal.phase \in Undone /\ migrator.req = journal.req
    BY <1>1 DEF DatabaseOK, MigratorOK
  <1>3. ~Settled
    BY <1>2 DEF Settled, Undone, Done
  <1>4. journal.req \in Request /\ journal.target \in Slot
    BY <1>1, <1>2, JournalTyped
  <1>5. SchemaOf[journal.target] \in Nat /\ db.version \in Nat
    BY <1>1, <1>4, RequestAssumption DEF TypeOK
  <1>6. evidence # journal.req
    BY <1>1, <1>2 DEF JournalOK
  <1>7. ~writers.up \/ db.whole
    BY <1>1 DEF MigratorOK
  <1> QED BY <1>1, <1>2, <1>3, <1>4, <1>5, <1>6, <1>7

LEMMA MigrationStep ==
    ASSUME ActivationInvariant, migrator.at # "off",
           UNCHANGED <<request, helper, journal, run, active, projected, slots, writers>>,
           evidence' \in {evidence, journal.req},
           TypeOK', JournalOK', DatabaseOK', MigratorOK', WritersOK'
    PROVE  ActivationInvariant'
  <1>1. /\ OneLease /\ HelperOK /\ RepairOK /\ PointerAgrees
        /\ Exists /\ Exists' /\ journal.phase \in Undone
    BY MigrationUnderWay DEF ActivationInvariant, Exists
  <1>2. OneLease' /\ PointerAgrees'
    BY <1>1 DEF OneLease, Leases, PointerAgrees, Exists
  <1>3. RepairOK'
    BY <1>1 DEF RepairOK, Selected, Exists
  <1>4. ASSUME NEW d \in Driver PROVE DriverOK(d)'
    <2>1. DriverOK(d)
      BY DEF ActivationInvariant
    <2>2. CASE Leases(d)
      <3>1. JournalAt(run[d].at)
        BY <2>1, <2>2 DEF DriverOK
      <3>2. JournalAt(run[d].at)'
        BY <3>1 DEF JournalAt
      <3> QED BY <1>1, <2>1, <3>2 DEF DriverOK
    <2>3. CASE ~Leases(d)
      BY <2>1, <2>3 DEF DriverOK, Leases
    <2> QED BY <2>2, <2>3
  <1>5. HelperOK'
    <2>1. \A r \in Request : Unused(r) => Unused(r)'
      BY DEF Unused
    <2> QED BY <1>1, <2>1 DEF HelperOK
  <1> QED BY <1>2, <1>3, <1>4, <1>5 DEF ActivationInvariant

LEMMA MigratorLocksStep ==
    ASSUME ActivationInvariant, MigratorLocks PROVE ActivationInvariant'
  <1>1. /\ migrator.at = "begun"
        /\ UNCHANGED <<request, helper, journal, run, active, projected, slots, writers, db,
                       evidence, spent>>
        /\ migrator' = Stopped \/ migrator' = [migrator EXCEPT !.at = "locked"]
    BY DEF MigratorLocks, control, disk
  <1>2. /\ TypeOK /\ JournalOK /\ WritersOK /\ MigratorOK
        /\ Exists /\ journal.invoked /\ journal.phase \in Undone /\ migrator.req = journal.req
        /\ evidence # journal.req
    BY <1>1, MigrationUnderWay
  <1>3. /\ migrator' \in Migrator /\ migrator'.at \in {"off", "locked"}
        /\ migrator'.at = "locked" => migrator'.req = journal.req
    BY <1>1, <1>2 DEF TypeOK, Migrator, Stopped
  <1>4. TypeOK'
    BY <1>1, <1>2, <1>3 DEF TypeOK
  <1>5. JournalOK'
    BY <1>1, <1>2 DEF JournalOK, Exists
  <1>6. DatabaseOK'
    BY <1>1, <1>2 DEF DatabaseOK, Exists
  <1>7. MigratorOK'
    BY <1>1, <1>2, <1>3 DEF MigratorOK
  <1>8. WritersOK'
    BY <1>1, <1>2 DEF WritersOK, Exists, Settled, Fits
  <1> QED BY <1>1, <1>4, <1>5, <1>6, <1>7, <1>8, MigrationStep

LEMMA MigratorMutatesStep ==
    ASSUME ActivationInvariant, MigratorMutates PROVE ActivationInvariant'
  <1>1. /\ migrator.at = "locked"
        /\ UNCHANGED <<request, helper, journal, run, active, projected, slots, writers,
                       evidence, spent>>
        /\ \/ writers.up /\ migrator' = Stopped /\ db' = db
           \/ /\ ~writers.up /\ migrator' = [migrator EXCEPT !.at = "mutating"]
              /\ db' = [db EXCEPT !.whole = FALSE]
    BY DEF MigratorMutates, control, disk
  <1>2. /\ TypeOK /\ JournalOK /\ WritersOK /\ MigratorOK
        /\ Exists /\ journal.invoked /\ journal.phase \in Undone /\ migrator.req = journal.req
        /\ evidence # journal.req /\ ~Settled
    BY <1>1, MigrationUnderWay
  <1>3. /\ migrator' \in Migrator /\ migrator'.at \in {"off", "mutating"}
        /\ migrator'.at = "mutating" => migrator'.req = journal.req
        /\ db' \in [version : Nat, whole : BOOLEAN] /\ db'.version = db.version
        /\ db' = db \/ ~writers.up
    <2>1. /\ migrator' \in Migrator /\ migrator'.at \in {"off", "mutating"}
          /\ migrator'.at = "mutating" => migrator'.req = journal.req
      BY <1>1, <1>2 DEF TypeOK, Migrator, Stopped
    <2>2. db' \in [version : Nat, whole : BOOLEAN] /\ db'.version = db.version
      BY <1>1, <1>2 DEF TypeOK
    <2>3. db' = db \/ ~writers.up
      BY <1>1
    <2> QED BY <2>1, <2>2, <2>3
  <1>4. TypeOK'
    BY <1>1, <1>2, <1>3 DEF TypeOK
  <1>5. JournalOK'
    BY <1>1, <1>2, <1>3 DEF JournalOK, Exists
  <1>6. DatabaseOK'
    BY <1>1, <1>2 DEF DatabaseOK, Exists
  <1>7. MigratorOK'
    BY <1>1, <1>2, <1>3 DEF MigratorOK
  <1>8. WritersOK'
    <2>1. writers.fenced
      BY <1>2 DEF WritersOK
    <2>2. writers.up => Fits'
      BY <1>1, <1>2, <1>3 DEF WritersOK, Fits
    <2> QED BY <1>1, <1>2, <2>1, <2>2 DEF WritersOK, Exists, Settled
  <1> QED BY <1>1, <1>4, <1>5, <1>6, <1>7, <1>8, MigrationStep

LEMMA MigratorCommitsStep ==
    ASSUME ActivationInvariant, MigratorCommits PROVE ActivationInvariant'
  <1>1. /\ migrator.at = "mutating"
        /\ UNCHANGED <<request, helper, journal, run, active, projected, slots, writers,
                       evidence, spent>>
        /\ migrator' = [migrator EXCEPT !.at = "committed"]
        /\ db' = [version |-> SchemaOf[TargetOf[migrator.req]], whole |-> TRUE]
    BY DEF MigratorCommits, control, disk
  <1>2. /\ TypeOK /\ JournalOK /\ WritersOK /\ MigratorOK
        /\ Exists /\ journal.invoked /\ journal.phase \in Undone /\ migrator.req = journal.req
        /\ evidence # journal.req /\ ~Settled
        /\ SchemaOf[journal.target] \in Nat /\ db.version \in Nat
    BY <1>1, MigrationUnderWay
  <1>3. journal.target = TargetOf[migrator.req] /\ db.version <= SchemaOf[journal.target]
        /\ SchemaOf[journal.previous] <= db.version
    BY <1>2 DEF JournalOK
  <1>4. /\ migrator' \in Migrator /\ migrator'.at = "committed" /\ migrator'.req = journal.req
        /\ db' = [version |-> SchemaOf[journal.target], whole |-> TRUE]
        /\ db' \in [version : Nat, whole : BOOLEAN]
    BY <1>1, <1>2, <1>3 DEF TypeOK, Migrator
  <1>5. SchemaOf[journal.previous] \in Nat
    BY <1>2, JournalTyped, RequestAssumption
  <1>6. SchemaOf[journal.previous] <= SchemaOf[journal.target]
    BY <1>2, <1>3, <1>5
  <1>7. TypeOK'
    BY <1>1, <1>2, <1>4 DEF TypeOK
  <1>8. JournalOK'
    BY <1>1, <1>2, <1>4, <1>6 DEF JournalOK, Exists
  <1>9. DatabaseOK'
    BY <1>1, <1>2 DEF DatabaseOK, Exists
  <1>10. MigratorOK'
    <2>1. db'.whole /\ migrator'.at = "committed"
      BY <1>4
    <2> QED BY <1>1, <1>4, <2>1 DEF MigratorOK
  <1>11. WritersOK'
    <2>1. writers.fenced
      BY <1>2 DEF WritersOK
    <2>2. writers.up => Fits'
      <3>1. writers.slot \in Slot
        BY <1>2 DEF TypeOK
      <3>2. SchemaOf[writers.slot] \in Nat
        BY <3>1, RequestAssumption
      <3>3. writers.up => db.version >= SchemaOf[writers.slot]
        BY <1>2 DEF WritersOK, Fits
      <3>4. writers.up => SchemaOf[journal.target] >= SchemaOf[writers.slot]
        BY <1>2, <1>3, <3>2, <3>3
      <3> QED BY <1>1, <1>4, <3>4 DEF Fits
    <2> QED BY <1>1, <1>2, <2>1, <2>2 DEF WritersOK, Exists, Settled
  <1> QED BY <1>1, <1>7, <1>8, <1>9, <1>10, <1>11, MigrationStep

LEMMA MigratorRecordsStep ==
    ASSUME ActivationInvariant, MigratorRecords PROVE ActivationInvariant'
  <1>1. /\ migrator.at = "committed" /\ migrator' = Stopped /\ evidence' = migrator.req
        /\ UNCHANGED <<request, helper, journal, run, active, projected, slots, writers, db,
                       spent>>
    BY DEF MigratorRecords, control, disk
  <1>2. /\ TypeOK /\ JournalOK /\ WritersOK /\ MigratorOK
        /\ Exists /\ journal.invoked /\ journal.phase \in Undone /\ migrator.req = journal.req
        /\ journal.req \in Request /\ ~Settled
    BY <1>1, MigrationUnderWay
  <1>3. db = [version |-> SchemaOf[journal.target], whole |-> TRUE]
    BY <1>1, <1>2 DEF MigratorOK
  <1>4. Stopped \in Migrator /\ Stopped.at = "off"
    BY DEF Stopped, Migrator
  <1>5. TypeOK'
    BY <1>1, <1>2, <1>4 DEF TypeOK
  <1>6. JournalOK'
    BY <1>1, <1>2, <1>3, <1>4 DEF JournalOK, Exists
  <1>7. DatabaseOK'
    BY <1>1, <1>2 DEF DatabaseOK, Exists
  <1>8. MigratorOK'
    BY <1>1, <1>3, <1>4 DEF MigratorOK
  <1>9. WritersOK'
    BY <1>1, <1>2 DEF WritersOK, Exists, Settled, Fits
  <1> QED BY <1>1, <1>2, <1>5, <1>6, <1>7, <1>8, <1>9, MigrationStep

LEMMA MigratorFailsStep ==
    ASSUME ActivationInvariant, MigratorFails PROVE ActivationInvariant'
  <1>1. /\ migrator.at # "off" /\ migrator' = Stopped
        /\ UNCHANGED <<request, helper, journal, run, active, projected, slots, writers, evidence>>
        /\ db' = db \/ db' = [db EXCEPT !.whole = TRUE]
    BY DEF MigratorFails, control, disk
  <1>2. /\ TypeOK /\ JournalOK /\ WritersOK /\ MigratorOK
        /\ Exists /\ journal.invoked /\ journal.phase \in Undone
        /\ evidence # journal.req /\ ~Settled
    BY <1>1, MigrationUnderWay
  <1>3. spent' \in [{"failures", "deaths", "restarts", "reboots"} -> Nat]
    BY <1>2, Spending DEF MigratorFails, Fails
  <1>4. /\ Stopped \in Migrator /\ Stopped.at = "off"
        /\ db' \in [version : Nat, whole : BOOLEAN] /\ db'.version = db.version
        /\ db'.whole \/ db' = db
    BY <1>1, <1>2 DEF Stopped, Migrator, TypeOK
  <1>5. TypeOK'
    BY <1>1, <1>2, <1>3, <1>4 DEF TypeOK
  <1>6. JournalOK'
    BY <1>1, <1>2, <1>4 DEF JournalOK, Exists
  <1>7. DatabaseOK'
    BY <1>1, <1>2 DEF DatabaseOK, Exists
  <1>8. MigratorOK'
    BY <1>1, <1>2, <1>4 DEF MigratorOK
  <1>9. WritersOK'
    <2>1. Fits => Fits'
      BY <1>1, <1>4 DEF Fits
    <2> QED BY <1>1, <1>2, <2>1 DEF WritersOK, Exists, Settled
  <1> QED BY <1>1, <1>5, <1>6, <1>7, <1>8, <1>9, MigrationStep

-----------------------------------------------------------------------------
(* Steps without the lease: of the helper, and of processes that wait or   *)
(* only read.                                                              *)

Aside(e) ==
    \/ run'[e] = run[e]
    \/ ~Leases(e) /\ ~Leases(e)' /\ (run'[e].at = "off" => ~run'[e].new)
AllAside == \A e \in Driver : Aside(e)

LEMMA AsideStep ==
    ASSUME ActivationInvariant, AllAside,
           UNCHANGED <<journal, db, migrator, evidence>>,
           writers' = writers \/ (Settled /\ writers' = [writers EXCEPT !.fenced = FALSE]),
           active' = active \/ journal.phase \in Done,
           TypeOK', HelperOK', RepairOK', PointerAgrees'
    PROVE  ActivationInvariant'
  <1>1. /\ TypeOK /\ OneLease /\ JournalOK /\ DatabaseOK /\ MigratorOK /\ WritersOK
        /\ Exists' = Exists /\ Settled' = Settled
    BY DEF ActivationInvariant, Exists, Settled
  <1>2. ASSUME NEW e \in Driver PROVE Leases(e)' <=> Leases(e)
    BY DEF AllAside, Aside, Leases
  <1>3. OneLease'
    BY <1>1, <1>2 DEF OneLease
  <1>4. /\ writers'.up = writers.up /\ writers'.slot = writers.slot
        /\ writers' = writers \/ Settled
    BY <1>1 DEF TypeOK
  <1>5. JournalOK' /\ DatabaseOK'
    BY <1>1 DEF JournalOK, DatabaseOK
  <1>6. WritersOK'
    <2>1. Fits' = Fits
      BY <1>4 DEF Fits
    <2>2. CASE writers' = writers
      BY <1>1, <2>1, <2>2 DEF WritersOK
    <2>3. CASE Settled
      BY <1>1, <2>1, <2>3 DEF WritersOK
    <2> QED BY <1>4, <2>2, <2>3
  <1>7. MigratorOK'
    <2>1. migrator.at = "begun" => \E e \in Driver : run'[e].at = "migrating"
      <3>1. SUFFICES ASSUME migrator.at = "begun" PROVE \E e \in Driver : run'[e].at = "migrating"
        OBVIOUS
      <3>2. PICK e \in Driver : run[e].at = "migrating"
        BY <1>1, <3>1 DEF MigratorOK
      <3>3. run'[e].at = "migrating"
        BY <3>2 DEF AllAside, Aside, Leases
      <3> QED BY <3>3
    <2> QED BY <1>1, <1>4, <2>1 DEF MigratorOK
  <1>8. ASSUME NEW e \in Driver PROVE DriverOK(e)'
    <2>1. DriverOK(e)
      BY DEF ActivationInvariant
    <2>2. CASE Leases(e)
      <3>1. run'[e] = run[e] /\ Exists /\ JournalAt(run[e].at)
        BY <2>1, <2>2 DEF AllAside, Aside, DriverOK
      <3>2. CASE journal.phase \in Done
        <4>1. JournalAt(run[e].at)'
          BY <1>4, <3>1, <3>2 DEF JournalAt, Done
        <4> QED BY <1>1, <1>4, <2>1, <3>1, <4>1 DEF DriverOK
      <3>3. CASE journal.phase \notin Done
        <4>1. writers' = writers /\ active' = active
          BY <1>4, <3>1, <3>3 DEF Settled
        <4>2. JournalAt(run[e].at)'
          BY <3>1, <4>1 DEF JournalAt
        <4> QED BY <1>1, <2>1, <3>1, <4>1, <4>2 DEF DriverOK
      <3> QED BY <3>2, <3>3
    <2>3. CASE ~Leases(e)
      <3>1. ~Leases(e)' /\ (run'[e].at = "off" => ~run'[e].new)
        BY <1>2, <2>1, <2>3 DEF AllAside, Aside, DriverOK
      <3> QED BY <3>1 DEF DriverOK, Leases
    <2> QED BY <2>2, <2>3
  <1> QED BY <1>3, <1>5, <1>6, <1>7, <1>8 DEF ActivationInvariant

\* One process waits, or only reads; the other stays.
LEMMA MovedAside ==
    ASSUME NEW d \in Driver, Moved(d), ~Leases(d), ~Leases(d)', run'[d].at = "off" => ~run'[d].new
    PROVE  AllAside
  <1> QED BY DEF Moved, AllAside, Aside

LEMMA StayedAside ==
    ASSUME run' = run PROVE AllAside
  <1> QED BY DEF AllAside, Aside

LEMMA Resuming ==
    ASSUME ActivationInvariant, NEW d \in Driver, Resumes(d)
    PROVE  /\ AllAside /\ Moved(d) /\ run'[d].at = "waiting" /\ ~run'[d].new
           /\ run[d].at = "off" /\ ~Settled
  <1>1. /\ TypeOK /\ DriverOK(d) /\ run[d].at = "off" /\ ~Settled
        /\ run' = [run EXCEPT ![d].at = "waiting", ![d].goal = journal.req]
    BY DEF ActivationInvariant, Resumes
  <1>2. journal.req \in Request /\ "waiting" \in Place
    BY <1>1, JournalTyped DEF Place
  <1>3. Moved(d) /\ run'[d].at = "waiting" /\ run'[d].new = run[d].new
    BY <1>1, <1>2, DriverTyped DEF Moved, Run
  <1>4. ~run[d].new
    BY <1>1 DEF DriverOK
  <1> QED BY <1>1, <1>3, <1>4, MovedAside DEF Leases

LEMMA ControlTyped ==
    ASSUME ActivationInvariant
    PROVE  /\ TypeOK /\ HelperOK /\ RepairOK /\ PointerAgrees
           /\ request \in [Request -> {"new", "claimed", "failed"} \cup Terminal]
           /\ helper \in [at : {"boot", "idle", "resolve", "resolving", "prepare", "activate",
                                "publish"},
                          req : Request \cup {None}]
  <1> QED BY DEF ActivationInvariant, TypeOK

LEMMA ClaimStep ==
    ASSUME ActivationInvariant, NEW r \in Request, Claim(r) PROVE ActivationInvariant'
  <1>1. /\ helper.at = "idle" /\ request[r] = "new"
        /\ request' = [request EXCEPT ![r] = "claimed"]
        /\ helper' = [at |-> "resolve", req |-> r]
        /\ UNCHANGED <<journal, run, active, projected, slots, writers, db, migrator, evidence,
                       spent>>
    BY DEF Claim, disk, schema
  <1>2. /\ TypeOK /\ HelperOK /\ RepairOK /\ PointerAgrees
        /\ request \in [Request -> {"new", "claimed", "failed"} \cup Terminal]
    BY ControlTyped
  <1>3. Unused(r) /\ run["helper"].at = "off" /\ run["helper"].at # "waiting"
        /\ \A q \in Request : request'[q] = "new" => request[q] = "new"
        /\ request'[r] = "claimed"
    BY <1>1, <1>2 DEF HelperOK
  <1>4. TypeOK'
    BY <1>1, <1>2 DEF TypeOK
  <1>5. HelperOK'
    <2>1. \A q \in Request : Unused(q)' = Unused(q)
      BY <1>1 DEF Unused
    <2>2. helper'.at = "resolve" /\ helper'.req = r
      BY <1>1
    <2> QED BY <1>1, <1>2, <1>3, <2>1, <2>2 DEF HelperOK
  <1>6. RepairOK'
    <2>1. run["operator"].at \notin {"seen", "repair"}
      BY <1>1, <1>2, <1>3 DEF RepairOK, Unused
    <2> QED BY <1>1, <2>1 DEF RepairOK
  <1>7. PointerAgrees'
    BY <1>1, <1>2 DEF PointerAgrees, Exists
  <1> QED BY <1>1, <1>4, <1>5, <1>6, <1>7, StayedAside, AsideStep

LEMMA ClaimAgainStep ==
    ASSUME ActivationInvariant, NEW r \in Request, ClaimAgain(r) PROVE ActivationInvariant'
  <1>1. /\ helper.at = "idle" /\ request[r] = "claimed"
        /\ \/ helper' = [at |-> "publish", req |-> r] /\ request' = request
           \/ request' = [request EXCEPT ![r] = "failed"] /\ helper' = helper
        /\ UNCHANGED <<journal, run, active, projected, slots, writers, db, migrator, evidence,
                       spent>>
    BY DEF ClaimAgain, disk, schema
  <1>2. /\ TypeOK /\ HelperOK /\ RepairOK /\ PointerAgrees
        /\ request \in [Request -> {"new", "claimed", "failed"} \cup Terminal]
    BY ControlTyped
  <1>3. /\ run["helper"].at = "off" /\ run["helper"].at # "waiting"
        /\ \A q \in Request : request'[q] = request[q] \/ request'[q] = "failed"
    BY <1>1, <1>2 DEF HelperOK
  <1>4. TypeOK'
    BY <1>1, <1>2 DEF TypeOK
  <1>5. HelperOK'
    <2>1. \A q \in Request : Unused(q)' = Unused(q)
      BY <1>1 DEF Unused
    <2>2. CASE helper' = helper
      BY <1>1, <1>2, <1>3, <2>1, <2>2 DEF HelperOK
    <2>3. CASE helper' = [at |-> "publish", req |-> r] /\ request' = request
      BY <1>1, <1>2, <1>3, <2>1, <2>3 DEF HelperOK
    <2> QED BY <1>1, <2>2, <2>3
  <1>6. RepairOK' /\ PointerAgrees'
    BY <1>1, <1>2, <1>3 DEF RepairOK, Selected, PointerAgrees, Exists
  <1> QED BY <1>1, <1>4, <1>5, <1>6, StayedAside, AsideStep

\* The helper goes on with what it had, once its process is over or asked to resume.
LEMMA HelperStepKept ==
    ASSUME ActivationInvariant, UNCHANGED <<request, journal, db, migrator, evidence>>,
           AllAside, run'["operator"] = run["operator"], TypeOK', HelperOK',
           writers' = writers \/ (Settled /\ writers' = [writers EXCEPT !.fenced = FALSE]),
           UNCHANGED active
    PROVE  ActivationInvariant'
  <1>1. RepairOK' /\ PointerAgrees'
    BY ControlTyped DEF RepairOK, Selected, PointerAgrees, Exists
  <1> QED BY <1>1, AsideStep

LEMMA HelperBootsStep ==
    ASSUME ActivationInvariant, HelperBoots PROVE ActivationInvariant'
  <1>1. /\ helper.at = "boot"
        /\ \/ /\ run["helper"].at = "off" /\ Settled /\ run' = run
              /\ helper' = [at |-> "idle", req |-> None]
              /\ writers' = [writers EXCEPT !.fenced = FALSE]
           \/ Resumes("helper") /\ helper' = helper /\ writers' = writers
        /\ UNCHANGED <<request, journal, active, projected, slots, db, migrator, evidence, spent>>
    BY DEF HelperBoots, disk, schema
  <1>2. TypeOK /\ HelperOK /\ "helper" \in Driver /\ \A q \in Request : Unused(q)' = Unused(q)
    BY <1>1, ControlTyped DEF Driver, Unused
  <1>3. CASE run' = run /\ run["helper"].at = "off" /\ Settled
             /\ helper' = [at |-> "idle", req |-> None]
             /\ writers' = [writers EXCEPT !.fenced = FALSE]
    <2>1. TypeOK'
      BY <1>1, <1>2, <1>3 DEF TypeOK
    <2>2. HelperOK'
      BY <1>1, <1>2, <1>3 DEF HelperOK
    <2> QED BY <1>1, <1>3, <2>1, <2>2, StayedAside, HelperStepKept
  <1>4. CASE Resumes("helper") /\ helper' = helper /\ writers' = writers
    <2>1. /\ AllAside /\ Moved("helper") /\ run'["helper"].at = "waiting" /\ ~run'["helper"].new
      BY <1>2, <1>4, Resuming
    <2>2. run'["operator"] = run["operator"]
      BY <2>1 DEF Moved, Driver
    <2>3. TypeOK'
      BY <1>1, <1>2, <1>4, <2>1 DEF TypeOK, Moved
    <2>4. HelperOK'
      BY <1>1, <1>2, <1>4, <2>1, <2>2 DEF HelperOK
    <2> QED BY <1>1, <1>4, <2>1, <2>2, <2>3, <2>4, HelperStepKept
  <1> QED BY <1>1, <1>3, <1>4

LEMMA HelperResolvesStep ==
    ASSUME ActivationInvariant, HelperResolves PROVE ActivationInvariant'
  <1>1. /\ helper.at = "resolve" /\ run["helper"].at = "off"
        /\ \/ helper' = [helper EXCEPT !.at = "prepare"] /\ run' = run
           \/ Resumes("helper") /\ helper' = [helper EXCEPT !.at = "resolving"]
        /\ UNCHANGED <<request, journal, active, projected, slots, writers, db, migrator,
                       evidence, spent>>
    BY DEF HelperResolves, disk, schema
  <1>2. TypeOK /\ HelperOK /\ "helper" \in Driver /\ \A q \in Request : Unused(q)' = Unused(q)
    BY <1>1, ControlTyped DEF Driver, Unused
  <1>3. CASE run' = run /\ helper' = [helper EXCEPT !.at = "prepare"]
    <2>1. TypeOK' /\ helper'.at = "prepare" /\ helper'.req = helper.req
      BY <1>1, <1>2, <1>3 DEF TypeOK
    <2>2. HelperOK'
      BY <1>1, <1>2, <1>3, <2>1 DEF HelperOK
    <2> QED BY <1>1, <1>3, <2>1, <2>2, StayedAside, HelperStepKept
  <1>4. CASE Resumes("helper") /\ helper' = [helper EXCEPT !.at = "resolving"]
    <2>1. /\ AllAside /\ Moved("helper") /\ run'["helper"].at = "waiting" /\ ~run'["helper"].new
      BY <1>2, <1>4, Resuming
    <2>2. run'["operator"] = run["operator"]
      BY <2>1 DEF Moved, Driver
    <2>3. TypeOK' /\ helper'.at = "resolving" /\ helper'.req = helper.req
      BY <1>1, <1>2, <1>4, <2>1 DEF TypeOK, Moved
    <2>4. HelperOK'
      BY <1>1, <1>2, <2>1, <2>2, <2>3 DEF HelperOK
    <2> QED BY <1>1, <2>1, <2>2, <2>3, <2>4, HelperStepKept
  <1> QED BY <1>1, <1>3, <1>4

LEMMA HelperResolvedStep ==
    ASSUME ActivationInvariant, HelperResolved PROVE ActivationInvariant'
  <1>1. /\ helper.at = "resolving" /\ run["helper"].at = "off"
        /\ \E a \in {"prepare", "publish"} : helper' = [helper EXCEPT !.at = a]
        /\ UNCHANGED <<request, journal, run, active, projected, slots, writers, db, migrator,
                       evidence, spent>>
    BY DEF HelperResolved, disk, schema
  <1>2. TypeOK /\ HelperOK /\ \A q \in Request : Unused(q)' = Unused(q)
    BY <1>1, ControlTyped DEF Unused
  <1>3. TypeOK' /\ helper'.at \in {"prepare", "publish"} /\ helper'.req = helper.req
    BY <1>1, <1>2 DEF TypeOK
  <1>4. HelperOK'
    BY <1>1, <1>2, <1>3 DEF HelperOK
  <1> QED BY <1>1, <1>3, <1>4, StayedAside, HelperStepKept

LEMMA HelperPreparesStep ==
    ASSUME ActivationInvariant, HelperPrepares PROVE ActivationInvariant'
  <1>1. /\ helper.at = "prepare" /\ slots' = slots \cup {TargetOf[helper.req]}
        /\ helper' = [helper EXCEPT !.at = "activate"]
        /\ run' = [run EXCEPT !["helper"].at = "waiting", !["helper"].goal = helper.req,
                              !["helper"].new = TRUE]
        /\ UNCHANGED <<request, journal, active, projected, writers, db, migrator, evidence, spent>>
    BY DEF HelperPrepares, schema
  <1>2. TypeOK /\ HelperOK /\ "helper" \in Driver /\ \A q \in Request : Unused(q)' = Unused(q)
    BY <1>1, ControlTyped DEF Driver, Unused
  <1>3. /\ helper.req \in Request /\ request[helper.req] = "claimed" /\ Unused(helper.req)
        /\ run["helper"].at = "off" /\ "waiting" \in Place /\ TRUE \in BOOLEAN
    BY <1>1, <1>2 DEF HelperOK, Place
  <1>4. /\ Moved("helper") /\ run'["helper"].at = "waiting" /\ run'["helper"].goal = helper.req
    <2>1. PICK h \in Request : h = helper.req
      BY <1>3
    <2>2. run["helper"] \in Run /\ run \in [Driver -> Run]
      BY <1>2, DriverTyped
    <2> DEFINE n == [run["helper"] EXCEPT !.at = "waiting", !.goal = h, !.new = TRUE]
    <2>3. n \in Run /\ n.at = "waiting" /\ n.goal = h
      BY <1>3, <2>2 DEF Run
    <2>4. run' = [run EXCEPT !["helper"] = n]
      BY <1>1, <2>1
    <2> HIDE DEF n
    <2> QED BY <1>2, <2>1, <2>2, <2>3, <2>4 DEF Moved
  <1>5. run'["operator"] = run["operator"]
    BY <1>4 DEF Moved, Driver
  <1>6. TypeOK' /\ helper'.at = "activate" /\ helper'.req = helper.req
    BY <1>1, <1>2, <1>3, <1>4 DEF TypeOK, Moved, Slot
  <1>7. HelperOK'
    BY <1>1, <1>2, <1>3, <1>4, <1>5, <1>6 DEF HelperOK
  <1>8. AllAside
    BY <1>2, <1>3, <1>4, MovedAside DEF Leases
  <1> QED BY <1>1, <1>5, <1>6, <1>7, <1>8, HelperStepKept

LEMMA HelperPublishesStep ==
    ASSUME ActivationInvariant, HelperPublishes PROVE ActivationInvariant'
  <1>1. /\ helper.at \in {"activate", "publish"} /\ run["helper"].at = "off"
        /\ request' = [request EXCEPT ![helper.req] = Outcome(helper.req)]
        /\ helper' = [at |-> "idle", req |-> None]
        /\ UNCHANGED <<journal, run, active, projected, slots, writers, db, migrator, evidence,
                       spent>>
    BY DEF HelperPublishes, disk, schema
  <1>2. /\ TypeOK /\ HelperOK /\ RepairOK /\ PointerAgrees
        /\ request \in [Request -> {"new", "claimed", "failed"} \cup Terminal]
    BY ControlTyped
  <1>3. Outcome(helper.req) \in {"failed"} \cup Terminal
    BY DEF Outcome
  <1>4. Outcome(helper.req) \notin {"new", "claimed"}
    BY <1>3 DEF Terminal
  <1> DEFINE o == Outcome(helper.req)
  <1>5. \A q \in Request : request'[q] = request[q] \/ request'[q] \notin {"new", "claimed"}
    <2> HIDE DEF o
    <2> QED BY <1>1, <1>2, <1>4
  <1>6. TypeOK'
    <2>1. request' \in [Request -> {"new", "claimed", "failed"} \cup Terminal]
      BY <1>1, <1>2, <1>3
    <2> QED BY <1>1, <1>2, <2>1 DEF TypeOK
  <1>7. HelperOK'
    <2>1. \A q \in Request : Unused(q)' = Unused(q)
      BY <1>1 DEF Unused
    <2>2. helper'.at = "idle"
      BY <1>1
    <2> QED BY <1>1, <1>2, <1>5, <2>1, <2>2 DEF HelperOK
  <1>8. RepairOK' /\ PointerAgrees'
    BY <1>1, <1>2, <1>5 DEF RepairOK, Selected, PointerAgrees, Exists
  <1> QED BY <1>1, <1>6, <1>7, <1>8, StayedAside, AsideStep

LEMMA OperatorResumesStep ==
    ASSUME ActivationInvariant, OperatorResumes PROVE ActivationInvariant'
  <1>1. /\ Resumes("operator")
        /\ UNCHANGED <<request, helper, journal, active, projected, slots, writers, db, migrator,
                       evidence, spent>>
    BY DEF OperatorResumes, disk, schema
  <1>2. /\ TypeOK /\ HelperOK /\ RepairOK /\ PointerAgrees /\ "operator" \in Driver
        /\ \A q \in Request : Unused(q)' = Unused(q)
    BY <1>1, ControlTyped DEF Driver, Unused
  <1>3. AllAside /\ Moved("operator") /\ run'["operator"].at = "waiting" /\ ~run'["operator"].new
    BY <1>1, <1>2, Resuming
  <1>4. run'["helper"] = run["helper"]
    BY <1>3 DEF Moved, Driver
  <1>5. TypeOK'
    BY <1>1, <1>2, <1>3 DEF TypeOK, Moved
  <1>6. HelperOK'
    BY <1>1, <1>2, <1>3, <1>4 DEF HelperOK
  <1>7. RepairOK' /\ PointerAgrees'
    BY <1>1, <1>2, <1>3 DEF RepairOK, PointerAgrees, Exists
  <1> QED BY <1>1, <1>3, <1>5, <1>6, <1>7, AsideStep

\* resolve_authority of the operator: it reads the pointer, then the journal, and only
\* then writes the pointer.
LEMMA SeePointerStep ==
    ASSUME ActivationInvariant, ~Repairs, SeePointer PROVE ActivationInvariant'
  <1>1. /\ Exists /\ run["operator"].at = "off"
        /\ \A r \in Request \ {journal.req} : request[r] \notin {"new", "claimed"}
        /\ run' = [run EXCEPT !["operator"].at = "seen", !["operator"].seen = active]
        /\ UNCHANGED <<request, helper, journal, active, projected, slots, writers, db, migrator,
                       evidence, spent>>
    BY DEF SeePointer, control, disk, schema
  <1>2. /\ TypeOK /\ HelperOK /\ RepairOK /\ PointerAgrees /\ "operator" \in Driver
        /\ \A q \in Request : Unused(q)' = Unused(q)
    BY <1>1, ControlTyped DEF Driver, Unused
  <1>3. /\ Moved("operator") /\ run'["operator"].at = "seen"
        /\ run'["operator"].new = run["operator"].new
    <2>1. active \in Slot /\ "seen" \in Place
      BY <1>2 DEF TypeOK, Place
    <2> QED BY <1>1, <1>2, <2>1, DriverTyped DEF Moved, Run
  <1>4. run'["helper"] = run["helper"]
    BY <1>3 DEF Moved, Driver
  <1>5. TypeOK'
    BY <1>1, <1>2, <1>3 DEF TypeOK, Moved
  <1>6. HelperOK'
    BY <1>1, <1>2, <1>3, <1>4 DEF HelperOK
  <1>7. RepairOK' /\ PointerAgrees'
    BY <1>1, <1>2, <1>3 DEF RepairOK, PointerAgrees, Exists
  <1>8. AllAside
    BY <1>1, <1>2, <1>3, MovedAside DEF Leases
  <1> QED BY <1>1, <1>5, <1>6, <1>7, <1>8, AsideStep

LEMMA ReadAuthorityStep ==
    ASSUME ActivationInvariant, ReadAuthority PROVE ActivationInvariant'
  <1>1. /\ run["operator"].at = "seen"
        /\ \/ /\ journal.phase \in Done
              /\ run' = [run EXCEPT !["operator"].at = "repair", !["operator"].seen = Selected]
           \/ Ends("operator")
        /\ UNCHANGED <<request, helper, journal, active, projected, slots, writers, db, migrator,
                       evidence, spent>>
    BY DEF ReadAuthority, control, disk, schema
  <1>2. /\ TypeOK /\ HelperOK /\ RepairOK /\ PointerAgrees /\ "operator" \in Driver
        /\ \A q \in Request : Unused(q)' = Unused(q)
    BY <1>1, ControlTyped DEF Driver, Unused
  <1>3. Exists /\ ~run["operator"].new
    BY <1>1, <1>2 DEF RepairOK, HelperOK
  <1>4. /\ Moved("operator") /\ ~run'["operator"].new
        /\ \/ run'["operator"].at = "off"
           \/ /\ run'["operator"].at = "repair" /\ journal.phase \in Done
              /\ run'["operator"].seen = Selected
    <2>1. CASE Ends("operator")
      BY <1>2, <2>1, Ending
    <2>2. CASE /\ journal.phase \in Done
               /\ run' = [run EXCEPT !["operator"].at = "repair", !["operator"].seen = Selected]
      <3>1. PICK s \in Slot : s = Selected
        BY <1>2, <1>3, JournalTyped DEF Selected
      <3>2. "repair" \in Place
        BY DEF Place
      <3> QED BY <1>2, <1>3, <2>2, <3>1, <3>2, DriverTyped DEF Moved, Run
    <2> QED BY <1>1, <2>1, <2>2
  <1>5. run'["helper"] = run["helper"]
    BY <1>4 DEF Moved, Driver
  <1>6. TypeOK'
    BY <1>1, <1>2, <1>4 DEF TypeOK, Moved
  <1>7. HelperOK'
    BY <1>1, <1>2, <1>4, <1>5 DEF HelperOK
  <1>8. RepairOK' /\ PointerAgrees'
    BY <1>1, <1>2, <1>4 DEF RepairOK, Selected, PointerAgrees, Exists
  <1>9. AllAside
    BY <1>1, <1>2, <1>4, MovedAside DEF Leases
  <1> QED BY <1>1, <1>6, <1>7, <1>8, <1>9, AsideStep

LEMMA RepairPointerStep ==
    ASSUME ActivationInvariant, RepairPointer PROVE ActivationInvariant'
  <1>1. /\ run["operator"].at = "repair" /\ run["operator"].seen \in slots
        /\ active' = run["operator"].seen /\ projected' = run["operator"].seen
        /\ Ends("operator")
        /\ UNCHANGED <<request, helper, journal, slots, writers, db, migrator, evidence, spent>>
    BY DEF RepairPointer, control, schema
  <1>2. /\ TypeOK /\ HelperOK /\ RepairOK /\ PointerAgrees /\ "operator" \in Driver
        /\ \A q \in Request : Unused(q)' = Unused(q)
    BY <1>1, ControlTyped DEF Driver, Unused
  <1>3. Exists /\ journal.phase \in Done /\ active' = Selected /\ active' \in slots
    BY <1>1, <1>2 DEF RepairOK
  <1>4. Moved("operator") /\ run'["operator"].at = "off" /\ ~run'["operator"].new
    BY <1>1, <1>2, Ending
  <1>5. run'["helper"] = run["helper"]
    BY <1>4 DEF Moved, Driver
  <1>6. TypeOK'
    BY <1>1, <1>2, <1>3, <1>4 DEF TypeOK, Moved
  <1>7. HelperOK'
    BY <1>1, <1>2, <1>4, <1>5 DEF HelperOK
  <1>8. RepairOK' /\ PointerAgrees'
    BY <1>1, <1>3, <1>4 DEF RepairOK, Selected, PointerAgrees, Exists
  <1>9. AllAside
    BY <1>1, <1>2, <1>4, MovedAside DEF Leases
  <1> QED BY <1>1, <1>3, <1>6, <1>7, <1>8, <1>9, AsideStep

-----------------------------------------------------------------------------
(* A process takes the lease.                                              *)

LEMMA LoopStep ==
    ASSUME ActivationInvariant, NEW d \in Driver, run[d].at = "waiting", Free,
           Exists, Goes(d, "loop"),
           UNCHANGED <<request, helper, journal, active, projected, slots, writers, db, migrator,
                       evidence, spent>>
    PROVE  ActivationInvariant'
  <1>1. /\ TypeOK /\ JournalOK /\ DatabaseOK /\ MigratorOK /\ WritersOK /\ HelperOK /\ RepairOK
        /\ PointerAgrees /\ Exists' /\ "loop" \in Place
    BY DEF ActivationInvariant, Exists, Place
  <1>2. Moved(d) /\ run'[d].at = "loop" /\ run'[d].new = run[d].new
    BY <1>1, Going
  <1>3. \A e \in Driver : ~Leases(e)
    BY DEF Free, Leases
  <1>4. OneLease'
    BY <1>2, <1>3 DEF OneLease, Leases, Moved
  <1>5. ASSUME NEW e \in Driver PROVE DriverOK(e)'
    <2>1. CASE e = d
      BY <1>1, <1>2, <2>1 DEF DriverOK, JournalAt
    <2>2. CASE e # d
      <3>1. run'[e] = run[e] /\ DriverOK(e) /\ ~Leases(e)
        BY <1>2, <1>3, <2>2 DEF Moved, ActivationInvariant
      <3> QED BY <3>1 DEF DriverOK, Leases
    <2> QED BY <2>1, <2>2
  <1>6. TypeOK'
    BY <1>1, <1>2 DEF TypeOK, Moved
  <1>7. JournalOK' /\ DatabaseOK' /\ WritersOK' /\ PointerAgrees'
    BY <1>1 DEF JournalOK, DatabaseOK, WritersOK, PointerAgrees, Exists, Settled, Fits
  <1>8. MigratorOK'
    BY <1>1, <1>2, MigratingKept DEF MigratorOK, Still
  <1>9. HelperOK'
    <2>1. \A q \in Request : Unused(q)' = Unused(q)
      BY DEF Unused
    <2>2. d = "helper" \/ d = "operator"
      BY DEF Driver
    <2>3. CASE d = "helper"
      <3>1. run'["operator"] = run["operator"]
        BY <1>2, <2>3 DEF Moved, Driver
      <3> QED BY <1>1, <1>2, <2>1, <2>3, <3>1 DEF HelperOK
    <2>4. CASE d = "operator"
      <3>1. run'["helper"] = run["helper"]
        BY <1>2, <2>4 DEF Moved, Driver
      <3> QED BY <1>1, <1>2, <2>1, <2>4, <3>1 DEF HelperOK
    <2> QED BY <2>2, <2>3, <2>4
  <1>10. RepairOK'
    BY <1>1, <1>2 DEF RepairOK, Moved, Driver, Selected
  <1> QED BY <1>4, <1>5, <1>6, <1>7, <1>8, <1>9, <1>10 DEF ActivationInvariant

LEMMA StartsStep ==
    ASSUME ActivationInvariant, NEW d \in Driver, run[d].at = "waiting", Free,
           Settled, run[d].new, Starts(d),
           UNCHANGED <<request, helper, active, projected, slots, writers, db, migrator,
                       evidence, spent>>
    PROVE  ActivationInvariant'
  <1>1. /\ TypeOK /\ DatabaseOK /\ MigratorOK /\ WritersOK /\ HelperOK /\ RepairOK
        /\ "loop" \in Place
    BY DEF ActivationInvariant, Place
  <1>2. d = "helper" /\ helper.at = "activate" /\ run[d].goal = helper.req
        /\ Unused(helper.req) /\ helper.req \in Request /\ request[helper.req] = "claimed"
    BY <1>1 DEF HelperOK, Driver
  <1>3. PICK r \in Request : r = run[d].goal /\ r = helper.req
    BY <1>2
  <1>4. MayStart(r) /\ Goes(d, "loop")
    BY <1>3 DEF Starts
  <1> DEFINE q == db.version < SchemaOf[TargetOf[r]]
  <1>5. PICK b \in BOOLEAN : b = q
    <2>1. CASE q
      <3>1. q = TRUE
        BY <2>1
      <3> QED BY <3>1
    <2>2. CASE ~q
      <3>1. q = FALSE
        BY <2>2
      <3> QED BY <3>1
    <2> QED BY <2>1, <2>2
  <1>6. journal' = [req |-> r, phase |-> "target_prepared",
                    previous |-> active, target |-> TargetOf[r],
                    required |-> b, invoked |-> FALSE, migrated |-> FALSE,
                    cause |-> None, trigger |-> None]
    BY <1>3, <1>5 DEF Starts
  <1> HIDE DEF q
  <1>7. /\ TargetOf[r] \in Slot /\ active \in Slot /\ "target_prepared" \in Phase
        /\ SchemaOf[TargetOf[r]] \in Nat /\ SchemaOf[active] \in Nat /\ db.version \in Nat
    BY <1>1, RequestAssumption DEF TypeOK, Slot, Phase
  <1>8. /\ journal' \in Journal /\ journal'.req = r /\ journal'.phase = "target_prepared"
        /\ journal'.previous = active /\ journal'.target = TargetOf[r] /\ journal'.required = b
        /\ ~journal'.invoked /\ ~journal'.migrated /\ journal'.cause = None
    BY <1>6, <1>7 DEF Journal
  <1>9. r # None
    BY RequestAssumption
  <1>10. Exists' /\ ~Settled'
    BY <1>8, <1>9 DEF Exists, NoJournal, Settled, Done
  <1>11. db.whole /\ migrator.at = "off"
    <2>1. db.whole
      BY <1>4 DEF MayStart
    <2> QED BY <1>1, <2>1 DEF DatabaseOK, Settled, Undone, Done
  <1>12. Moved(d) /\ run'[d].at = "loop" /\ run'[d].new = run[d].new
    BY <1>1, <1>4, Going
  <1>13. \A e \in Driver : ~Leases(e)
    BY DEF Free, Leases
  <1>14. OneLease'
    BY <1>12, <1>13 DEF OneLease, Leases, Moved
  <1>15. ASSUME NEW e \in Driver PROVE DriverOK(e)'
    <2>1. CASE e = d
      BY <1>10, <1>12, <2>1 DEF DriverOK, JournalAt
    <2>2. CASE e # d
      <3>1. run'[e] = run[e] /\ DriverOK(e) /\ ~Leases(e)
        BY <1>12, <1>13, <2>2 DEF Moved, ActivationInvariant
      <3> QED BY <3>1 DEF DriverOK, Leases
    <2> QED BY <2>1, <2>2
  <1>16. TypeOK'
    BY <1>1, <1>8, <1>12 DEF TypeOK, Moved
  <1>17. JournalOK'
    <2>1. evidence # r
      BY <1>2, <1>3 DEF Unused
    <2>2. /\ SchemaOf[active] <= db.version /\ db.version <= SchemaOf[TargetOf[r]]
      BY <1>1, <1>4, <1>7 DEF WritersOK, Fits, MayStart
    <2>3. ~b => db.version = SchemaOf[TargetOf[r]]
      <3>1. ~b => ~q
        BY <1>5
      <3> QED BY <1>7, <2>2, <3>1 DEF q
    <2> QED BY <1>8, <2>1, <2>2, <2>3 DEF JournalOK, Prepared
  <1>18. DatabaseOK' /\ MigratorOK' /\ PointerAgrees'
    BY <1>1, <1>8, <1>11 DEF DatabaseOK, MigratorOK, PointerAgrees
  <1>19. WritersOK'
    <2>1. Fits /\ Fits' = Fits
      BY <1>1 DEF WritersOK, Fits
    <2> QED BY <1>8, <2>1 DEF WritersOK
  <1>20. HelperOK'
    <2>1. \A p \in Request \ {r} : Unused(p) => Unused(p)'
      BY <1>8 DEF Unused
    <2>2. run'["operator"] = run["operator"]
      BY <1>2, <1>12 DEF Moved, Driver
    <2>3. request[r] = "claimed"
      BY <1>2, <1>3
    <2> QED BY <1>1, <1>2, <1>3, <1>12, <2>1, <2>2, <2>3 DEF HelperOK
  <1>21. RepairOK'
    <2>1. run["operator"].at \notin {"seen", "repair"}
      BY <1>1, <1>2 DEF RepairOK, Unused
    <2>2. run'["operator"] = run["operator"]
      BY <1>2, <1>12 DEF Moved, Driver
    <2> QED BY <2>1, <2>2 DEF RepairOK
  <1> QED BY <1>14, <1>15, <1>16, <1>17, <1>18, <1>19, <1>20, <1>21 DEF ActivationInvariant

LEMMA TakeLeaseStep ==
    ASSUME ActivationInvariant, NEW d \in Driver, TakeLease(d) PROVE ActivationInvariant'
  <1>1. /\ run[d].at = "waiting" /\ Free
        /\ UNCHANGED <<request, helper, active, projected, slots, writers, db, migrator, evidence>>
        /\ \/ Exists /\ Goes(d, "loop") /\ UNCHANGED <<journal, spent>>
           \/ Settled /\ run[d].new /\ Starts(d) /\ UNCHANGED spent
           \/ Ends(d) /\ (Fails \/ UNCHANGED spent) /\ UNCHANGED journal
    BY DEF TakeLease, control, disk, schema
  <1>2. CASE Exists /\ Goes(d, "loop") /\ UNCHANGED <<journal, spent>>
    BY <1>1, <1>2, LoopStep
  <1>3. CASE Settled /\ run[d].new /\ Starts(d) /\ UNCHANGED spent
    BY <1>1, <1>3, StartsStep
  <1>4. CASE Ends(d) /\ (Fails \/ UNCHANGED spent) /\ UNCHANGED journal
    <2>1. /\ TypeOK /\ HelperOK /\ RepairOK /\ PointerAgrees
          /\ \A q \in Request : Unused(q)' = Unused(q)
      BY <1>1, <1>4, ControlTyped DEF Unused
    <2>2. Moved(d) /\ run'[d].at = "off" /\ ~run'[d].new
      BY <1>4, <2>1, Ending
    <2>3. spent' \in [{"failures", "deaths", "restarts", "reboots"} -> Nat]
      BY <1>4, <2>1, Spending DEF Fails, TypeOK
    <2>4. TypeOK'
      BY <1>1, <1>4, <2>1, <2>2, <2>3 DEF TypeOK, Moved
    <2>5. \A e \in Driver : run'[e] = run[e] \/ (run'[e].at = "off" /\ ~run'[e].new)
      BY <2>2 DEF Moved
    <2>6. HelperOK'
      <3>1. "helper" \in Driver /\ "operator" \in Driver
        BY DEF Driver
      <3> QED BY <1>1, <2>1, <2>5, <3>1 DEF HelperOK
    <2>7. RepairOK' /\ PointerAgrees'
      <3>1. "operator" \in Driver
        BY DEF Driver
      <3> QED BY <1>1, <1>4, <2>1, <2>5, <3>1 DEF RepairOK, Selected, PointerAgrees, Exists
    <2>8. AllAside
      BY <1>1, <2>2, MovedAside DEF Leases
    <2> QED BY <1>1, <1>4, <2>4, <2>6, <2>7, <2>8, AsideStep
  <1> QED BY <1>1, <1>2, <1>3, <1>4

-----------------------------------------------------------------------------
(* A process dies, the helper or the host restarts.                        *)

\* Whoever is cut off is gone; the others stay.
CutOff == \A e \in Driver : run'[e] = run[e] \/ (run'[e].at = "off" /\ ~run'[e].new)

LEMMA OffTyped ==
    Off \in Run /\ Off.at = "off" /\ Off.new = FALSE /\ Off.ready = FALSE
  <1> QED BY DEF Off, Run, Place

LEMMA CutOffStep ==
    ASSUME ActivationInvariant, CutOff, run' \in [Driver -> Run],
           UNCHANGED <<request, journal, active, projected, slots, db, evidence>>,
           spent' \in [{"failures", "deaths", "restarts", "reboots"} -> Nat],
           migrator' \in {migrator, Stopped},
           migrator'.at = "begun" => \E e \in Driver : run'[e].at = "migrating",
           \/ helper' = helper
           \/ helper' = [at |-> "boot", req |-> None] /\ run'["helper"].at = "off",
           \/ writers' = writers
           \/ /\ writers' = [writers EXCEPT !.up = ~writers.fenced]
              /\ \A e \in Driver : run'[e].at = "off"
    PROVE  ActivationInvariant'
  <1>1. /\ TypeOK /\ OneLease /\ JournalOK /\ DatabaseOK /\ MigratorOK /\ WritersOK /\ HelperOK
        /\ RepairOK /\ PointerAgrees /\ Exists' = Exists /\ Settled' = Settled
    BY DEF ActivationInvariant, Exists, Settled
  <1>2. /\ migrator' \in Migrator
        /\ migrator' = migrator \/ migrator'.at = "off"
    BY <1>1 DEF TypeOK, Stopped, Migrator
  <1>3. /\ writers' \in [slot : Slot, up : BOOLEAN, fenced : BOOLEAN]
        /\ writers'.fenced = writers.fenced /\ writers'.slot = writers.slot
        /\ writers' = writers \/ (writers'.up <=> ~writers.fenced)
    <2>1. PICK u \in BOOLEAN : u <=> ~writers.fenced
      <3>1. CASE writers.fenced
        BY <3>1
      <3>2. CASE ~writers.fenced
        BY <3>2
      <3> QED BY <3>1, <3>2
    <2>2. writers.fenced \in BOOLEAN /\ writers \in [slot : Slot, up : BOOLEAN, fenced : BOOLEAN]
      BY <1>1 DEF TypeOK
    <2>3. u = ~writers.fenced
      BY <2>1, <2>2
    <2>4. writers' = writers \/ writers' = [writers EXCEPT !.up = u]
      BY <2>3
    <2>5. CASE writers' = writers
      BY <2>2, <2>5
    <2>6. CASE writers' = [writers EXCEPT !.up = u]
      BY <2>1, <2>2, <2>6
    <2> QED BY <2>4, <2>5, <2>6
  <1>4. helper' \in [at : {"boot", "idle", "resolve", "resolving", "prepare", "activate",
                           "publish"},
                     req : Request \cup {None}]
    BY <1>1 DEF TypeOK
  <1>5. TypeOK'
    <2>1. {active', projected'} \subseteq Slot /\ slots' \subseteq Slot
      BY <1>1 DEF TypeOK
    <2> QED BY <1>1, <1>2, <1>3, <1>4, <2>1 DEF TypeOK
  <1>6. OneLease'
    BY <1>1 DEF OneLease, Leases, CutOff
  <1>7. ASSUME NEW e \in Driver PROVE DriverOK(e)'
    <2>1. DriverOK(e)
      BY DEF ActivationInvariant
    <2>2. CASE run'[e].at = "off"
      BY <2>1, <2>2 DEF DriverOK, Leases, CutOff
    <2>3. CASE run'[e].at # "off"
      <3>1. run'[e] = run[e] /\ writers' = writers
        BY <2>3 DEF CutOff
      <3>2. JournalAt(run[e].at) => JournalAt(run[e].at)'
        BY <1>2, <3>1 DEF JournalAt
      <3> QED BY <1>1, <2>1, <3>1, <3>2 DEF DriverOK, Leases
    <2> QED BY <2>2, <2>3
  <1>8. JournalOK' /\ DatabaseOK' /\ PointerAgrees'
    BY <1>1, <1>2 DEF JournalOK, DatabaseOK, PointerAgrees
  <1>9. MigratorOK'
    <2>1. ~db.whole => ~writers.up /\ writers.fenced
      BY <1>1 DEF MigratorOK, DatabaseOK, WritersOK, Settled, Undone, Done
    <2> QED BY <1>1, <1>2, <1>3, <2>1 DEF MigratorOK
  <1>10. WritersOK'
    BY <1>1, <1>3 DEF WritersOK, Fits
  <1>11. HelperOK'
    <2>1. \A q \in Request : Unused(q)' = Unused(q)
      BY DEF Unused
    <2>2. /\ run'["helper"] = run["helper"] \/ (run'["helper"].at = "off" /\ ~run'["helper"].new)
          /\ run'["operator"] = run["operator"] \/ ~run'["operator"].new
      BY DEF CutOff, Driver
    <2>3. CASE helper' = helper
      BY <1>1, <2>1, <2>2, <2>3 DEF HelperOK
    <2>4. CASE helper' = [at |-> "boot", req |-> None] /\ run'["helper"].at = "off"
      <3>1. helper'.at = "boot"
        BY <2>4
      <3> QED BY <1>1, <2>1, <2>2, <2>4, <3>1 DEF HelperOK
    <2> QED BY <2>3, <2>4
  <1>12. RepairOK'
    <2>1. run'["operator"] = run["operator"] \/ run'["operator"].at = "off"
      BY DEF CutOff, Driver
    <2> QED BY <1>1, <2>1 DEF RepairOK, Selected
  <1> QED BY <1>5, <1>6, <1>7, <1>8, <1>9, <1>10, <1>11, <1>12 DEF ActivationInvariant

\* A migration that has only begun goes with its process.
LEMMA SurvivesLocked ==
    ASSUME ~Outlives, ActivationInvariant
    PROVE  Survives \in {migrator, Stopped} /\ Survives.at # "begun"
  <1> QED BY DEF Survives, Locked, Stopped

LEMMA EndingCutsOff ==
    ASSUME ~Outlives, ActivationInvariant, NEW d \in Driver, Ends(d),
           migrator' = IF run[d].at = "migrating" THEN Survives ELSE migrator
    PROVE  /\ CutOff /\ run' \in [Driver -> Run] /\ run'[d].at = "off"
           /\ migrator' \in {migrator, Stopped}
           /\ migrator'.at = "begun" => \E e \in Driver : run'[e].at = "migrating"
  <1>1. TypeOK /\ MigratorOK
    BY DEF ActivationInvariant
  <1>2. Moved(d) /\ run'[d].at = "off" /\ ~run'[d].new
    BY <1>1, Ending
  <1>3. migrator'.at = "begun" => \E e \in Driver : run'[e].at = "migrating"
    <2>1. CASE run[d].at = "migrating"
      BY <2>1, SurvivesLocked
    <2>2. CASE run[d].at # "migrating"
      BY <1>1, <1>2, <2>2, MigratingKept DEF Still
    <2> QED BY <2>1, <2>2
  <1> QED BY <1>2, <1>3, SurvivesLocked DEF Moved, CutOff

LEMMA DiesStep ==
    ASSUME ~Outlives, ActivationInvariant, NEW d \in Driver, Dies(d)
    PROVE  ActivationInvariant'
  <1>1. /\ UNCHANGED <<request, helper, journal, active, projected, slots, writers, db, evidence>>
        /\ Ends(d) /\ Spends("deaths")
        /\ migrator' = IF run[d].at = "migrating" THEN Survives ELSE migrator
    BY DEF Dies, control, disk
  <1>2. spent' \in [{"failures", "deaths", "restarts", "reboots"} -> Nat]
    BY <1>1, Spending DEF ActivationInvariant
  <1> QED BY <1>1, <1>2, EndingCutsOff, CutOffStep

LEMMA HelperRestartsStep ==
    ASSUME ~Outlives, ActivationInvariant, HelperRestarts PROVE ActivationInvariant'
  <1>1. /\ UNCHANGED <<request, journal, active, projected, slots, writers, db, evidence>>
        /\ helper' = [at |-> "boot", req |-> None]
        /\ Ends("helper") /\ Spends("restarts") /\ "helper" \in Driver
        /\ migrator' = IF run["helper"].at = "migrating" THEN Survives ELSE migrator
    BY DEF HelperRestarts, disk, Driver
  <1>2. spent' \in [{"failures", "deaths", "restarts", "reboots"} -> Nat]
    BY <1>1, Spending DEF ActivationInvariant
  <1> QED BY <1>1, <1>2, EndingCutsOff, CutOffStep

LEMMA HostRebootsStep ==
    ASSUME ActivationInvariant, HostReboots PROVE ActivationInvariant'
  <1>1. /\ UNCHANGED <<request, journal, active, projected, slots, db, evidence>>
        /\ helper' = [at |-> "boot", req |-> None] /\ Spends("reboots")
        /\ run' = [d \in Driver |-> Off] /\ migrator' = Stopped
        /\ writers' = [writers EXCEPT !.up = ~writers.fenced]
    BY DEF HostReboots, disk
  <1>2. spent' \in [{"failures", "deaths", "restarts", "reboots"} -> Nat]
    BY <1>1, Spending DEF ActivationInvariant
  <1>3. /\ run' \in [Driver -> Run] /\ CutOff /\ \A e \in Driver : run'[e].at = "off"
        /\ "helper" \in Driver
    BY <1>1, OffTyped DEF CutOff, Driver
  <1>4. migrator'.at # "begun"
    BY <1>1 DEF Stopped
  <1> QED BY <1>1, <1>2, <1>3, <1>4, CutOffStep

-----------------------------------------------------------------------------
(* The theorems.                                                           *)

LEMMA InvariantStart == Init => ActivationInvariant
  <1> SUFFICES ASSUME Init PROVE ActivationInvariant
    OBVIOUS
  <1> USE DEF Init
  <1>1. \A d \in Driver : run[d] = Off
    OBVIOUS
  <1>2. ~Exists /\ journal.req = None
    BY DEF Exists, NoJournal
  <1>3. /\ First \in Slot /\ SchemaOf[First] \in Nat
    BY RequestAssumption DEF Slot
  <1>4. TypeOK
    BY <1>3, OffTyped DEF TypeOK, Migrator, Stopped
  <1>5. OneLease /\ \A d \in Driver : DriverOK(d)
    BY <1>1, OffTyped DEF OneLease, DriverOK, Leases
  <1>6. JournalOK /\ DatabaseOK /\ PointerAgrees
    BY <1>2 DEF JournalOK, DatabaseOK, PointerAgrees, Stopped
  <1>7. MigratorOK
    BY DEF MigratorOK, Stopped
  <1>8. WritersOK
    BY <1>2, <1>3 DEF WritersOK, Fits
  <1>9. HelperOK /\ RepairOK
    BY <1>1, <1>2, OffTyped, RequestAssumption DEF HelperOK, RepairOK, Unused, Driver
  <1> QED BY <1>4, <1>5, <1>6, <1>7, <1>8, <1>9 DEF ActivationInvariant

LEMMA UnchangedStep ==
    ASSUME ActivationInvariant, UNCHANGED vars PROVE ActivationInvariant'
  <1>1. AllAside
    BY StayedAside DEF vars
  <1>2. TypeOK' /\ HelperOK' /\ RepairOK' /\ PointerAgrees'
    BY ControlTyped DEF vars, TypeOK, HelperOK, RepairOK, PointerAgrees, Unused, Selected, Exists
  <1> QED BY <1>1, <1>2, AsideStep DEF vars

LEMMA BridgeKeeps ==
    ASSUME ActivationInvariant, NEW d \in Driver, BridgeStep(d) PROVE ActivationInvariant'
  <1>1. CASE \/ BeginActivation(d) \/ Quiesce(d) \/ RecordInvoked(d) \/ RunMigration(d)
             \/ MigrationReturns(d) \/ SchemaPrepared(d) \/ SwitchPointer(d) \/ RecordSwitch(d)
    BY <1>1, BeginActivationStep, QuiesceStep, RecordInvokedStep, RunMigrationStep,
       MigrationReturnsStep, SchemaPreparedStep, SwitchPointerStep, RecordSwitchStep
  <1>2. CASE \/ StartTarget(d) \/ RecordVerified(d) \/ Commit(d) \/ ResumeDone(d)
             \/ ResumeRollback(d) \/ Unfence(d) \/ Project(d) \/ Clean(d)
    BY <1>2, StartTargetStep, RecordVerifiedStep, CommitStep, ResumeDoneStep, ResumeRollbackStep,
       UnfenceStep, ProjectStep, CleanStep
  <1>3. CASE \/ ProveDatabase(d) \/ TurnBack(d) \/ SwitchBack(d) \/ RestartPrevious(d)
             \/ RecordRollback(d)
    BY <1>3, ProveDatabaseStep, TurnBackStep, SwitchBackStep, RestartPreviousStep,
       RecordRollbackStep
  <1> QED BY <1>1, <1>2, <1>3 DEF BridgeStep

LEMMA InvariantKept ==
    ASSUME ~Outlives, ~Repairs, ActivationInvariant, [Next]_vars
    PROVE  ActivationInvariant'
  <1>1. CASE \E r \in Request : Claim(r)
    BY <1>1, ClaimStep
  <1>2. CASE HelperStep
    BY <1>2, ClaimAgainStep, HelperBootsStep, HelperResolvesStep, HelperResolvedStep,
       HelperPreparesStep, HelperPublishesStep DEF HelperStep
  <1>3. CASE OperatorResumes \/ SeePointer \/ ReadAuthority \/ RepairPointer
    BY <1>3, OperatorResumesStep, SeePointerStep, ReadAuthorityStep, RepairPointerStep
  <1>4. CASE \E d \in Driver : TakeLease(d) \/ BridgeStep(d) \/ Dies(d)
    BY <1>4, TakeLeaseStep, BridgeKeeps, DiesStep
  <1>5. CASE MigratorStep \/ MigratorFails
    BY <1>5, MigratorLocksStep, MigratorMutatesStep, MigratorCommitsStep, MigratorRecordsStep,
       MigratorFailsStep DEF MigratorStep
  <1>6. CASE HelperRestarts \/ HostReboots
    BY <1>6, HelperRestartsStep, HostRebootsStep
  <1>7. CASE UNCHANGED vars
    BY <1>7, UnchangedStep
  <1> QED BY <1>1, <1>2, <1>3, <1>4, <1>5, <1>6, <1>7 DEF Next

\* The variables keep their types, while a migration without the schema lock dies with
\* the process that started it, and while no reader that repairs the pointer meets a later
\* activation than it read of (the model says at Outlives and Repairs what happens else).
THEOREM TypeCorrect ==
    ASSUME ~Outlives, ~Repairs PROVE Spec => []TypeOK
  <1>1. Init => ActivationInvariant
    BY InvariantStart
  <1>2. ActivationInvariant /\ [Next]_vars => ActivationInvariant'
    BY InvariantKept
  <1>3. ActivationInvariant => TypeOK
    BY DEF ActivationInvariant
  <1> QED BY <1>1, <1>2, <1>3, PTL DEF Spec

\* However an activation is interrupted, taken up again by the helper or the operator and
\* turned back, and whatever its migration does meanwhile: the api and the recorder run
\* only on a whole database their release can use, and a journal that says completed or
\* failed_rolled_back says which slot is active.
THEOREM Safety ==
    ASSUME ~Outlives, ~Repairs PROVE Spec => []ActivationSafe
  <1>1. Init => ActivationInvariant
    BY InvariantStart
  <1>2. ActivationInvariant /\ [Next]_vars => ActivationInvariant'
    BY InvariantKept
  <1>3. ActivationInvariant => ActivationSafe
    BY DEF ActivationInvariant, ActivationSafe, SafeWriters, WritersOK, Fits
  <1> QED BY <1>1, <1>2, <1>3, PTL DEF Spec

-----------------------------------------------------------------------------
(* The first cause.                                                        *)

CauseKept ==
    Exists /\ journal.cause # None /\ journal'.req = journal.req => journal'.cause = journal.cause

LEMMA BlockingKeepsCause ==
    ASSUME TypeOK, Exists, journal.cause # None, NEW c, NEW t, journal' = Blocked(journal, c, t)
    PROVE  journal'.cause = journal.cause
  <1>1. journal \in Journal
    BY JournalTyped
  <1> DEFINE b == IF journal.trigger = None THEN t ELSE journal.trigger
  <1>2. journal' = [journal EXCEPT !.phase = "blocked", !.cause = journal.cause, !.trigger = b]
    BY DEF Blocked
  <1> HIDE DEF b
  <1> QED BY <1>1, <1>2 DEF Journal

LEMMA BridgeKeepsCause ==
    ASSUME ActivationInvariant, NEW d \in Driver, BridgeStep(d)
    PROVE  CauseKept
  <1> SUFFICES ASSUME Exists, journal.cause # None, journal'.req = journal.req
               PROVE  journal'.cause = journal.cause
    BY DEF CauseKept
  <1>1. TypeOK /\ journal \in Journal
        /\ journal.phase \in {"blocked", "rolling_back", "failed_rolled_back"}
    BY JournalTyped DEF ActivationInvariant, JournalOK
  <1>2. ASSUME NEW c, NEW t, Blocks(d, c, t) PROVE journal'.cause = journal.cause
    BY <1>1, <1>2, BlockingKeepsCause DEF Blocks
  <1>3. ASSUME NEW p, Moves(p) PROVE journal'.cause = journal.cause
    BY <1>1, <1>3 DEF Moves, Journal
  <1>4. ASSUME UNCHANGED journal PROVE journal'.cause = journal.cause
    BY <1>4
  <1>5. CASE BeginActivation(d)
    BY <1>2, <1>3, <1>5 DEF BeginActivation
  <1>6. CASE RecordInvoked(d)
    BY <1>1, <1>6 DEF RecordInvoked, Journal
  <1>7. CASE MigrationReturns(d)
    BY <1>1, <1>7 DEF MigrationReturns, Journal
  <1>8. CASE SchemaPrepared(d)
    BY <1>1, <1>8 DEF SchemaPrepared, In
  <1>9. CASE RecordSwitch(d) \/ RecordVerified(d)
    BY <1>3, <1>9 DEF RecordSwitch, RecordVerified
  <1>10. CASE StartTarget(d)
    BY <1>2, <1>10 DEF StartTarget
  <1>11. CASE Commit(d)
    BY <1>1, <1>11 DEF Commit, In
  <1>12. CASE ProveDatabase(d)
    BY <1>2, <1>12 DEF ProveDatabase
  <1>13. CASE TurnBack(d)
    BY <1>1, <1>13 DEF TurnBack, Journal
  <1>14. CASE SwitchBack(d) \/ RestartPrevious(d)
    BY <1>2, <1>14 DEF SwitchBack, RestartPrevious, RollbackFails
  <1>15. CASE RecordRollback(d)
    <2>1. CASE active = journal.previous
      <3>1. journal' = [journal EXCEPT !.phase = "failed_rolled_back", !.cause = journal.cause]
        BY <1>15, <2>1 DEF RecordRollback
      <3> QED BY <1>1, <3>1 DEF Journal
    <2>2. CASE active # journal.previous
      BY <1>2, <1>15, <2>2 DEF RecordRollback
    <2> QED BY <2>1, <2>2
  <1>16. CASE \/ Quiesce(d) \/ RunMigration(d) \/ SwitchPointer(d) \/ ResumeDone(d)
              \/ ResumeRollback(d) \/ Unfence(d) \/ Project(d) \/ Clean(d)
    BY <1>4, <1>16 DEF Quiesce, RunMigration, SwitchPointer, ResumeDone, ResumeRollback, Unfence,
       Project, Clean
  <1> QED BY <1>5, <1>6, <1>7, <1>8, <1>9, <1>10, <1>11, <1>12, <1>13, <1>14, <1>15, <1>16
          DEF BridgeStep

LEMMA StepKeepsCause ==
    ASSUME ActivationInvariant, [Next]_vars PROVE CauseKept
  <1>1. CASE \E d \in Driver : BridgeStep(d)
    BY <1>1, BridgeKeepsCause
  <1>2. CASE \E d \in Driver : TakeLease(d)
    <2>1. PICK d \in Driver : TakeLease(d)
      BY <1>2
    <2>2. CASE UNCHANGED journal
      BY <2>2 DEF CauseKept
    <2>3. CASE run[d].at = "waiting" /\ run[d].new /\ Starts(d)
      <3>1. HelperOK /\ (d = "helper" \/ d = "operator")
        BY DEF ActivationInvariant, Driver
      <3>2. Unused(run[d].goal)
        BY <2>3, <3>1 DEF HelperOK
      <3>3. journal'.req = run[d].goal
        BY <2>3 DEF Starts
      <3> QED BY <3>2, <3>3 DEF CauseKept, Unused
    <2> QED BY <2>1, <2>2, <2>3 DEF TakeLease
  <1>3. ASSUME \/ \E r \in Request : Claim(r)
               \/ HelperStep
               \/ OperatorResumes \/ SeePointer \/ ReadAuthority \/ RepairPointer
               \/ \E d \in Driver : Dies(d)
               \/ MigratorStep \/ MigratorFails
               \/ HelperRestarts \/ HostReboots \/ UNCHANGED vars
        PROVE  UNCHANGED journal
    BY <1>3 DEF Claim, HelperStep, ClaimAgain, HelperBoots, HelperResolves, HelperResolved,
       HelperPrepares, HelperPublishes, OperatorResumes, SeePointer, ReadAuthority, RepairPointer,
       Dies, MigratorStep, MigratorLocks, MigratorMutates, MigratorCommits, MigratorRecords,
       MigratorFails, HelperRestarts, HostReboots, vars
  <1>4. CASE UNCHANGED journal
    BY <1>4 DEF CauseKept
  <1> QED BY <1>1, <1>2, <1>3, <1>4 DEF Next

\* The journal keeps the first cause of a failed activation through all that fails after
\* it: turning back, being interrupted, being resumed, and being blocked again.
THEOREM CauseStays ==
    ASSUME ~Outlives, ~Repairs PROVE Spec => FirstCause
  <1>1. Init => ActivationInvariant
    BY InvariantStart
  <1>2. ActivationInvariant /\ [Next]_vars => ActivationInvariant'
    BY InvariantKept
  <1>3. ActivationInvariant /\ [Next]_vars =>
            [Exists /\ journal.cause # None /\ journal'.req = journal.req
             => journal'.cause = journal.cause]_vars
    BY StepKeepsCause DEF CauseKept
  <1> QED BY <1>1, <1>2, <1>3, PTL DEF Spec, FirstCause

-----------------------------------------------------------------------------
(***************************************************************************)
(* The update a user asks for (UpdateRequest, with the constants and       *)
(* variables that MCUpdates gives it): what is told of a request is true,  *)
(* and the activations only go forward (RequestsTruthful).                 *)
(*                                                                         *)
(* What the API keeps in memory matters to the guard of its admission alone *)
(* (RequestMemoryMoves); everything else is between the current request, its *)
(* answer and the activation in its name: what the answer says is what the *)
(* activation will come to (RequestFits), and what was told is fixed by both *)
(* (RequestToldOK).                                                        *)
(***************************************************************************)
\* An end x that is told of a request whose activation has come to p.
RequestFits(x, p) ==
    /\ x \in {"completed", "failed_rolled_back"} => p = x
    /\ x = "blocked" => p \in {"blocked", "failed_rolled_back"}

\* What the current request, its answer and its activation say of each other.
RequestCurrentOK ==
    LET c == current
        p == Requests!Projection(c.id)
        said == Requests!Published(c.id)
    IN  current # Nobody =>
          /\ IF c.state = "terminal" THEN c.status \in Requests!Final ELSE c.status = Nobody
          /\ c.id[1] \in admitted /\ c.id \in audit
          /\ c.state = "admitted" => said = Nobody /\ p = Nobody
          /\ said \in Requests!Untried => c.status \in Requests!Untried
          /\ c.status \in Requests!Untried => p = Nobody
          /\ c.status \in Requests!Ended => RequestFits(c.status, p)
          /\ said \in Requests!Ended => RequestFits(said, p)

\* What was told of it.
RequestToldOK ==
    /\ current = Nobody => told = Requests!Unheard
    /\ current # Nobody =>
          /\ told.begun = (Requests!Projection(current.id) # Nobody)
          /\ \A x \in told.ends :
                 IF x \in Requests!Ended THEN RequestFits(x, Requests!Projection(current.id))
                 ELSE current.state = "terminal" /\ current.status = x

\* Journal and answer are of submissions that were admitted.
RequestPastOK ==
    /\ activation # Nobody => activation.id[1] \in admitted
    /\ answer # Nobody => answer.id[1] \in admitted

\* The guard of the admission: no request is in progress between its two writes.
RequestGuardOK ==
    /\ \A s, q \in Submission : handler[s].at = "audited" /\ handler[q].at = "audited" => s = q
    /\ \A s \in Submission : handler[s].at = "audited" =>
           /\ s \notin admitted /\ <<s, handler[s].asks>> \in audit
           /\ current # Nobody => current.state = "terminal"
           /\ updater.at \in {"down", "idle"}

\* A handler that waits for its check has one.
RequestCheckOK ==
    \A s \in Submission : handler[s].at = "selecting" => checking # Nobody /\ checking.by = s

RequestWorkOK ==
    /\ updater.at = "leased" => current # Nobody
    /\ Requests!Working => /\ current # Nobody /\ current.id = updater.id
                  /\ current.state # "admitted" /\ current.status \notin Requests!Untried
    /\ updater.at \in {"ended", "published"} =>
           /\ updater.status \in Requests!Ended \cup {"failed"}
           /\ updater.status \in Requests!Ended =>
                  RequestFits(updater.status, Requests!Projection(updater.id))

RequestInvariant ==
    /\ Requests!TypeOK /\ RequestCurrentOK /\ RequestToldOK /\ RequestPastOK
    /\ RequestGuardOK /\ RequestCheckOK /\ RequestWorkOK /\ Requests!Forward

-----------------------------------------------------------------------------
(* What the steps have in common.                                          *)

\* The memory of the API: only the guard of the admission depends on it.
LEMMA RequestMemoryMoves ==
    ASSUME RequestInvariant, Requests!TypeOK', RequestCheckOK',
           \A s \in Submission : handler'[s].at = "audited" => handler'[s] = handler[s],
           UNCHANGED <<world, current, answer, activation, updater, audit, admitted, told>>
    PROVE  RequestInvariant'
  <1> USE DEF RequestInvariant
  <1>1. RequestCurrentOK' /\ RequestToldOK' /\ RequestPastOK' /\ RequestWorkOK' /\
            Requests!Forward'
    BY DEF RequestCurrentOK, RequestToldOK, RequestPastOK, RequestWorkOK, Requests!Working,
       Requests!Forward, Requests!Unfinished, Requests!Phase, Requests!Projection,
           Requests!Published
  <1>2. RequestGuardOK'
    BY DEF RequestGuardOK
  <1> QED BY <1>1, <1>2

\* What becomes of the current request when its state is read or it is cancelled.
RequestOutcomes(c) ==
    {Requests!Reconciled(c, late) : late \in BOOLEAN} \cup
    {Requests!End(Requests!Reconciled(c, late), "cancelled") :
         late \in {l \in BOOLEAN : Requests!Reconciled(c, l).state = "admitted"}}

\* Only a request in progress is settled, and as its answer says it was; one that was never
\* answered ends as if it had not been tried, and no activation is at work for it.
LEMMA RequestOutcoming ==
    ASSUME RequestInvariant, current # Nobody, NEW r \in RequestOutcomes(current)
    PROVE  /\ r \in Requests!Request /\ r.id = current.id
           /\ r = current \/ current.state # "terminal"
           /\ r # current => r.state = "terminal" /\ r.status \in Requests!Final
           /\ r # current /\ Requests!Published(r.id) \in Requests!Final =>
                  r.status = Requests!Published(r.id)
           /\ r # current /\ Requests!Published(r.id) \notin Requests!Final =>
                  /\ r.status \in Requests!Untried /\ Requests!Projection(r.id) = Nobody
                  /\ ~Requests!Working
  <1> USE SubmissionAssumption
  <1> DEFINE c == current
  <1>1. c \in Requests!Request /\ RequestCurrentOK /\ RequestWorkOK
    BY DEF RequestInvariant, Requests!TypeOK
  <1>2. \A st \in Requests!Final : Requests!End(c, st) \in Requests!Request /\
            Requests!End(c, st).id = c.id
                          /\ Requests!End(c, st).state = "terminal"
                          /\ Requests!End(c, st).status = st
    BY <1>1 DEF Requests!End, Requests!Request
  <1>3. Requests!Published(c.id) \in Requests!Final \cup {"running", Nobody}
    BY DEF Requests!Published, RequestInvariant, Requests!TypeOK, Requests!Answer
  <1>4. Requests!LeaseActive \/ ~Requests!Working
    BY DEF Requests!LeaseActive, Requests!Working
  <1>5. c.state = "admitted" => ~Requests!Working /\ Requests!Published(c.id) = Nobody /\
            Requests!Projection(c.id) = Nobody
    BY <1>1 DEF RequestWorkOK, RequestCurrentOK
  <1>6. \A late \in BOOLEAN :
           LET x == Requests!Reconciled(c, late)
           IN  \/ x = c
               \/ /\ c.state # "terminal" /\ Requests!Published(c.id) \in Requests!Final
                  /\ x = Requests!End(c, Requests!Published(c.id))
               \/ /\ c.state # "terminal" /\ Requests!Published(c.id) \notin Requests!Final /\
                         ~Requests!LeaseActive
                  /\ Requests!Projection(c.id) = Nobody
                  /\ x \in {Requests!End(c, "interrupted"), Requests!End(c, "unclaimed")}
    BY <1>1, <1>5 DEF Requests!Reconciled, Requests!Request
  <1> HIDE DEF c
  <1>7. ASSUME NEW late \in BOOLEAN, r = Requests!Reconciled(c, late)
        PROVE
            \/ r = c
            \/ c.state # "terminal" /\ Requests!Published(c.id) \in Requests!Final /\
                   r = Requests!End(c, Requests!Published(c.id))
            \/ /\ c.state # "terminal" /\ Requests!Published(c.id) \notin Requests!Final /\
                      ~Requests!Working
               /\ Requests!Projection(c.id) = Nobody /\
                      \E st \in Requests!Untried : r = Requests!End(c, st)
    BY <1>4, <1>6, <1>7 DEF Requests!Untried
  <1>8. ASSUME NEW late \in BOOLEAN, Requests!Reconciled(c, late).state = "admitted",
               r = Requests!End(Requests!Reconciled(c, late), "cancelled")
        PROVE  /\ c.state = "admitted" /\ r = Requests!End(c, "cancelled")
               /\ "cancelled" \in Requests!Untried
    <2>1. Requests!Reconciled(c, late) = c
      BY <1>2, <1>6, <1>8 DEF Requests!Final, Requests!Untried
    <2> QED BY <1>8, <2>1 DEF Requests!Untried
  <1>9. Requests!Untried \subseteq Requests!Final
    BY DEF Requests!Final
  <1>10. \/ r = c
         \/ c.state # "terminal" /\ Requests!Published(c.id) \in Requests!Final /\
                r = Requests!End(c, Requests!Published(c.id))
         \/ /\ c.state # "terminal" /\ Requests!Published(c.id) \notin Requests!Final /\
                   ~Requests!Working
            /\ Requests!Projection(c.id) = Nobody /\
                   \E st \in Requests!Untried : r = Requests!End(c, st)
    <2>1. \/ \E late \in BOOLEAN : r = Requests!Reconciled(c, late)
          \/ \E late \in BOOLEAN : /\ Requests!Reconciled(c, late).state = "admitted"
                                   /\ r = Requests!End(Requests!Reconciled(c, late), "cancelled")
      BY DEF RequestOutcomes, c
    <2>2. Nobody \notin Requests!Final
      OBVIOUS
    <2> QED BY <1>5, <1>7, <1>8, <2>1, <2>2
  <1> QED BY <1>1, <1>2, <1>9, <1>10 DEF c

\* Reading the state of the current request, told of or not, with what a handler does next.
LEMMA RequestReading ==
    ASSUME RequestInvariant, current # Nobody,
           NEW r \in RequestOutcomes(current), Requests!MarkTerminal(current, r),
           Requests!Tells(current') \/ UNCHANGED told,
           handler' \in [Submission -> Requests!Handler], RequestGuardOK', RequestCheckOK',
           audit \subseteq audit', audit' \subseteq Requests!Id,
           UNCHANGED <<world, snapshot, checking, activation, updater, admitted, upsets>>
    PROVE  RequestInvariant'
  <1> USE SubmissionAssumption
  <1> DEFINE p == Requests!Projection(current.id)
  <1>1. /\ r \in Requests!Request /\ r.id = current.id /\ current \in Requests!Request
        /\ r = current \/ current.state # "terminal"
        /\ r # current => r.state = "terminal" /\ r.status \in Requests!Final
        /\ r # current /\ Requests!Published(r.id) \in Requests!Final =>
               r.status = Requests!Published(r.id)
        /\ r # current /\ Requests!Published(r.id) \notin Requests!Final =>
               r.status \in Requests!Untried /\ Requests!Projection(r.id) = Nobody /\
                   ~Requests!Working
    BY RequestOutcoming DEF RequestInvariant, Requests!TypeOK
  <1>2. current' = r /\ current' # Nobody
    BY <1>1 DEF Requests!MarkTerminal
  <1>3. \A i : Requests!Projection(i)' = Requests!Projection(i)
    BY DEF Requests!Projection
  <1>4. /\ answer' \in Requests!Answer \cup {Nobody}
        /\ \/ answer' = answer /\ (r = current \/ Requests!Published(r.id) \in Requests!Final)
           \/ answer' = [id |-> r.id, status |-> r.status] /\ r # current
                /\ Requests!Published(r.id) \notin Requests!Final
    BY <1>1 DEF Requests!MarkTerminal, RequestInvariant, Requests!TypeOK, Requests!Answer,
       Requests!Request
  <1>5. Requests!Published(r.id)' = IF answer' = answer THEN Requests!Published(r.id) ELSE r.status
    <2>1. answer' # answer => answer' \in Requests!Answer /\ answer'.id = r.id /\
              answer'.status = r.status
      BY <1>1, <1>4 DEF Requests!Request, Requests!Answer
    <2>2. CASE answer' = answer
      BY <2>2 DEF Requests!Published
    <2>3. CASE answer' # answer
      BY <2>1, <2>3 DEF Requests!Published
    <2> QED BY <2>2, <2>3
  <1>6. told' \in [begun : BOOLEAN, ends : SUBSET Requests!Final] /\ told'.begun = told.begun
        /\ \A x \in told'.ends : x \in told.ends \/
               (x = Requests!StatusFor(r) /\ x \in Requests!Final)
    <2>1. told \in [begun : BOOLEAN, ends : SUBSET Requests!Final]
      BY DEF RequestInvariant, Requests!TypeOK
    <2>2. CASE Requests!Tells(r)
      BY <2>1, <2>2 DEF Requests!Tells
    <2>3. CASE UNCHANGED told
      BY <2>1, <2>3
    <2> QED BY <1>2, <2>2, <2>3
  <1>7. Requests!TypeOK'
    BY <1>1, <1>2, <1>4, <1>6 DEF Requests!TypeOK, RequestInvariant
  <1>8. RequestCurrentOK'
    <2>1. RequestCurrentOK
      BY DEF RequestInvariant
    <2>2. CASE r = current
      BY <1>1, <1>2, <1>3, <1>4, <1>5, <2>1, <2>2 DEF RequestCurrentOK
    <2>3. CASE r # current
      <3>1. /\ current.id[1] \in admitted /\ current.id \in audit /\ current.status = Nobody
            /\ Requests!Published(r.id) \notin Requests!Untried
            /\ Requests!Published(r.id) \in Requests!Ended =>
                   RequestFits(Requests!Published(r.id), p)
        BY <1>1, <2>1, <2>3 DEF RequestCurrentOK, Requests!Untried, Requests!Final
      <3>2. Requests!Ended \cap Requests!Untried = {} /\
                Requests!Ended \cup Requests!Untried \subseteq Requests!Final
        BY DEF Requests!Ended, Requests!Untried, Requests!Final
      <3> QED BY <1>1, <1>2, <1>3, <1>4, <1>5, <2>3, <3>1, <3>2 DEF RequestCurrentOK
    <2> QED BY <2>2, <2>3
  <1>9. RequestToldOK'
    <2>1. RequestToldOK /\ RequestCurrentOK
      BY DEF RequestInvariant
    <2>2. ASSUME NEW x \in told.ends
          PROVE  IF x \in Requests!Ended THEN RequestFits(x, p)
                 ELSE r.state = "terminal" /\ r.status = x
      BY <1>1, <2>1 DEF RequestToldOK
    <2>3. ASSUME NEW x, x = Requests!StatusFor(r), x \in Requests!Final
          PROVE  IF x \in Requests!Ended THEN RequestFits(x, p)
                 ELSE r.state = "terminal" /\ r.status = x
      <3>1. x = CASE r.state = "admitted" -> "queued"
                  [] r.state = "claimed" ->
                       IF p # Nobody /\ ~Requests!LeaseActive THEN p ELSE "running"
                  [] r.state = "terminal" -> IF p \in Requests!Ended THEN p ELSE r.status
        BY <1>1, <1>3, <2>3 DEF Requests!StatusFor, Requests!LeaseActive
      <3>2. "queued" \notin Requests!Final /\ "running" \notin Requests!Final
        BY DEF Requests!Final, Requests!Ended, Requests!Untried
      <3>3. p \in Requests!Ended \cup {"prepared", "activated", Nobody}
        BY DEF Requests!Projection, RequestInvariant, Requests!TypeOK, Requests!Activation
      <3>4. p \in Requests!Final => p \in Requests!Ended
        BY <3>3 DEF Requests!Final, Requests!Ended, Requests!Untried
      <3>5. \A y \in Requests!Ended : RequestFits(y, y)
        BY DEF RequestFits, Requests!Ended
      <3>6. r.status \in Requests!Ended /\ r.state = "terminal" => RequestFits(r.status, p)
        BY <1>2, <1>3, <1>1, <1>8 DEF RequestCurrentOK
      <3>7. r.state \in {"admitted", "claimed", "terminal"}
        BY <1>1 DEF Requests!Request
      <3>8. CASE r.state = "terminal"
        BY <3>1, <3>5, <3>6, <3>8, <2>3
      <3>9. CASE r.state = "claimed"
        BY <3>1, <3>2, <3>4, <3>5, <3>9, <2>3
      <3> QED BY <3>1, <3>2, <3>7, <3>8, <3>9, <2>3
    <2>4. told'.begun = (Requests!Projection(r.id)' # Nobody)
      BY <1>1, <1>3, <1>6, <2>1 DEF RequestToldOK
    <2> QED BY <1>1, <1>2, <1>3, <1>6, <2>2, <2>3, <2>4 DEF RequestToldOK
  <1>10. RequestPastOK'
    <2>1. RequestPastOK /\ RequestCurrentOK
      BY DEF RequestInvariant
    <2> QED BY <1>1, <1>4, <2>1 DEF RequestPastOK, RequestCurrentOK
  <1>11. RequestGuardOK' /\ RequestCheckOK'
    OBVIOUS
  <1>12. RequestWorkOK'
    <2>1. RequestWorkOK /\ RequestCurrentOK
      BY DEF RequestInvariant
    <2>2. Requests!Working => r.status \notin Requests!Untried /\ r.state # "admitted"
      BY <1>1, <2>1 DEF RequestWorkOK, RequestCurrentOK, Requests!Untried, Requests!Final
    <2> QED BY <1>1, <1>2, <1>3, <2>1, <2>2 DEF RequestWorkOK, Requests!Working
  <1>13. Requests!Forward'
    BY DEF RequestInvariant, Requests!Forward, Requests!Unfinished, Requests!Phase
  <1> QED BY <1>7, <1>8, <1>9, <1>10, <1>11, <1>12, <1>13 DEF RequestInvariant

\* The activation goes on: where it stands changes, and whose it is does not.
LEMMA RequestDriving ==
    ASSUME RequestInvariant, Requests!Unfinished \/ Requests!Blocked, Requests!TypeOK',
           NEW phase \in Requests!Ended \cup {"activated"}, Requests!Blocked =>
               phase \in {"failed_rolled_back", "blocked"},
           activation' = [activation EXCEPT !.phase = phase],
           \/ phase = "activated"
           \/ world' = IF phase = "completed" THEN [world EXCEPT !.installed = activation.id[2]]
                       ELSE world,
           phase = "activated" => UNCHANGED world,
           \/ updater' = updater
           \/ /\ updater'.at = "ended" /\ updater'.id = updater.id /\ updater'.status = "failed"
              /\ Requests!Working,
           RequestCheckOK', \A s \in Submission : handler'[s].at = "audited" =>
               handler'[s] = handler[s],
           UNCHANGED <<current, answer, audit, admitted, told>>
    PROVE  RequestInvariant'
  <1> USE SubmissionAssumption
  <1>1. /\ activation \in Requests!Activation /\ activation' \in Requests!Activation
        /\ activation'.id = activation.id
        /\ activation'.phase = phase /\ activation # Nobody /\ activation' # Nobody
    BY DEF Requests!Unfinished, Requests!Blocked, Requests!Phase, RequestInvariant,
       Requests!TypeOK, Requests!Activation, Requests!Ended, Requests!Final
  <1>2. \A i : /\ Requests!Projection(i) = Nobody <=> Requests!Projection(i)' = Nobody
              /\ \A x \in Requests!Ended : RequestFits(x, Requests!Projection(i)) =>
                     RequestFits(x, Requests!Projection(i)')
    <2>1. SUFFICES ASSUME NEW i
                   PROVE  /\ Requests!Projection(i) = Nobody <=> Requests!Projection(i)' = Nobody
                          /\ \A x \in Requests!Ended :
                                 RequestFits(x, Requests!Projection(i)) =>
                                     RequestFits(x, Requests!Projection(i)')
      OBVIOUS
    <2>2. /\ Requests!Projection(i) = (IF activation.id = i THEN activation.phase ELSE Nobody)
          /\ Requests!Projection(i)' = (IF activation.id = i THEN phase ELSE Nobody)
      BY <1>1 DEF Requests!Projection
    <2>3. /\ activation.phase \in {"prepared", "activated", "blocked"}
          /\ activation.phase = "blocked" => phase \in {"failed_rolled_back", "blocked"}
      BY <1>1 DEF Requests!Unfinished, Requests!Blocked, Requests!Phase
    <2>4. activation.phase # Nobody /\ phase # Nobody
      BY <1>1 DEF Requests!Activation, Requests!Final
    <2> QED BY <2>2, <2>3, <2>4 DEF RequestFits, Requests!Ended
  <1>3. \A i : Requests!Published(i)' = Requests!Published(i)
    BY DEF Requests!Published
  <1>4. RequestCurrentOK'
    BY <1>2, <1>3 DEF RequestCurrentOK, RequestInvariant
  <1>5. RequestToldOK'
    BY <1>2 DEF RequestToldOK, RequestInvariant
  <1>6. RequestPastOK'
    BY <1>1 DEF RequestPastOK, RequestInvariant
  <1>7. RequestGuardOK'
    BY DEF RequestGuardOK, RequestInvariant, Requests!Working
  <1>8. RequestWorkOK'
    <2>1. RequestWorkOK
      BY DEF RequestInvariant
    <2>2. CASE updater' = updater
      BY <1>2, <2>1, <2>2 DEF RequestWorkOK, Requests!Working
    <2>3. CASE updater' # updater
      BY <2>1, <2>3 DEF RequestWorkOK, Requests!Working, Requests!Ended
    <2> QED BY <2>2, <2>3
  <1>9. Requests!Forward'
    <2>1. CASE phase = "activated"
      <3>1. Requests!Unfinished
        BY <2>1 DEF Requests!Ended
      <3> QED BY <1>1, <2>1, <3>1 DEF Requests!Forward, RequestInvariant, Requests!Unfinished,
                 Requests!Phase
    <2>2. CASE phase # "activated"
      BY <1>1, <2>2 DEF Requests!Forward, Requests!Unfinished, Requests!Phase, Requests!Ended
    <2> QED BY <2>1, <2>2
  <1> QED BY <1>4, <1>5, <1>6, <1>7, <1>8, <1>9 DEF RequestInvariant

\* A restart of the API forgets what its handlers were about.
LEMMA RequestReplaced ==
    ASSUME Requests!ApiReplaced
    PROVE  /\ snapshot' \in Requests!Candidate \cup {Nobody}
           /\ checking' \in Requests!Checking \cup {Nobody}
           /\ handler' \in [Submission -> Requests!Handler]
           /\ \A s \in Submission : handler'[s].at = "audited" => handler'[s] = handler[s]
           /\ RequestCheckOK'
  <1>1. Requests!Idle \in Requests!Handler /\ Requests!Idle.at = "idle"
    BY SubmissionAssumption DEF Requests!Idle, Requests!Handler, Requests!Release
  <1> QED BY <1>1 DEF Requests!ApiReplaced, RequestCheckOK

\* An end of the helper's work, and a step of it.
LEMMA RequestFailing ==
    ASSUME updater \in Requests!Updater, Requests!Fails
    PROVE  /\ updater' \in Requests!Updater /\ updater'.at = "ended"
           /\ updater'.id = updater.id /\ updater'.status = "failed"
  <1>1. updater' = [updater EXCEPT !.at = "ended", !.status = "failed"]
    BY DEF Requests!Fails, Requests!Finishes
  <1>2. "failed" \in Requests!Final
    BY DEF Requests!Final
  <1> QED BY <1>1, <1>2 DEF Requests!Updater

\* The activation converges on an end, forward, back or blocked.
LEMMA RequestSettlesDrives ==
    ASSUME RequestInvariant, Requests!Unfinished \/ Requests!Blocked,
           NEW phase \in Requests!Converged(Requests!Phase), Requests!Settles(phase),
           \/ UNCHANGED updater
           \/ updater.at = "ready" /\ Requests!Fails,
           UNCHANGED <<current, answer>>, UNCHANGED Requests!records, upsets' \in 0..MaxUpsets
    PROVE  RequestInvariant'
  <1> USE SubmissionAssumption
  <1>1. phase \in Requests!Ended /\ (Requests!Blocked =>
            phase \in {"failed_rolled_back", "blocked"})
    BY DEF Requests!Converged, Requests!Ended, Requests!Blocked
  <1>2. activation \in Requests!Activation /\ activation # Nobody
    BY DEF Requests!Unfinished, Requests!Blocked, Requests!Phase, RequestInvariant,
       Requests!TypeOK, Requests!Ended, Requests!Final
  <1>3. activation' \in Requests!Activation
    BY <1>1, <1>2 DEF Requests!Settles, Requests!Activation
  <1>4. world' \in [published : Requests!Release, installed : Requests!Release]
    <2>1. activation.id[2] \in Requests!Release
      BY <1>2 DEF Requests!Activation, Requests!Id
    <2> QED BY <2>1 DEF Requests!Settles, RequestInvariant, Requests!TypeOK
  <1>5. /\ snapshot' \in Requests!Candidate \cup {Nobody}
        /\ checking' \in Requests!Checking \cup {Nobody}
        /\ handler' \in [Submission -> Requests!Handler]
        /\ \A s \in Submission : handler'[s].at = "audited" => handler'[s] = handler[s]
        /\ RequestCheckOK'
    <2>1. CASE Requests!ApiReplaced
      BY <2>1, RequestReplaced
    <2>2. CASE UNCHANGED Requests!memory
      BY <2>2 DEF Requests!memory, RequestInvariant, Requests!TypeOK, RequestCheckOK
    <2> QED BY <2>1, <2>2 DEF Requests!Settles
  <1>6. /\ updater' \in Requests!Updater
        /\ \/ updater' = updater
           \/ /\ updater'.at = "ended" /\ updater'.id = updater.id /\ updater'.status = "failed"
              /\ Requests!Working
    <2>1. updater \in Requests!Updater
      BY DEF RequestInvariant, Requests!TypeOK
    <2>2. CASE updater.at = "ready" /\ Requests!Fails
      BY <2>1, <2>2, RequestFailing DEF Requests!Working
    <2> QED BY <2>1, <2>2
  <1>7. Requests!TypeOK'
    BY <1>3, <1>4, <1>5, <1>6 DEF Requests!TypeOK, RequestInvariant, Requests!records
  <1> QED BY <1>1, <1>5, <1>6, <1>7, RequestDriving DEF Requests!Settles, Requests!Ended,
             Requests!records

-----------------------------------------------------------------------------
(* The check and the submission.                                           *)

LEMMA RequestPublishKeeps == ASSUME RequestInvariant, Requests!Publish PROVE RequestInvariant'
  <1>1. world'.installed = world.installed /\ Requests!TypeOK'
    BY DEF Requests!Publish, Requests!memory, Requests!files, Requests!records, RequestInvariant,
       Requests!TypeOK
  <1> USE DEF Requests!Publish, Requests!memory, Requests!files, Requests!records, RequestInvariant
  <1>2. RequestCurrentOK' /\ RequestToldOK' /\ RequestPastOK' /\ RequestWorkOK' /\
            RequestGuardOK' /\ RequestCheckOK'
    BY DEF RequestCurrentOK, RequestToldOK, RequestPastOK, RequestWorkOK, RequestGuardOK,
       RequestCheckOK, Requests!Working, Requests!Projection, Requests!Published
  <1>3. Requests!Forward'
    BY <1>1 DEF Requests!Forward, Requests!Unfinished, Requests!Phase
  <1> QED BY <1>1, <1>2, <1>3

\* What a check leaves in the memory.
LEMMA RequestStores ==
    ASSUME RequestInvariant, NEW found \in Requests!Release, NEW base \in Requests!Release,
           (Requests!Store(found, base) /\ Requests!Calm) \/ Requests!CheckFails
    PROVE  snapshot' \in Requests!Candidate \cup {Nobody} /\ upsets' \in 0..MaxUpsets
  <1> USE SubmissionAssumption
  <1>1. [target |-> found, base |-> base, fresh |-> TRUE] \in Requests!Candidate
    BY DEF Requests!Candidate
  <1>2. snapshot' \in Requests!Candidate \cup {Nobody}
    BY <1>1 DEF Requests!Store, Requests!CheckFails, RequestInvariant, Requests!TypeOK
  <1>3. upsets' \in 0..MaxUpsets
    BY DEF Requests!Calm, Requests!CheckFails, Requests!Mishap, RequestInvariant, Requests!TypeOK
  <1> QED BY <1>2, <1>3

LEMMA RequestCheckKeeps == ASSUME RequestInvariant, Requests!Check PROVE RequestInvariant'
  <1> USE SubmissionAssumption
  <1>1. /\ UNCHANGED <<world, handler, updater>> /\ UNCHANGED Requests!files
        /\ UNCHANGED Requests!records
    BY DEF Requests!Check
  <1>2. CASE Requests!BeginCheck(Requests!Ui) /\ UNCHANGED snapshot /\ Requests!Calm
    <2>1. checking = Nobody /\ checking' \in Requests!Checking
      BY <1>2 DEF Requests!BeginCheck, Requests!Checking, RequestInvariant, Requests!TypeOK
    <2>2. Requests!TypeOK' /\ RequestCheckOK'
      BY <1>1, <1>2, <2>1 DEF Requests!Calm, Requests!files, Requests!records, RequestInvariant,
         Requests!TypeOK, RequestCheckOK
    <2> QED BY <1>1, <2>2, RequestMemoryMoves DEF Requests!files, Requests!records
  <1>3. CASE /\ checking # Nobody /\ checking.by = Requests!Ui /\ checking' = Nobody
             /\ (Requests!Store(world.published, checking.base) /\ Requests!Calm) \/
                    Requests!CheckFails
    <2>1. checking.base \in Requests!Release /\ world.published \in Requests!Release
      BY <1>3 DEF RequestInvariant, Requests!TypeOK, Requests!Checking
    <2>2. snapshot' \in Requests!Candidate \cup {Nobody} /\ upsets' \in 0..MaxUpsets
      BY <1>3, <2>1, RequestStores
    <2>3. Requests!TypeOK' /\ RequestCheckOK'
      BY <1>1, <1>3, <2>2 DEF Requests!files, Requests!records, RequestInvariant, Requests!TypeOK,
         RequestCheckOK
    <2> QED BY <1>1, <2>3, RequestMemoryMoves DEF Requests!files, Requests!records
  <1> QED BY <1>2, <1>3 DEF Requests!Check

LEMMA RequestAgesKeeps == ASSUME RequestInvariant, Requests!Ages PROVE RequestInvariant'
  <1>1. snapshot' \in Requests!Candidate
    BY DEF Requests!Ages, RequestInvariant, Requests!TypeOK, Requests!Candidate
  <1>2. Requests!TypeOK' /\ RequestCheckOK'
    BY <1>1 DEF Requests!Ages, Requests!files, Requests!records, RequestInvariant,
       Requests!TypeOK, RequestCheckOK
  <1> QED BY <1>2, RequestMemoryMoves DEF Requests!Ages, Requests!files, Requests!records

LEMMA RequestSelectKeeps ==
    ASSUME RequestInvariant, NEW s \in Submission, NEW r \in Requests!Release,
           Requests!Select(s, r)
    PROVE  RequestInvariant'
  <1>1. checking' \in Requests!Checking \cup {Nobody}
    BY DEF Requests!Select, Requests!BeginCheck, Requests!Checking, RequestInvariant,
       Requests!TypeOK
  <1>2. \E at \in {"selected", "selecting"} :
            handler' = [handler EXCEPT ![s] = [at |-> at, asks |-> r]]
    BY DEF Requests!Select
  <1>3. /\ handler' \in [Submission -> Requests!Handler]
        /\ \A q \in Submission : handler'[q].at = "audited" => handler'[q] = handler[q]
    BY <1>2 DEF RequestInvariant, Requests!TypeOK, Requests!Handler
  <1>4. /\ UNCHANGED <<world, snapshot, updater, upsets>> /\ UNCHANGED Requests!files
        /\ UNCHANGED Requests!records
    BY DEF Requests!Select
  <1>5. Requests!TypeOK'
    BY <1>1, <1>3, <1>4 DEF Requests!files, Requests!records, RequestInvariant, Requests!TypeOK
  <1>6. RequestCheckOK'
    <2>1. CASE /\ handler' = [handler EXCEPT ![s] = [at |-> "selected", asks |-> r]]
               /\ UNCHANGED checking
      BY <2>1 DEF RequestCheckOK, RequestInvariant, Requests!TypeOK
    <2>2. CASE /\ Requests!BeginCheck(s)
               /\ handler' = [handler EXCEPT ![s] = [at |-> "selecting", asks |-> r]]
      <3>1. /\ \A q \in Submission : handler[q].at # "selecting"
            /\ checking' # Nobody /\ checking'.by = s
        BY <2>2, SubmissionAssumption DEF Requests!BeginCheck, RequestCheckOK, RequestInvariant,
           Requests!TypeOK, Requests!Checking
      <3> QED BY <2>2, <3>1 DEF RequestCheckOK, RequestInvariant, Requests!TypeOK
    <2> QED BY <2>1, <2>2 DEF Requests!Select
  <1> QED BY <1>3, <1>4, <1>5, <1>6, RequestMemoryMoves DEF Requests!files, Requests!records

LEMMA RequestSelectCheckedKeeps ==
    ASSUME RequestInvariant, NEW s \in Submission, Requests!SelectChecked(s)
    PROVE  RequestInvariant'
  <1> USE SubmissionAssumption
  <1>1. /\ checking' = Nobody /\ UNCHANGED <<world, updater>> /\ UNCHANGED Requests!files
        /\ UNCHANGED Requests!records /\ handler[s].at = "selecting"
        /\ Requests!Goes(s, "selected") \/ Requests!Answers(s)
    BY DEF Requests!SelectChecked
  <1>2. checking.base \in Requests!Release /\ checking.by = s /\
            world.published \in Requests!Release
    BY <1>1 DEF RequestInvariant, Requests!TypeOK, RequestCheckOK, Requests!Checking
  <1>3. snapshot' \in Requests!Candidate \cup {Nobody} /\ upsets' \in 0..MaxUpsets
    BY <1>2, RequestStores DEF Requests!SelectChecked
  <1>4. /\ handler' \in [Submission -> Requests!Handler]
        /\ handler'[s].at \in {"selected", "idle"}
        /\ \A q \in Submission : q # s => handler'[q] = handler[q]
    BY <1>1 DEF Requests!Goes, Requests!Answers, Requests!Idle, Requests!Release,
       RequestInvariant, Requests!TypeOK, Requests!Handler
  <1>5. RequestCheckOK'
    BY <1>2, <1>4 DEF RequestInvariant, RequestCheckOK
  <1>6. Requests!TypeOK'
    BY <1>1, <1>3, <1>4 DEF Requests!files, Requests!records, RequestInvariant, Requests!TypeOK
  <1> QED BY <1>1, <1>4, <1>5, <1>6, RequestMemoryMoves DEF Requests!files, Requests!records

LEMMA RequestReadKeeps ==
    ASSUME RequestInvariant, Requests!ReadStatus \/ Requests!Cancel
    PROVE RequestInvariant'
  <1>1. /\ Requests!GuardFree /\ current # Nobody /\ Requests!Tells(current')
        /\ UNCHANGED Requests!memory
        /\ UNCHANGED <<world, activation, updater, audit, admitted, upsets>>
    BY DEF Requests!ReadStatus, Requests!Cancel
  <1>2. PICK r \in RequestOutcomes(current) : Requests!MarkTerminal(current, r)
    BY DEF Requests!ReadStatus, Requests!Cancel, RequestOutcomes
  <1>3. RequestGuardOK' /\ RequestCheckOK'
    BY <1>1 DEF Requests!GuardFree, RequestGuardOK, RequestCheckOK, Requests!memory,
       RequestInvariant
  <1>4. handler' \in [Submission -> Requests!Handler] /\ audit' \subseteq Requests!Id /\
            audit \subseteq audit'
    BY <1>1 DEF Requests!memory, RequestInvariant, Requests!TypeOK
  <1> QED BY <1>1, <1>2, <1>3, <1>4, RequestReading DEF Requests!memory

LEMMA RequestAdmitKeeps ==
    ASSUME RequestInvariant, NEW s \in Submission, Requests!Admit(s)
    PROVE  RequestInvariant'
  <1> USE SubmissionAssumption
  <1>1. /\ Requests!GuardFree /\ handler[s].at = "selected"
        /\ UNCHANGED <<world, snapshot, checking, activation, updater, admitted, upsets>>
        /\ Requests!Tells(current') \/ UNCHANGED told
        /\ \/ Requests!Answers(s) /\ UNCHANGED audit
           \/ /\ ~Requests!Busy(current') /\ s \notin admitted /\ UNCHANGED told
              /\ Requests!Goes(s, "audited") /\ audit' = audit \cup {<<s, handler[s].asks>>}
    BY DEF Requests!Admit
  <1>2. /\ audit' \subseteq Requests!Id /\ audit \subseteq audit'
        /\ handler' \in [Submission -> Requests!Handler]
        /\ \A q \in Submission : q # s => handler'[q] = handler[q]
        /\ \/ handler'[s].at = "idle"
           \/ /\ handler'[s].at = "audited" /\ ~Requests!Busy(current') /\ s \notin admitted
              /\ <<s, handler'[s].asks>> \in audit'
    BY <1>1 DEF Requests!Goes, Requests!Answers, Requests!Idle, Requests!Release,
       RequestInvariant, Requests!TypeOK, Requests!Handler, Requests!Id
  <1>3. RequestGuardOK'
    BY <1>1, <1>2 DEF Requests!GuardFree, RequestGuardOK, Requests!Busy, Requests!LeaseActive,
       RequestInvariant, Requests!TypeOK, Requests!Updater
  <1>4. RequestCheckOK'
    BY <1>1, <1>2 DEF RequestCheckOK, RequestInvariant
  <1>5. CASE current # Nobody
    <2>1. PICK r \in RequestOutcomes(current) : Requests!MarkTerminal(current, r)
      BY <1>5 DEF Requests!Admit, RequestOutcomes
    <2> QED BY <1>1, <1>2, <1>3, <1>4, <1>5, <2>1, RequestReading
  <1>6. CASE current = Nobody
    <2>1. UNCHANGED <<current, answer, told>>
      BY <1>6 DEF Requests!Admit, Requests!Replays
    <2>2. RequestCurrentOK' /\ RequestToldOK' /\ RequestPastOK' /\ RequestWorkOK' /\
              Requests!Forward'
      BY <1>1, <1>6, <2>1 DEF RequestCurrentOK, RequestToldOK, RequestPastOK, RequestWorkOK,
         Requests!Working, Requests!Forward, Requests!Unfinished,
         Requests!Phase, Requests!Projection, Requests!Published, RequestInvariant
    <2>3. Requests!TypeOK'
      BY <1>1, <1>2, <2>1 DEF Requests!TypeOK, RequestInvariant
    <2> QED BY <1>3, <1>4, <2>2, <2>3 DEF RequestInvariant
  <1> QED BY <1>5, <1>6

LEMMA RequestWriteKeeps ==
    ASSUME RequestInvariant, NEW s \in Submission, Requests!WriteRequest(s)
    PROVE  RequestInvariant'
  <1> USE SubmissionAssumption
  <1>0. PICK i : i = <<s, handler[s].asks>>
    OBVIOUS
  <1>1. /\ handler[s].at = "audited" /\ handler[s].asks \in Requests!Release
        /\ current' = [id |-> i, state |-> "admitted", status |-> Nobody]
        /\ admitted' = admitted \cup {s} /\ told' = Requests!Unheard /\ Requests!Answers(s)
        /\ UNCHANGED <<world, snapshot, checking, answer, activation, updater, audit, upsets>>
    BY <1>0 DEF Requests!WriteRequest, RequestInvariant, Requests!TypeOK, Requests!Handler
  <1>2. /\ s \notin admitted /\ i \in audit /\ updater.at \in {"down", "idle"}
        /\ \A q \in Submission : handler[q].at = "audited" => q = s
        /\ RequestPastOK
    BY <1>0, <1>1 DEF RequestInvariant, RequestGuardOK
  <1>3. i \in Requests!Id /\ i[1] = s /\ current' \in Requests!Request /\ current' # Nobody
    BY <1>0, <1>1 DEF Requests!Id, Requests!Request
  <1>4. Requests!Projection(i)' = Nobody /\ Requests!Published(i)' = Nobody
    BY <1>1, <1>2, <1>3 DEF RequestPastOK, Requests!Projection, Requests!Published
  <1>5. /\ handler' \in [Submission -> Requests!Handler] /\ handler'[s].at = "idle"
        /\ \A q \in Submission : q # s => handler'[q] = handler[q]
    BY <1>1 DEF Requests!Answers, Requests!Idle, Requests!Release, RequestInvariant,
       Requests!TypeOK, Requests!Handler
  <1>6. Requests!TypeOK'
    BY <1>1, <1>3, <1>5 DEF RequestInvariant, Requests!TypeOK, Requests!Unheard
  <1>7. RequestCurrentOK'
    <2>1. Nobody \notin Requests!Untried /\ Nobody \notin Requests!Ended
      BY DEF Requests!Final
    <2>2. /\ current'.id = i /\ current'.state = "admitted" /\ current'.status = Nobody
      BY <1>1
    <2>3. i[1] \in admitted' /\ i \in audit'
      BY <1>1, <1>2, <1>3
    <2>4. Requests!Projection(current.id)' = Nobody /\ Requests!Published(current.id)' = Nobody
      BY <1>4, <2>2
    <2> QED BY <2>1, <2>2, <2>3, <2>4 DEF RequestCurrentOK
  <1>8. RequestToldOK'
    <2>1. told' = Requests!Unheard /\ current'.id = i
      BY <1>1
    <2>2. told'.begun = FALSE /\ told'.ends = {}
      BY <2>1 DEF Requests!Unheard
    <2> QED BY <1>3, <1>4, <2>1, <2>2 DEF RequestToldOK
  <1>9. RequestPastOK'
    BY <1>1, <1>2 DEF RequestPastOK
  <1>10. RequestGuardOK' /\ RequestCheckOK'
    BY <1>1, <1>2, <1>5 DEF RequestGuardOK, RequestCheckOK, RequestInvariant
  <1>11. RequestWorkOK' /\ Requests!Forward'
    BY <1>1, <1>2 DEF RequestWorkOK, Requests!Working, Requests!Forward, Requests!Unfinished,
       Requests!Phase, RequestInvariant
  <1> QED BY <1>6, <1>7, <1>8, <1>9, <1>10, <1>11 DEF RequestInvariant

LEMMA RequestRestartKeeps == ASSUME RequestInvariant, Requests!ApiRestarts PROVE RequestInvariant'
  <1>1. Requests!TypeOK'
    BY RequestReplaced, SubmissionAssumption DEF Requests!ApiRestarts, Requests!Mishap,
       Requests!files, Requests!records, RequestInvariant, Requests!TypeOK
  <1> QED BY <1>1, RequestReplaced, RequestMemoryMoves DEF Requests!ApiRestarts, Requests!files,
             Requests!records

-----------------------------------------------------------------------------
(* The helper.                                                             *)

\* What the helper does by itself.
LEMMA RequestHelperMoves ==
    ASSUME RequestInvariant, updater' \in Requests!Updater, RequestWorkOK',
           upsets' \in 0..MaxUpsets,
           updater'.at \in {"down", "idle"} \/ \A s \in Submission : handler[s].at # "audited",
           UNCHANGED world, UNCHANGED Requests!memory, UNCHANGED Requests!files,
               UNCHANGED Requests!records
    PROVE  RequestInvariant'
  <1> USE DEF RequestInvariant, Requests!memory, Requests!files, Requests!records
  <1>1. Requests!TypeOK'
    BY DEF Requests!TypeOK
  <1>2. RequestCurrentOK' /\ RequestToldOK' /\ RequestPastOK' /\ RequestCheckOK' /\
            Requests!Forward'
    BY DEF RequestCurrentOK, RequestToldOK, RequestPastOK, RequestCheckOK, Requests!Forward,
       Requests!Unfinished, Requests!Phase, Requests!Projection, Requests!Published
  <1>3. RequestGuardOK'
    BY DEF RequestGuardOK
  <1> QED BY <1>1, <1>2, <1>3

\* Nobody is between the two writes of the admission while the helper works.
LEMMA RequestNoneAudited ==
    ASSUME RequestInvariant, updater.at \notin {"down", "idle"}, NEW s \in Submission
    PROVE  handler[s].at # "audited"
  BY DEF RequestInvariant, RequestGuardOK

LEMMA RequestAcquireKeeps ==
    ASSUME RequestInvariant, Requests!AcquireLease, Requests!Calm, UNCHANGED Requests!memory,
           UNCHANGED Requests!records
    PROVE  RequestInvariant'
  <1>1. /\ updater' \in Requests!Updater /\ updater'.at = "leased" /\ UNCHANGED world
        /\ UNCHANGED Requests!files
        /\ current # Nobody /\ current.state # "terminal"
    BY DEF Requests!AcquireLease, Requests!Moves, RequestInvariant, Requests!TypeOK,
       Requests!Updater
  <1>2. \A s \in Submission : handler[s].at # "audited"
    BY <1>1 DEF RequestInvariant, RequestGuardOK
  <1>3. RequestWorkOK' /\ upsets' \in 0..MaxUpsets
    BY <1>1 DEF RequestWorkOK, Requests!Working, Requests!files, Requests!Calm, RequestInvariant,
       Requests!TypeOK
  <1> QED BY <1>1, <1>2, <1>3, RequestHelperMoves

\* The current request goes on with its helper, and its answer may with it.
LEMMA RequestCurrentMoves ==
    ASSUME RequestInvariant, current # Nobody, NEW c \in Requests!Request, c.id = current.id,
           current' = c,
           updater' \in Requests!Updater, RequestWorkOK',
           answer' \in Requests!Answer \cup {Nobody}, answer' = answer \/ answer'.id = current.id,
           IF c.state = "terminal" THEN c.status \in Requests!Final ELSE c.status = Nobody,
           c = current \/ current.state # "terminal",
           c.state = "admitted" => c = current /\ answer' = answer,
           Requests!Published(c.id)' \in Requests!Untried => c.status \in Requests!Untried,
           c.status \in Requests!Untried => Requests!Projection(c.id) = Nobody,
           c.status \in Requests!Ended => RequestFits(c.status, Requests!Projection(c.id)),
           Requests!Published(c.id)' \in Requests!Ended =>
               RequestFits(Requests!Published(c.id)', Requests!Projection(c.id)),
           updater.at \notin {"down", "idle"},
           UNCHANGED <<world, activation, upsets>>, UNCHANGED Requests!memory,
               UNCHANGED Requests!records
    PROVE  RequestInvariant'
  <1> USE SubmissionAssumption DEF RequestInvariant, Requests!memory, Requests!records
  <1>1. \A i : Requests!Projection(i)' = Requests!Projection(i)
    BY DEF Requests!Projection
  <1>2. Requests!TypeOK' /\ current' # Nobody
    BY DEF Requests!TypeOK
  <1>3. RequestCurrentOK'
    <2>1. c.id[1] \in admitted /\ c.id \in audit
      BY DEF RequestCurrentOK
    <2>2. c.state = "admitted" => Requests!Published(c.id)' = Nobody /\
              Requests!Projection(c.id) = Nobody
      BY DEF RequestCurrentOK, Requests!Published
    <2> QED BY <1>1, <2>1, <2>2 DEF RequestCurrentOK
  <1>4. RequestToldOK'
    BY <1>1, <1>2 DEF RequestToldOK
  <1>5. RequestPastOK'
    BY <1>2 DEF RequestPastOK, RequestCurrentOK
  <1>6. RequestGuardOK' /\ RequestCheckOK' /\ Requests!Forward'
    BY RequestNoneAudited DEF RequestGuardOK, RequestCheckOK, Requests!Forward,
       Requests!Unfinished, Requests!Phase
  <1> QED BY <1>2, <1>3, <1>4, <1>5, <1>6

LEMMA RequestClaimKeeps ==
    ASSUME RequestInvariant, Requests!Claim, Requests!Calm, UNCHANGED Requests!memory,
           UNCHANGED Requests!records
    PROVE  RequestInvariant'
  <1> USE SubmissionAssumption
  <1>1. /\ updater.at = "leased" /\ current # Nobody /\ current \in Requests!Request
        /\ UNCHANGED <<world, activation, upsets>> /\ RequestCurrentOK
        /\ answer \in Requests!Answer \cup {Nobody} /\ updater \in Requests!Updater
        /\ upsets \in 0..MaxUpsets
    BY DEF Requests!Claim, Requests!Calm, RequestInvariant, RequestWorkOK, Requests!TypeOK
  <1>2. Requests!NoUpdate \in Requests!Updater
    BY DEF Requests!NoUpdate, Requests!Updater
  <1>3. CASE Requests!Leaves /\ UNCHANGED <<current, answer>>
    <2>1. RequestWorkOK' /\ updater' \in Requests!Updater /\ updater'.at = "idle"
      BY <1>2, <1>3 DEF Requests!Leaves, Requests!NoUpdate, RequestWorkOK, Requests!Working
    <2> QED BY <1>1, <1>3, <2>1, RequestHelperMoves DEF Requests!files
  <1>4. CASE /\ current.state = "claimed"
             /\ updater' = [updater EXCEPT !.at = "resuming", !.id = current.id]
             /\ UNCHANGED <<current, answer>>
    <2>1. updater' \in Requests!Updater /\ updater'.at = "resuming" /\ updater'.id = current.id
      BY <1>1, <1>4 DEF Requests!Updater, Requests!Request
    <2>2. current.status = Nobody /\ Nobody \notin Requests!Untried
      BY <1>1, <1>4 DEF RequestCurrentOK, Requests!Final
    <2>3. RequestWorkOK'
      BY <1>1, <1>4, <2>1, <2>2 DEF RequestWorkOK, Requests!Working
    <2> QED BY <1>1, <1>4, <2>1, <2>3, RequestNoneAudited, RequestHelperMoves DEF Requests!files
  <1>5. CASE /\ current.state = "claimed" /\ Requests!Projection(current.id) = Nobody
             /\ answer' = [id |-> current.id, status |-> "interrupted"]
             /\ current' = Requests!End(current, "interrupted")
             /\ Requests!Leaves
    <2>1. /\ "interrupted" \in Requests!Untried /\ "interrupted" \in Requests!Final
          /\ "interrupted" \notin Requests!Ended
      BY DEF Requests!Untried, Requests!Final, Requests!Ended
    <2>2. /\ current' \in Requests!Request /\ current'.id = current.id
          /\ current'.state = "terminal"
          /\ current'.status = "interrupted"
      BY <1>1, <1>5, <2>1 DEF Requests!End, Requests!Request
    <2>3. answer' \in Requests!Answer /\ answer'.id = current.id /\ answer'.status = "interrupted"
      BY <1>1, <1>5, <2>1 DEF Requests!Answer, Requests!Request
    <2>4. Requests!Published(current.id)' = "interrupted"
      BY <2>2, <2>3 DEF Requests!Published
    <2>5. RequestWorkOK' /\ updater' \in Requests!Updater
      BY <1>2, <1>5 DEF Requests!Leaves, Requests!NoUpdate, RequestWorkOK, Requests!Working
    <2> QED BY <1>1, <1>5, <2>1, <2>2, <2>3, <2>4, <2>5, RequestCurrentMoves
  <1>6. CASE /\ current.state = "admitted"
             /\ current' = [current EXCEPT !.state = "claimed"]
             /\ updater' = [updater EXCEPT !.at = "claiming", !.id = current.id]
             /\ UNCHANGED answer
    <2>1. /\ current' \in Requests!Request /\ current'.id = current.id
          /\ current'.state = "claimed"
          /\ current'.status = Nobody
      BY <1>1, <1>6 DEF Requests!Request, RequestCurrentOK
    <2>2. updater' \in Requests!Updater /\ updater'.at = "claiming" /\ updater'.id = current.id
      BY <1>1, <1>6 DEF Requests!Updater, Requests!Request
    <2>3. Nobody \notin Requests!Untried /\ Nobody \notin Requests!Ended
      BY DEF Requests!Final
    <2>4. Requests!Published(current.id)' = Nobody
      BY <1>1, <1>6, <2>1 DEF RequestCurrentOK, Requests!Published
    <2>5. RequestWorkOK'
      BY <1>1, <2>1, <2>2, <2>3 DEF RequestWorkOK, Requests!Working
    <2> QED BY <1>1, <1>6, <2>1, <2>2, <2>3, <2>4, <2>5, RequestCurrentMoves
  <1> QED BY <1>1, <1>3, <1>4, <1>5, <1>6 DEF Requests!Claim, Requests!Request

LEMMA RequestClaimedKeeps ==
    ASSUME RequestInvariant, Requests!Claimed, Requests!Calm, UNCHANGED Requests!memory,
           UNCHANGED Requests!records
    PROVE  RequestInvariant'
  <1> USE SubmissionAssumption
  <1>1. /\ updater.at = "claiming" /\ current # Nobody /\ current \in Requests!Request
        /\ current.id = updater.id /\ current.state # "admitted"
        /\ current.status \notin Requests!Untried
        /\ UNCHANGED <<world, current, activation, upsets>> /\ RequestCurrentOK
        /\ answer' = [id |-> updater.id, status |-> "running"] /\ Requests!Moves("ready")
    BY DEF Requests!Claimed, Requests!Calm, RequestInvariant, RequestWorkOK, Requests!Working,
       Requests!TypeOK
  <1>2. updater' \in Requests!Updater /\ updater'.at = "ready" /\ updater'.id = current.id
    BY <1>1 DEF Requests!Moves, RequestInvariant, Requests!TypeOK, Requests!Updater
  <1>3. /\ answer' \in Requests!Answer /\ answer'.id = current.id
        /\ Requests!Published(current.id)' = "running"
    BY <1>1 DEF Requests!Answer, Requests!Request, Requests!Published
  <1>4. "running" \notin Requests!Untried /\ "running" \notin Requests!Ended
    BY DEF Requests!Untried, Requests!Ended
  <1>5. RequestWorkOK'
    BY <1>1, <1>2 DEF RequestWorkOK, Requests!Working
  <1> QED BY <1>1, <1>2, <1>3, <1>4, <1>5, RequestCurrentMoves DEF RequestCurrentOK

LEMMA RequestStatusKeeps ==
    ASSUME RequestInvariant, Requests!PublishStatus, Requests!Calm, UNCHANGED Requests!memory,
           UNCHANGED Requests!records
    PROVE  RequestInvariant'
  <1> USE SubmissionAssumption
  <1>1. /\ updater.at = "ended" /\ current # Nobody /\ current \in Requests!Request
        /\ current.id = updater.id /\ current.state # "admitted"
        /\ current.status \notin Requests!Untried
        /\ updater.status \in Requests!Ended \cup {"failed"}
        /\ updater.status \in Requests!Ended =>
               RequestFits(updater.status, Requests!Projection(updater.id))
        /\ UNCHANGED <<world, current, activation, upsets>> /\ RequestCurrentOK
        /\ answer' = [id |-> updater.id, status |-> updater.status] /\ Requests!Moves("published")
    BY DEF Requests!PublishStatus, Requests!Calm, RequestInvariant, RequestWorkOK,
       Requests!Working, Requests!TypeOK
  <1>2. /\ updater' \in Requests!Updater /\ updater'.at = "published" /\ updater'.id = current.id
        /\ updater'.status = updater.status
    BY <1>1 DEF Requests!Moves, RequestInvariant, Requests!TypeOK, Requests!Updater
  <1>3. updater.status \in Requests!Final /\ updater.status \notin Requests!Untried
    BY <1>1 DEF Requests!Final, Requests!Ended, Requests!Untried
  <1>4. /\ answer' \in Requests!Answer /\ answer'.id = current.id
        /\ Requests!Published(current.id)' = updater.status
    BY <1>1, <1>3 DEF Requests!Answer, Requests!Request, Requests!Published
  <1>5. RequestWorkOK'
    <2>1. Requests!Projection(updater.id)' = Requests!Projection(updater.id)
      BY <1>1, <1>2 DEF Requests!Projection
    <2> QED BY <1>1, <1>2, <2>1 DEF RequestWorkOK, Requests!Working
  <1> QED BY <1>1, <1>2, <1>3, <1>4, <1>5, RequestCurrentMoves DEF RequestCurrentOK

LEMMA RequestTerminalKeeps ==
    ASSUME RequestInvariant, Requests!PublishTerminal, Requests!Calm, UNCHANGED Requests!memory,
           UNCHANGED Requests!records
    PROVE  RequestInvariant'
  <1> USE SubmissionAssumption
  <1>1. /\ updater.at = "published" /\ current # Nobody /\ current \in Requests!Request
        /\ current.id = updater.id /\ current.state # "admitted"
        /\ current.status \notin Requests!Untried
        /\ updater.status \in Requests!Ended \cup {"failed"}
        /\ updater.status \in Requests!Ended =>
               RequestFits(updater.status, Requests!Projection(updater.id))
        /\ UNCHANGED <<world, answer, activation, upsets>> /\ RequestCurrentOK
        /\ Requests!Leaves /\ answer \in Requests!Answer \cup {Nobody}
        /\ current' = IF current.state = "claimed" THEN Requests!End(current, updater.status)
                      ELSE current
    BY DEF Requests!PublishTerminal, Requests!Calm, RequestInvariant, RequestWorkOK,
       Requests!Working, Requests!TypeOK
  <1>2. updater' \in Requests!Updater /\ RequestWorkOK'
    BY <1>1 DEF Requests!Leaves, Requests!NoUpdate, Requests!Updater, RequestWorkOK,
       Requests!Working
  <1>3. updater.status \in Requests!Final /\ updater.status \notin Requests!Untried
    BY <1>1 DEF Requests!Final, Requests!Ended, Requests!Untried
  <1>4. Requests!Published(current.id)' = Requests!Published(current.id)
    BY <1>1 DEF Requests!Published, Requests!End
  <1>5. CASE current.state = "claimed"
    <2>1. /\ current' \in Requests!Request /\ current'.id = current.id
          /\ current'.state = "terminal"
          /\ current'.status = updater.status
      BY <1>1, <1>3, <1>5 DEF Requests!End, Requests!Request
    <2>2. Requests!Published(current.id) \notin Requests!Untried
      BY <1>1 DEF RequestCurrentOK
    <2> QED BY <1>1, <1>2, <1>3, <1>4, <1>5, <2>1, <2>2, RequestCurrentMoves DEF RequestCurrentOK
  <1>6. CASE current.state # "claimed"
    BY <1>1, <1>2, <1>4, <1>6, RequestCurrentMoves DEF RequestCurrentOK
  <1> QED BY <1>5, <1>6

LEMMA RequestResolveKeeps == ASSUME RequestInvariant, Requests!Resolve PROVE RequestInvariant'
  <1> USE SubmissionAssumption
  <1>1. updater.at = "ready" /\ UNCHANGED <<current, answer>> /\ UNCHANGED Requests!records
    BY DEF Requests!Resolve
  <1>2. CASE /\ Requests!Unfinished \/ Requests!Blocked
             /\ \E phase \in Requests!Converged(Requests!Phase) :
                  /\ Requests!Settles(phase)
                  /\ IF phase = "blocked" THEN Requests!Fails ELSE UNCHANGED updater
             /\ Requests!Calm
    <2>1. PICK phase \in Requests!Converged(Requests!Phase) :
             Requests!Settles(phase) /\ (IF phase = "blocked" THEN Requests!Fails
             ELSE UNCHANGED updater)
      BY <1>2
    <2> QED BY <1>1, <1>2, <2>1, RequestSettlesDrives DEF Requests!Calm, RequestInvariant,
               Requests!TypeOK
  <1>3. CASE /\ Requests!Moves("child") \/ Requests!Fails
             /\ Requests!Calm \/ Requests!Mishap
             /\ UNCHANGED <<world, activation>> /\ UNCHANGED Requests!memory
    <2>1. /\ updater' \in Requests!Updater /\ updater'.id = updater.id
          /\ \/ updater'.at = "child"
             \/ updater'.at = "ended" /\ updater'.status = "failed"
      <3>1. updater \in Requests!Updater
        BY DEF RequestInvariant, Requests!TypeOK
      <3>2. CASE Requests!Moves("child")
        BY <3>1, <3>2 DEF Requests!Moves, Requests!Updater
      <3> QED BY <1>3, <3>1, <3>2, RequestFailing
    <2>2. RequestWorkOK'
      BY <1>1, <2>1 DEF RequestWorkOK, Requests!Working, RequestInvariant, Requests!Ended
    <2>3. upsets' \in 0..MaxUpsets
      BY <1>3 DEF Requests!Calm, Requests!Mishap, RequestInvariant, Requests!TypeOK
    <2> QED BY <1>1, <1>3, <2>1, <2>2, <2>3, RequestNoneAudited, RequestHelperMoves
               DEF Requests!files
  <1> QED BY <1>2, <1>3 DEF Requests!Resolve

\* The journal that is begun is the current request's.
LEMMA RequestPrepareKeeps == ASSUME RequestInvariant, Requests!Prepare PROVE RequestInvariant'
  <1> USE SubmissionAssumption
  <1>1. /\ updater.at = "child" /\ Requests!Projection(updater.id) = Nobody
        /\ current # Nobody /\ current \in Requests!Request /\ current.id = updater.id
        /\ current.state # "admitted" /\ current.status \notin Requests!Untried
        /\ UNCHANGED <<world, current, answer, audit, admitted>> /\ UNCHANGED Requests!memory
    BY DEF Requests!Prepare, RequestInvariant, RequestWorkOK, Requests!Working, Requests!TypeOK
  <1>2. CASE /\ Requests!InLineage(updater.id[2]) /\ UNCHANGED updater /\ Requests!Calm
             /\ activation' = [id |-> updater.id, phase |-> "prepared"]
             /\ told' = [told EXCEPT !.begun = TRUE]
    <2>1. /\ activation' \in Requests!Activation /\ activation' # Nobody
          /\ activation'.id = current.id
          /\ activation'.phase = "prepared"
      BY <1>1, <1>2 DEF Requests!Activation, Requests!Request
    <2>2. told' \in [begun : BOOLEAN, ends : SUBSET Requests!Final] /\ told'.begun /\
              told'.ends = told.ends
      BY <1>2 DEF RequestInvariant, Requests!TypeOK
    <2>3. Requests!Projection(current.id)' = "prepared" /\
              Requests!Published(current.id)' = Requests!Published(current.id)
      BY <1>1, <2>1 DEF Requests!Projection, Requests!Published
    <2>4. \A x \in Requests!Ended : ~RequestFits(x, Nobody)
      BY DEF RequestFits, Requests!Ended, Requests!Final
    <2>5. Requests!TypeOK'
      BY <1>1, <1>2, <2>1, <2>2 DEF Requests!TypeOK, RequestInvariant, Requests!memory,
         Requests!Calm
    <2>6. RequestCurrentOK'
      BY <1>1, <2>3, <2>4 DEF RequestCurrentOK, RequestInvariant
    <2>7. RequestToldOK'
      BY <1>1, <2>2, <2>3, <2>4 DEF RequestToldOK, RequestInvariant
    <2>8. RequestPastOK'
      BY <1>1, <2>1 DEF RequestPastOK, RequestCurrentOK, RequestInvariant
    <2>9. RequestGuardOK' /\ RequestCheckOK' /\ RequestWorkOK'
      BY <1>1, <1>2 DEF RequestGuardOK, RequestCheckOK, RequestWorkOK, Requests!Working,
         RequestInvariant, Requests!memory
    <2>10. Requests!Forward'
      BY <1>1, <1>2, <2>1 DEF Requests!Forward, Requests!InLineage, RequestInvariant,
         Requests!TypeOK, Requests!Release, Requests!Request, Requests!Id
    <2> QED BY <2>5, <2>6, <2>7, <2>8, <2>9, <2>10 DEF RequestInvariant
  <1>3. CASE Requests!Fails /\ (Requests!Calm \/ Requests!Mishap) /\ UNCHANGED <<activation, told>>
    <2>1. /\ updater' \in Requests!Updater /\ updater'.id = updater.id
          /\ updater'.at = "ended" /\ updater'.status = "failed"
      BY <1>3 DEF Requests!Fails, Requests!Finishes, RequestInvariant, Requests!TypeOK,
         Requests!Updater, Requests!Final
    <2>2. RequestWorkOK'
      BY <1>1, <2>1 DEF RequestWorkOK, Requests!Working, RequestInvariant, Requests!Ended
    <2>3. upsets' \in 0..MaxUpsets
      BY <1>3 DEF Requests!Calm, Requests!Mishap, RequestInvariant, Requests!TypeOK
    <2> QED BY <1>1, <1>3, <2>1, <2>2, <2>3, RequestNoneAudited, RequestHelperMoves
               DEF Requests!files, Requests!records
  <1> QED BY <1>2, <1>3 DEF Requests!Prepare

LEMMA RequestActivateKeeps == ASSUME RequestInvariant, Requests!Activate PROVE RequestInvariant'
  <1> USE SubmissionAssumption
  <1>1. /\ Requests!Phase = "prepared" /\ activation \in Requests!Activation
        /\ activation' = [activation EXCEPT !.phase = "activated"] /\ Requests!ApiReplaced
        /\ UNCHANGED <<world, current, answer, updater, upsets>> /\ UNCHANGED Requests!records
    BY DEF Requests!Activate, Requests!Calm, Requests!Phase, RequestInvariant, Requests!TypeOK
  <1>2. activation' \in Requests!Activation
    BY <1>1 DEF Requests!Activation
  <1>3. Requests!TypeOK'
    BY <1>1, <1>2, RequestReplaced DEF Requests!TypeOK, RequestInvariant, Requests!records
  <1>4. Requests!Unfinished /\ ~Requests!Blocked
    BY <1>1 DEF Requests!Unfinished, Requests!Blocked
  <1> QED BY <1>1, <1>3, <1>4, RequestReplaced, RequestDriving DEF Requests!records

LEMMA RequestCommitKeeps == ASSUME RequestInvariant, Requests!Commit PROVE RequestInvariant'
  <1> USE SubmissionAssumption
  <1>1. /\ Requests!Phase = "activated" /\ activation \in Requests!Activation
        /\ activation.id = updater.id
        /\ activation' = [activation EXCEPT !.phase = "completed"]
        /\ world' = [world EXCEPT !.installed = activation.id[2]]
        /\ UNCHANGED <<current, answer, updater, upsets>> /\ UNCHANGED Requests!memory
        /\ UNCHANGED Requests!records
    BY DEF Requests!Commit, Requests!Calm, Requests!Drives, Requests!Projection, Requests!Phase,
       RequestInvariant, Requests!TypeOK
  <1>2. activation' \in Requests!Activation /\
            world' \in [published : Requests!Release, installed : Requests!Release]
    BY <1>1 DEF Requests!Activation, Requests!Id, Requests!Ended, RequestInvariant, Requests!TypeOK
  <1>3. Requests!TypeOK' /\ RequestCheckOK'
    BY <1>1, <1>2 DEF Requests!TypeOK, RequestCheckOK, RequestInvariant, Requests!records,
       Requests!memory
  <1>4. Requests!Unfinished /\ ~Requests!Blocked
    BY <1>1 DEF Requests!Unfinished, Requests!Blocked
  <1> QED BY <1>1, <1>3, <1>4, RequestDriving DEF Requests!records, Requests!memory, Requests!Ended

LEMMA RequestRollBackKeeps == ASSUME RequestInvariant, Requests!RollBack PROVE RequestInvariant'
  <1> USE SubmissionAssumption
  <1>1. PICK phase \in {"failed_rolled_back", "blocked"} : Requests!Settles(phase)
    BY DEF Requests!RollBack
  <1>2. /\ Requests!Unfinished /\ upsets' \in 0..MaxUpsets
        /\ UNCHANGED <<current, answer, updater>> /\ UNCHANGED Requests!records
    BY DEF Requests!RollBack, Requests!Mishap, RequestInvariant, Requests!TypeOK
  <1> QED BY <1>1, <1>2, RequestSettlesDrives DEF Requests!Converged, Requests!Ended,
             Requests!Unfinished

LEMMA RequestOutcomeKeeps == ASSUME RequestInvariant, Requests!Outcome PROVE RequestInvariant'
  <1> USE SubmissionAssumption
  <1>1. /\ updater.at \in {"child", "resuming"} /\ Requests!Projection(updater.id) = Requests!Phase
        /\ UNCHANGED <<world, current, answer, activation>> /\ UNCHANGED Requests!memory
        /\ UNCHANGED Requests!records
    BY DEF Requests!Outcome, Requests!Drives, Requests!Projection, Requests!Phase
  <1>2. PICK end \in Requests!Ended \cup {"failed"} :
            Requests!Finishes(end) /\ (end \in Requests!Ended => end = Requests!Phase)
    BY DEF Requests!Outcome, Requests!Fails, Requests!Ended
  <1>3. /\ updater' \in Requests!Updater /\ updater'.id = updater.id
        /\ updater'.at = "ended" /\ updater'.status = end
    BY <1>2 DEF Requests!Finishes, RequestInvariant, Requests!TypeOK, Requests!Updater,
       Requests!Final
  <1>4. RequestWorkOK'
    <2>1. end \in Requests!Ended => RequestFits(end, Requests!Projection(updater.id))
      BY <1>1, <1>2 DEF RequestFits, Requests!Ended
    <2>2. Requests!Projection(updater.id)' = Requests!Projection(updater.id)
      BY <1>1, <1>3 DEF Requests!Projection
    <2> QED BY <1>1, <1>3, <2>1, <2>2 DEF RequestWorkOK, Requests!Working, RequestInvariant
  <1>5. upsets' \in 0..MaxUpsets
    BY DEF Requests!Outcome, Requests!Calm, Requests!Mishap, RequestInvariant, Requests!TypeOK
  <1> QED BY <1>1, <1>3, <1>4, <1>5, RequestNoneAudited, RequestHelperMoves DEF Requests!files

LEMMA RequestHelperStepKeeps ==
    ASSUME RequestInvariant, Requests!HelperStep
    PROVE RequestInvariant'
  BY RequestAcquireKeeps, RequestClaimKeeps, RequestClaimedKeeps, RequestStatusKeeps,
     RequestTerminalKeeps, RequestResolveKeeps,
     RequestPrepareKeeps, RequestActivateKeeps, RequestCommitKeeps, RequestRollBackKeeps,
     RequestOutcomeKeeps DEF Requests!HelperStep

LEMMA RequestDeathKeeps ==
    ASSUME RequestInvariant, Requests!HelperDies \/ Requests!HelperBoots
    PROVE RequestInvariant'
  <1> USE SubmissionAssumption
  <1>1. updater' \in Requests!Updater /\ updater'.at \in {"down", "idle"} /\
            upsets' \in 0..MaxUpsets
    BY DEF Requests!HelperDies, Requests!HelperBoots, Requests!Leaves, Requests!NoUpdate,
       Requests!Updater, Requests!Mishap, RequestInvariant, Requests!TypeOK
  <1>2. RequestWorkOK'
    BY <1>1 DEF RequestWorkOK, Requests!Working
  <1> QED BY <1>1, <1>2, RequestHelperMoves DEF Requests!HelperDies, Requests!HelperBoots

LEMMA RequestRepairKeeps == ASSUME RequestInvariant, Requests!Repair PROVE RequestInvariant'
  <1> USE SubmissionAssumption
  <1>1. upsets' \in 0..MaxUpsets
    BY DEF Requests!Repair, RequestInvariant, Requests!TypeOK
  <1> QED BY <1>1, RequestSettlesDrives DEF Requests!Repair

-----------------------------------------------------------------------------
LEMMA RequestInitEstablishes == Requests!Init => RequestInvariant
  <1> SUFFICES ASSUME Requests!Init PROVE RequestInvariant
    OBVIOUS
  <1> USE SubmissionAssumption DEF Requests!Init
  <1>1. Requests!TypeOK
    BY DEF Requests!TypeOK, Requests!Release, Requests!Idle, Requests!Handler, Requests!NoUpdate,
       Requests!Updater, Requests!Unheard
  <1>2. /\ RequestCurrentOK /\ RequestToldOK /\ RequestPastOK /\ RequestGuardOK
        /\ RequestCheckOK /\ RequestWorkOK /\ Requests!Forward
    BY DEF RequestCurrentOK, RequestToldOK, RequestPastOK, RequestGuardOK, RequestCheckOK,
       RequestWorkOK, Requests!Working, Requests!Forward, Requests!Unfinished,
           Requests!Phase, Requests!Idle, Requests!NoUpdate
  <1> QED BY <1>1, <1>2 DEF RequestInvariant

LEMMA RequestNextKeeps == RequestInvariant /\ [Requests!Next]_requestVars => RequestInvariant'
  <1> SUFFICES ASSUME RequestInvariant, [Requests!Next]_requestVars PROVE RequestInvariant'
    OBVIOUS
  <1>1. CASE UNCHANGED requestVars
    BY <1>1, RequestMemoryMoves DEF requestVars, RequestInvariant, Requests!TypeOK, RequestCheckOK
  <1>2. CASE Requests!Publish \/ Requests!Check \/ Requests!Ages \/ Requests!ReadStatus \/
                 Requests!Cancel \/ Requests!ApiRestarts
    BY <1>2, RequestPublishKeeps, RequestCheckKeeps, RequestAgesKeeps, RequestReadKeeps,
       RequestRestartKeeps
  <1>3. ASSUME NEW s \in Submission, (\E r \in Requests!Release : Requests!Select(s, r)) \/
            Requests!ApiStep(s)
        PROVE  RequestInvariant'
    BY <1>3, RequestSelectKeeps, RequestSelectCheckedKeeps, RequestAdmitKeeps,
       RequestWriteKeeps DEF Requests!ApiStep
  <1>4. CASE Requests!HelperStep \/ Requests!HelperDies \/ Requests!HelperBoots \/ Requests!Repair
    BY <1>4, RequestHelperStepKeeps, RequestDeathKeeps, RequestRepairKeeps
  <1> QED BY <1>1, <1>2, <1>3, <1>4 DEF Requests!Next

LEMMA RequestImplies == RequestInvariant => Requests!Truthful
  <1> SUFFICES ASSUME RequestInvariant PROVE Requests!Truthful
    OBVIOUS
  <1> USE SubmissionAssumption DEF RequestInvariant
  <1> DEFINE p == Requests!Projection(current.id)
  <1>1. Requests!OneAtATime
    BY DEF Requests!OneAtATime, RequestWorkOK
  <1>2. Requests!Audited /\ Requests!Forward
    BY DEF Requests!Audited, RequestCurrentOK
  <1>3. CASE current = Nobody
    BY <1>1, <1>2, <1>3 DEF RequestToldOK, Requests!Unheard, Requests!WordKept, Requests!Truthful
  <1>4. CASE current # Nobody
    <2>1. /\ told.begun = (p # Nobody) /\ told.ends \subseteq Requests!Final
          /\ \A x \in told.ends : IF x \in Requests!Ended THEN RequestFits(x, p)
             ELSE current.status = x
          /\ current.status \in Requests!Untried => p = Nobody
      BY <1>4 DEF RequestToldOK, RequestCurrentOK, Requests!TypeOK
    <2>2. /\ Requests!Ended \cap Requests!Untried = {} /\
                 \A x \in Requests!Ended : ~RequestFits(x, Nobody)
          /\ Requests!Final = Requests!Ended \cup Requests!Untried \cup {"failed"}
      BY DEF Requests!Ended, Requests!Untried, Requests!Final, RequestFits
    <2>3. ASSUME told.ends \cap Requests!Untried # {}
          PROVE  ~told.begun /\ \E end \in Requests!Untried : told.ends = {end}
      <3>1. PICK x \in told.ends : x \in Requests!Untried
        BY <2>3
      <3>2. current.status = x /\ p = Nobody
        BY <2>1, <2>2, <3>1
      <3>3. told.ends = {x}
        BY <2>1, <2>2, <3>1, <3>2
      <3> QED BY <2>1, <3>2, <3>1, <3>3
    <2>4. ASSUME "completed" \in told.ends PROVE told.ends \subseteq {"completed", "failed"}
      <3>1. p = "completed"
        BY <2>1, <2>4 DEF Requests!Ended, RequestFits
      <3>2. \A x \in Requests!Ended : RequestFits(x, p) => x = "completed"
        BY <3>1 DEF Requests!Ended, RequestFits
      <3>3. Nobody # "completed" /\ \A x \in told.ends : x \in Requests!Untried => p = Nobody
        BY <2>1, <2>2 DEF Requests!Final, Requests!Ended
      <3> QED BY <2>1, <2>2, <3>1, <3>2, <3>3
    <2> QED BY <1>1, <1>2, <2>3, <2>4 DEF Requests!WordKept, Requests!Truthful
  <1> QED BY <1>3, <1>4

\* Whatever is submitted, read, dies or is repaired, in a behaviour of the requests.
THEOREM RequestsHold == Updates => [](scope = "request" => RequestInvariant)
  <1> DEFINE all == <<restoreVars, schemaVars, rootVars, requestVars, slotVars, scope>>
             Holds == scope = "request" => RequestInvariant
  <1>1. Start => Holds
    BY RequestInitEstablishes DEF Start
  <1>2. Holds /\ [AnyStep]_all => Holds'
    <2> SUFFICES ASSUME Holds, [AnyStep]_all, scope' = "request" PROVE RequestInvariant'
      OBVIOUS
    <2>1. CASE RequestsStep
      BY <2>1, RequestNextKeeps DEF RequestsStep
    <2>2. CASE RestoringStep \/ SchemaStep \/ RootsStep \/ SlotsStep
      BY <2>2 DEF RestoringStep, SchemaStep, RootsStep, SlotsStep
    <2>3. CASE UNCHANGED all
      BY <2>3, RequestNextKeeps
    <2> QED BY <2>1, <2>2, <2>3 DEF AnyStep
  <1> QED BY <1>1, <1>2, PTL DEF Updates

\* However submissions, cancellations, readers of the status, the helper and its deaths are
\* interleaved: the helper works on the current request alone, no end that was told is taken
\* back, no request is admitted unaudited and no activation goes back behind what is
\* installed (update_apply.py, km-vms-update-helper.py, km-vms-update-helper-bridge.py).
THEOREM RequestsAreTruthful == Updates => []RequestsTruthful
  <1>1. (scope = "request" => RequestInvariant) => RequestsTruthful
    BY RequestImplies DEF RequestInvariant, RequestsTruthful
  <1> QED BY <1>1, RequestsHold, PTL

-----------------------------------------------------------------------------
(* The schema update (SchemaUpdate).  What is written down in four places  *)
(* is told apart by where the process is (SchemaPlaceOK), and a process    *)
(* that died is nowhere: so what may be retried, or taken over by a retry, *)
(* must be read off the row, the attempts and the receipts alone           *)
(* (SchemaOwnerOK, SchemaStartedOK, SchemaRetryOK).  SchemaMayFail is what *)
(* a step that fails leaves to those that record its failure.              *)

\* The types that TypeOK leaves out.
SchemaRecordsOK ==
    /\ mutation \in [request : Upgrade \cup {Nobody}, started : BOOLEAN,
                     state : {"none", "backup_pending", "migrating", "completed"}]
    /\ receipts \in [Schema!Stage -> Schema!Receipt \cup {Schema!NoReceipt}]
    /\ mishaps \in [mishaps : 0..MaxFailures, injected : BOOLEAN]

\* One request is admitted at a time, and the row is one of a request that was.
SchemaUpdateOK ==
    /\ \A r \in Upgrade : update.status[r] = "active" => r = Schema!Req
    /\ Schema!Req # Nobody => update.status[Schema!Req] # "new"
    /\ Schema!Req = Nobody => ruling = Schema!NoRow
    /\ ruling # Schema!NoRow => update.status[ruling.owner] # "new" /\ bootstrap # "none"

\* A request that was not admitted, or does not have the row yet, did nothing.
SchemaUntouched(r) ==
    /\ \A t \in 0..Versions : attempts[r][t] = "none"
    /\ \A t \in Schema!Transition : tables.by[t] # r
    /\ \A s \in Schema!Stage : receipts[s].state = "failed" => receipts[s].request # r
SchemaUntouchedOK ==
    \A r \in Upgrade : update.status[r] = "new" \/ (r = Schema!Req /\ ~Schema!Ours) =>
        SchemaUntouched(r)

\* What was made of the database.
SchemaMadeOK ==
    /\ \A t \in Schema!Transition : tables.by[t] # Nobody <=> t <= tables.version
    /\ tables.version > 0 => ~tables.pending /\ ruling # Schema!NoRow
    /\ Injects /\ ~mishaps.injected => tables.version = 0

\* The attempts of a row at work: as Resumable says, or none at all.
SchemaAccount(r) ==
    \A t \in Schema!Transition : attempts[r][t] \in
               IF t < tables.version THEN {"applied"}
               ELSE IF t = tables.version THEN {"started", "applied"}
               ELSE IF t = tables.version + 1 THEN {"none", "started"}
               ELSE {"none"}
SchemaIdle(r) == \A t \in Schema!Transition : attempts[r][t] = "none"
SchemaOwnerOK ==
    ruling # Schema!NoRow =>
      /\ ruling.state \in Schema!Active =>
            IF ruling.found = 0 THEN SchemaAccount(ruling.owner)
            ELSE tables.version = Versions /\ SchemaIdle(ruling.owner)
      /\ tables.pending => SchemaIdle(ruling.owner)

\* Who has an attempt open has the row; that of the preparation is still needed.
SchemaStartedOK ==
    \A r \in Upgrade, t \in 0..Versions : attempts[r][t] = "started" =>
        /\ ruling # Schema!NoRow /\ ruling.owner = r
        /\ t = 0 => ruling.state \in Schema!Active /\ Schema!Needed

\* What may be retried left nothing behind.
SchemaClosed(r) == \A t \in 0..Versions : attempts[r][t] # "started"
SchemaRetryOK ==
    ruling # Schema!NoRow =>
      /\ \A s \in Schema!Stage :
           receipts[s].state = "failed" /\ receipts[s].request = ruling.owner =>
           /\ tables.version = 0 /\ ruling.found = 0
           /\ s # "recovery"
           /\ s = "preparation" => SchemaIdle(ruling.owner)
           /\ s = "gate" => ruling.state = "failed" /\ SchemaClosed(ruling.owner)
      /\ Schema!Req # Nobody /\ ruling.state = "failed" /\ RetryOf[Schema!Req] = ruling.owner =>
           tables.version = 0 /\ ruling.found = 0 /\ SchemaClosed(ruling.owner)

SchemaFiles ==
    /\ SchemaUpdateOK /\ SchemaUntouchedOK /\ SchemaMadeOK
    /\ SchemaOwnerOK /\ SchemaStartedOK /\ SchemaRetryOK
    /\ Schema!FailuresTrue /\ Schema!CompletionTrue

\* What a step that fails leaves to those that record it.
SchemaMayFail(stage, safe) ==
    /\ Schema!Req # Nobody /\ Schema!Ours /\ ruling.state \in Schema!Active \cup {"completed"}
    /\ IF runner.doing = 0 THEN stage = "preparation" ELSE attempts[Schema!Req][0] # "started"
    /\ runner.doing \in Schema!Transition =>
         /\ stage = "gate" /\ ruling.state = "migrating" /\ ruling.found = 0
         /\ attempts[Schema!Req][runner.doing] = "started"
         /\ runner.doing \in {tables.version, tables.version + 1}
    /\ safe => /\ runner.doing # Nobody /\ attempts[Schema!Req][runner.doing] = "started"
               /\ tables.version = 0 /\ ruling.found = 0
               /\ \/ stage = "preparation" /\ tables.pending
                  \/ stage = "gate" /\ runner.doing = 1

\* What holds where the process is.
SchemaWorking == {"prepared", "recovery", "recovering", "recovered", "gate", "next", "begun",
            "migrate", "migrated", "finished", "done"}
SchemaPlaceOK ==
    /\ runner.at # "off" => Schema!Req # Nobody
    /\ runner.at \in {"preflight", "backup"} => runner.migrates
    /\ runner.at \in {"preflight", "backup", "preparation", "insert", "adopt", "mark", "survey"} =>
         ~runner.marked /\ runner.doing = Nobody
    /\ runner.at = "insert" => ruling = Schema!NoRow /\ tables.version = 0
           /\ bootstrap = "prepared"
    /\ runner.at \in {"adopt", "mark", "survey", "widen", "failing", "failed"}
                      \cup SchemaWorking => Schema!Ours
    /\ runner.at \in {"adopt", "mark"} => ruling.state \in Schema!Active
    /\ runner.at \in {"survey", "widen"} => ruling.state = "prepared"
    /\ runner.at = "widen" => runner.doing = 0 /\ attempts[Schema!Req][0] = "started"
           /\ tables.pending
    /\ runner.at = "prepared" => runner.doing \in {0, Nobody}
    /\ runner.at \in SchemaWorking => attempts[Schema!Req][0] # "started"
    /\ runner.at \in SchemaWorking \ {"prepared"} => receipts["preparation"].state = "completed"
    /\ runner.at \in SchemaWorking \ {"prepared", "begun", "migrate", "migrated"} =>
         runner.doing = Nobody
    /\ runner.at \in {"prepared", "recovery", "recovering"} => ruling.state = "recovering"
    /\ runner.at \in {"recovered", "gate", "next", "begun", "migrate", "migrated"} =>
         ruling.state = "migrating" /\ ~tables.pending
    /\ runner.at \in {"finished", "done"} =>
           ruling.state = "completed" /\ tables.version = Versions
    /\ runner.at \in {"next", "begun", "migrate", "migrated"} => ruling.found = 0
    /\ runner.at \in {"next", "begun", "migrate"} =>
         \A t \in Schema!Transition : t <= tables.version => attempts[Schema!Req][t] = "applied"
    /\ runner.at \in {"begun", "migrate", "migrated"} =>
         runner.doing \in Schema!Transition /\ attempts[Schema!Req][runner.doing] = "started"
    /\ runner.at \in {"begun", "migrate"} => runner.doing = tables.version + 1
    /\ runner.at = "migrate" => (Injects => mishaps.injected)
    /\ runner.at = "migrated" =>
         /\ runner.doing = tables.version
         /\ \A t \in Schema!Transition : t < tables.version => attempts[Schema!Req][t] = "applied"
    /\ runner.at = "failing" => SchemaMayFail(runner.stage, runner.safe)
    /\ runner.at = "failed" /\ runner.safe =>
         /\ tables.version = 0 /\ ruling.found = 0
         /\ \/ runner.stage = "preparation" /\ tables.pending
            \/ runner.stage = "gate" /\ ruling.state = "failed" /\ SchemaClosed(Schema!Req)

SchemaMadeBy ==
    runner.migrates /\ runner.at \notin {"off", "preflight"} =>
          /\ mutation.request = Schema!Req
          /\ \A t \in Schema!Transition : t <= tables.version => tables.by[t] = Schema!Req
          /\ runner.marked => mutation.started

SchemaInvariant ==
    /\ Schema!TypeOK /\ SchemaRecordsOK /\ SchemaFiles
    /\ SchemaPlaceOK /\ SchemaMadeBy /\ Schema!MutationTrue

SchemaPlaces == {"off", "preflight", "backup", "preparation", "insert", "adopt", "mark",
           "survey", "widen", "prepared", "recovery", "recovering", "recovered",
           "gate", "next", "begun", "migrate", "migrated", "finished", "done",
           "failing", "failed"}

schemaFiles == <<update, tables, ruling, attempts, bootstrap, receipts>>

LEMMA SchemaRunnerTyped == Schema!Off \in Schema!Runner /\ Schema!Off.at = "off"
  BY SchemaAssumption DEF Schema!Off, Schema!Runner, Schema!Stage

\* Where the process goes, with the attempt it is about.
SchemaReaches(at, doing) ==
    /\ runner' \in Schema!Runner /\ runner'.at = at /\ runner'.doing = doing
    /\ runner'.migrates = runner.migrates /\ runner'.marked = runner.marked
    /\ runner'.stage = runner.stage /\ runner'.safe = runner.safe

LEMMA SchemaReaching ==
    ASSUME runner \in Schema!Runner, NEW at \in SchemaPlaces, Schema!Goes(at)
    PROVE  SchemaReaches(at, runner.doing)
  BY DEF Schema!Goes, Schema!Runner, SchemaPlaces, SchemaReaches

LEMMA SchemaTurning ==
    ASSUME runner \in Schema!Runner, NEW at \in SchemaPlaces,
           NEW doing \in 0..Versions \cup {Nobody},
           runner' = [runner EXCEPT !.at = at, !.doing = doing]
    PROVE  SchemaReaches(at, doing)
  BY DEF Schema!Runner, SchemaPlaces, SchemaReaches

LEMMA SchemaFailTyped ==
    ASSUME runner \in Schema!Runner, NEW stage \in Schema!Stage, NEW safe \in BOOLEAN,
           Schema!Fails(stage, safe)
    PROVE  /\ runner' \in Schema!Runner /\ runner'.at = "failing"
           /\ runner'.migrates = runner.migrates
           /\ runner'.marked = runner.marked /\ runner'.doing = runner.doing
           /\ runner'.stage = stage /\ runner'.safe = safe
  BY DEF Schema!Fails, Schema!Runner

\* The record of the mutation, when neither it nor the database changes.
LEMMA SchemaRecording ==
    ASSUME SchemaInvariant, UNCHANGED <<mutation, tables>>, Schema!Req' = Schema!Req,
           runner' \in Schema!Runner,
           \/ runner'.at = "off"
           \/ /\ runner.at \notin {"off", "preflight"} /\ runner'.migrates = runner.migrates
              /\ runner'.marked = runner.marked
    PROVE  SchemaMadeBy' /\ Schema!MutationTrue'
  BY DEF SchemaInvariant, SchemaMadeBy, Schema!MutationTrue, Schema!Req

\* A step that leaves the files, the row and the database as they are.
LEMMA SchemaMoving ==
    ASSUME SchemaInvariant, UNCHANGED schemaFiles, SchemaRecordsOK',
           mishaps.injected => mishaps'.injected, runner' \in Schema!Runner,
           SchemaPlaceOK', SchemaMadeBy', Schema!MutationTrue'
    PROVE  SchemaInvariant'
  <1>1. Schema!TypeOK'
    BY DEF SchemaInvariant, Schema!TypeOK, schemaFiles
  <1>2. SchemaFiles'
    <2>1. SchemaUpdateOK' /\ SchemaUntouchedOK' /\ SchemaOwnerOK' /\ SchemaStartedOK'
              /\ SchemaRetryOK'
      BY DEF SchemaInvariant, SchemaFiles, SchemaUpdateOK, SchemaUntouchedOK, SchemaUntouched,
         SchemaOwnerOK, SchemaAccount, SchemaIdle, SchemaStartedOK, Schema!Needed, SchemaRetryOK,
         SchemaClosed, schemaFiles, Schema!Req, Schema!Ours
    <2>2. SchemaMadeOK'
      BY DEF SchemaInvariant, SchemaFiles, SchemaMadeOK, schemaFiles
    <2>3. Schema!FailuresTrue' /\ Schema!CompletionTrue'
      BY DEF SchemaInvariant, SchemaFiles, Schema!FailuresTrue, Schema!CompletionTrue, schemaFiles
    <2> QED BY <2>1, <2>2, <2>3 DEF SchemaFiles
  <1> QED BY <1>1, <1>2 DEF SchemaInvariant

LEMMA SchemaEnding ==
    ASSUME SchemaInvariant, UNCHANGED schemaFiles, UNCHANGED mutation, SchemaRecordsOK',
           mishaps.injected => mishaps'.injected, Schema!Ends
    PROVE  SchemaInvariant'
  <1>1. runner' \in Schema!Runner /\ runner'.at = "off"
    BY SchemaRunnerTyped DEF Schema!Ends
  <1>2. SchemaPlaceOK'
    BY <1>1 DEF SchemaPlaceOK, SchemaWorking
  <1>3. SchemaMadeBy' /\ Schema!MutationTrue'
    BY <1>1, SchemaRecording DEF schemaFiles, Schema!Req
  <1> QED BY <1>1, <1>2, <1>3, SchemaMoving

\* A step that fails, and leaves it to the next ones to record it.
LEMMA SchemaFailing ==
    ASSUME SchemaInvariant, UNCHANGED schemaFiles, UNCHANGED mutation, SchemaRecordsOK',
           mishaps.injected => mishaps'.injected,
           NEW stage \in Schema!Stage, NEW safe \in BOOLEAN, Schema!Fails(stage, safe),
           runner.at \notin {"off", "preflight"},
           SchemaMayFail(stage, safe)
    PROVE  SchemaInvariant'
  <1>1. /\ runner' \in Schema!Runner /\ runner'.at = "failing"
        /\ runner'.migrates = runner.migrates
        /\ runner'.marked = runner.marked /\ runner'.doing = runner.doing
        /\ runner'.stage = stage /\ runner'.safe = safe
    <2>1. runner \in Schema!Runner
      BY DEF SchemaInvariant, Schema!TypeOK
    <2> QED BY <2>1, SchemaFailTyped
  <1>2. (Schema!Req # Nobody /\ SchemaMayFail(runner.stage, runner.safe))'
    BY <1>1 DEF SchemaMayFail, schemaFiles, Schema!Req, Schema!Ours, Schema!Active,
       Schema!Transition
  <1>3. SchemaPlaceOK'
    BY <1>1, <1>2 DEF SchemaPlaceOK, SchemaWorking, SchemaMayFail
  <1>4. SchemaMadeBy' /\ Schema!MutationTrue'
    BY <1>1, SchemaRecording DEF schemaFiles, Schema!Req
  <1> QED BY <1>1, <1>3, <1>4, SchemaMoving

\* The row, an attempt, a receipt after a step.
SchemaStatuses == {"none", "started", "applied", "failed"}
SchemaSetState(state) ==
    /\ ruling' \in Schema!Control /\ ruling' # Schema!NoRow /\ ruling'.state = state
    /\ ruling'.owner = ruling.owner /\ ruling'.found = ruling.found
    /\ ruling'.generation = ruling.generation
SchemaAttempted(t, outcome) ==
    /\ attempts' \in [Upgrade -> [0..Versions -> SchemaStatuses]]
    /\ attempts'[Schema!Req][t] = outcome
    /\ \A r \in Upgrade, u \in 0..Versions :
           r # Schema!Req \/ u # t => attempts'[r][u] = attempts[r][u]
SchemaReceived(stage, state) ==
    /\ receipts' \in [Schema!Stage -> Schema!Receipt \cup {Schema!NoReceipt}]
    /\ receipts'[stage].state = state /\ receipts'[stage].request = Schema!Req
    /\ \A s \in Schema!Stage : s # stage => receipts'[s] = receipts[s]

LEMMA SchemaSettingState ==
    ASSUME ruling \in Schema!Control, NEW state \in Schema!Active \cup {"completed", "failed"},
           ruling' = [ruling EXCEPT !.state = state]
    PROVE  SchemaSetState(state)
  <1>1. ruling' \in Schema!Control /\ ruling'.state = state /\ ruling'.owner = ruling.owner
        /\ ruling'.found = ruling.found /\ ruling'.generation = ruling.generation
    BY DEF Schema!Control, Schema!Active
  <1>2. ruling'.state # Schema!NoRow.state
    BY <1>1 DEF Schema!NoRow, Schema!Active
  <1> QED BY <1>1, <1>2 DEF SchemaSetState

LEMMA SchemaAttempting ==
    ASSUME Schema!TypeOK, Schema!Req \in Upgrade, NEW t \in 0..Versions,
           NEW outcome \in SchemaStatuses,
           attempts' = [attempts EXCEPT ![Schema!Req][t] = outcome]
    PROVE  SchemaAttempted(t, outcome)
  BY DEF Schema!TypeOK, SchemaAttempted, SchemaStatuses

LEMMA SchemaMigrating ==
    ASSUME tables \in Schema!Database, Schema!Req \in Upgrade, NEW t \in Schema!Transition,
           t = tables.version + 1,
           tables' = [tables EXCEPT !.version = @ + 1, !.by[t] = Schema!Req]
    PROVE  /\ tables' \in Schema!Database /\ tables'.version = t
           /\ tables'.by[t] = Schema!Req /\ \A u \in Schema!Transition : u # t =>
                  tables'.by[u] = tables.by[u]
           /\ tables'.pending = tables.pending /\ tables'.old = tables.old
           /\ tables'.wide = tables.wide
  <1>1. t \in 0..Versions
    BY SchemaAssumption DEF Schema!Transition
  <1>2. tables.by \in [Schema!Transition -> Upgrade \cup {Nobody}]
    BY DEF Schema!Database
  <1> DEFINE by == [tables.by EXCEPT ![t] = Schema!Req]
  <1>3. by \in [Schema!Transition -> Upgrade \cup {Nobody}] /\ by[t] = Schema!Req
        /\ \A u \in Schema!Transition : u # t => by[u] = tables.by[u]
    BY <1>2
  <1>4. tables' = [[tables EXCEPT !.version = t] EXCEPT !.by = by]
    OBVIOUS
  <1> HIDE DEF by
  <1> QED BY <1>1, <1>3, <1>4 DEF Schema!Database

LEMMA SchemaReceiving ==
    ASSUME SchemaRecordsOK, Schema!Req \in Upgrade, NEW stage \in Schema!Stage,
           NEW generation \in Nat,
           NEW retryable \in BOOLEAN, NEW state \in {"completed", "failed", "stopped"},
           Schema!Records(stage, state, generation, retryable)
    PROVE  SchemaReceived(stage, state)
  <1> DEFINE x == [request |-> Schema!Req, generation |-> generation, state |-> state,
                   retryable |-> retryable]
  <1>1. x \in Schema!Receipt
    BY DEF Schema!Receipt
  <1>2. receipts' = [receipts EXCEPT ![stage] = x]
    BY DEF Schema!Records
  <1> QED BY <1>1, <1>2 DEF SchemaRecordsOK, SchemaReceived

\* What a step of the owner leaves of the others.
LEMMA SchemaUntouchedKept ==
    ASSUME SchemaUntouchedOK, SchemaUpdateOK, Schema!Req # Nobody, Schema!Ours, UNCHANGED update,
           ruling' # Schema!NoRow,
           ruling'.owner = ruling.owner,
           \A r \in Upgrade, u \in 0..Versions : r # Schema!Req =>
               attempts'[r][u] = attempts[r][u],
           \A u \in Schema!Transition : tables'.by[u] \in {tables.by[u], Schema!Req},
           \A s \in Schema!Stage : receipts'[s] = receipts[s] \/ receipts'[s].request = Schema!Req
    PROVE  SchemaUntouchedOK'
  <1> SUFFICES ASSUME NEW r \in Upgrade, update.status[r] = "new"
      \/ (r = Schema!Req /\ ~Schema!Ours')
               PROVE  SchemaUntouched(r)'
    BY DEF SchemaUntouchedOK, Schema!Req
  <1>1. update.status[r] = "new" /\ r # Schema!Req
    BY DEF SchemaUpdateOK, Schema!Ours, Schema!Req
  <1>2. SchemaUntouched(r)
    BY <1>1 DEF SchemaUntouchedOK
  <1> QED BY <1>1, <1>2 DEF SchemaUntouched

LEMMA SchemaFailuresKept ==
    ASSUME Schema!FailuresTrue, tables'.by = tables.by,
           \A r \in Upgrade, u \in Schema!Transition :
               attempts'[r][u] = "failed" => attempts[r][u] = "failed"
    PROVE  Schema!FailuresTrue'
  BY DEF Schema!FailuresTrue

\* Each step of the process keeps the invariant; the failures of a step by SchemaFailing.
LEMMA SchemaBackupKeeps == ASSUME SchemaInvariant, Schema!Backup PROVE SchemaInvariant'
  <1> USE SchemaAssumption
  <1>1. /\ runner.at = "backup"
        /\ Schema!Req # Nobody
        /\ runner.migrates
        /\ (~runner.marked /\ runner.doing = Nobody)
    BY DEF SchemaInvariant, SchemaPlaceOK, Schema!Backup
  <1>2. /\ runner \in Schema!Runner /\ runner.at \notin {"off", "preflight"}
        /\ runner.at \in SchemaPlaces
        /\ Schema!Req \in Upgrade /\ SchemaFiles /\ Schema!TypeOK /\ SchemaRecordsOK
        /\ tables \in Schema!Database
        /\ tables.version \in 0..Versions /\ (ruling # Schema!NoRow => ruling \in Schema!Control)
    BY <1>1 DEF SchemaInvariant, Schema!TypeOK, SchemaPlaces, Schema!Req, Schema!Database
  <1>3. CASE Schema!Goes("preparation") /\ UNCHANGED mishaps
    <2>1. UNCHANGED schemaFiles /\ UNCHANGED mutation /\ Schema!Goes("preparation")
      BY <1>3, <1>1 DEF schemaFiles, Schema!Backup
    <2>2. SchemaRecordsOK' /\ (mishaps.injected => mishaps'.injected)
      BY <1>3, <1>2, <2>1 DEF SchemaRecordsOK, schemaFiles, Schema!Mishap
    <2>3. SchemaReaches("preparation", runner.doing)
      BY <1>2, <2>1, SchemaReaching DEF SchemaPlaces
    <2>4. /\ Schema!Req' # Nobody
          /\ (~runner.marked /\ runner.doing = Nobody)'
      BY <1>1, <1>3, <2>1, <2>2, <2>3 DEF schemaFiles, Schema!Req, Schema!Active, SchemaClosed,
         SchemaReaches
    <2>5. SchemaPlaceOK'
      BY <2>3, <2>4 DEF SchemaPlaceOK, SchemaWorking, SchemaReaches
    <2>6. SchemaMadeBy' /\ Schema!MutationTrue'
      BY <1>2, <2>1, <2>3, SchemaRecording DEF schemaFiles, Schema!Req, SchemaReaches
    <2> QED BY <2>1, <2>2, <2>3, <2>5, <2>6, SchemaMoving DEF SchemaReaches
  <1>4. CASE Schema!Ends /\ Schema!Mishap
    <2>1. UNCHANGED schemaFiles /\ UNCHANGED mutation /\ Schema!Ends
      BY <1>4, <1>1 DEF schemaFiles, Schema!Backup
    <2>2. SchemaRecordsOK' /\ (mishaps.injected => mishaps'.injected)
      BY <1>4, <1>2, <2>1 DEF SchemaRecordsOK, schemaFiles, Schema!Mishap
    <2> QED BY <2>1, <2>2, SchemaEnding
  <1> QED BY <1>3, <1>4, <1>1, <1>2 DEF Schema!Backup

LEMMA SchemaAdoptKeeps == ASSUME SchemaInvariant, Schema!Adopt PROVE SchemaInvariant'
  <1> USE SchemaAssumption
  <1>1. /\ runner.at = "adopt"
        /\ Schema!Req # Nobody
        /\ (~runner.marked /\ runner.doing = Nobody)
        /\ Schema!Ours
        /\ ruling.state \in Schema!Active
    BY DEF SchemaInvariant, SchemaPlaceOK, Schema!Adopt
  <1>2. /\ runner \in Schema!Runner /\ runner.at \notin {"off", "preflight"}
        /\ runner.at \in SchemaPlaces
        /\ Schema!Req \in Upgrade /\ SchemaFiles /\ Schema!TypeOK /\ SchemaRecordsOK
        /\ tables \in Schema!Database
        /\ tables.version \in 0..Versions /\ (ruling # Schema!NoRow => ruling \in Schema!Control)
    BY <1>1 DEF SchemaInvariant, Schema!TypeOK, SchemaPlaces, Schema!Req, Schema!Database
  <1>3. CASE Schema!Adopt
    <2>1. Schema!Goes("mark")
      BY <1>1, <1>3 DEF Schema!Adopt
    <2>2. SchemaReaches("mark", runner.doing)
      BY <1>2, <2>1, SchemaReaching DEF SchemaPlaces
    <2>3. /\ bootstrap' = "adopted"
          /\ UNCHANGED <<update, tables, ruling, attempts, receipts, mutation, mishaps>>
      BY <1>1, <1>2, <1>3 DEF Schema!Adopt
    <2>4. Schema!TypeOK' /\ SchemaRecordsOK'
      BY <1>1, <1>2, <1>3, <2>2, <2>3 DEF Schema!TypeOK, SchemaRecordsOK, SchemaStatuses,
         SchemaReaches
    <2>5. SchemaUpdateOK'
      BY <1>1, <1>2, <2>3 DEF SchemaFiles, SchemaUpdateOK, Schema!Req, Schema!Ours,
         Schema!Transition
    <2>6. SchemaUntouchedOK'
      BY <1>1, <1>2, <2>3, SchemaUntouchedKept DEF SchemaFiles, Schema!Ours
    <2>7. SchemaMadeOK'
      BY <1>1, <1>2, <2>3 DEF SchemaFiles, SchemaMadeOK, Schema!Ours, Schema!Transition
    <2>8. SchemaOwnerOK'
      BY <1>1, <1>2, <2>3 DEF SchemaFiles, SchemaOwnerOK, SchemaAccount, SchemaIdle,
         Schema!Active, Schema!Req, Schema!Ours, Schema!Transition
    <2>9. SchemaStartedOK'
      BY <1>1, <1>2, <2>3 DEF SchemaFiles, SchemaStartedOK, Schema!Needed, Schema!Active,
         Schema!Req, Schema!Ours, Schema!Transition
    <2>10. SchemaRetryOK'
      BY <1>1, <1>2, <2>3 DEF SchemaFiles, SchemaRetryOK, SchemaIdle, SchemaClosed, Schema!Stage,
         Schema!Req, Schema!Ours, Schema!Transition
    <2>11. Schema!FailuresTrue'
      BY <1>1, <1>2, <2>3, SchemaFailuresKept DEF SchemaFiles, Schema!Transition, SchemaStatuses
    <2>12. Schema!CompletionTrue'
      BY <1>1, <1>2, <2>3 DEF SchemaFiles, Schema!CompletionTrue, Schema!Stage, Schema!Req,
         Schema!Ours, Schema!Transition
    <2>13. /\ Schema!Req' # Nobody
          /\ (~runner.marked /\ runner.doing = Nobody)'
          /\ Schema!Ours'
          /\ (ruling.state \in Schema!Active)'
      BY <1>1, <1>2, <2>2, <2>3 DEF Schema!Req, Schema!Ours, Schema!Active, SchemaClosed,
         SchemaReaches, Schema!Stage
    <2>14. SchemaPlaceOK'
      BY <2>2, <2>13 DEF SchemaPlaceOK, SchemaWorking, SchemaReaches
    <2>15. SchemaMadeBy' /\ Schema!MutationTrue'
      BY <1>2, <2>2, <2>3, SchemaRecording DEF Schema!Req, SchemaReaches
    <2> QED BY <2>4, <2>5, <2>6, <2>7, <2>8, <2>9, <2>10, <2>11, <2>12, <2>14, <2>15
               DEF SchemaInvariant, SchemaFiles
  <1> QED BY <1>3, <1>1, <1>2 DEF Schema!Adopt

LEMMA SchemaMarkPreparedKeeps == ASSUME SchemaInvariant, Schema!MarkPrepared PROVE SchemaInvariant'
  <1> USE SchemaAssumption
  <1>1. /\ runner.at = "mark"
        /\ Schema!Req # Nobody
        /\ (~runner.marked /\ runner.doing = Nobody)
        /\ Schema!Ours
        /\ ruling.state \in Schema!Active
    BY DEF SchemaInvariant, SchemaPlaceOK, Schema!MarkPrepared
  <1>2. /\ runner \in Schema!Runner /\ runner.at \notin {"off", "preflight"}
        /\ runner.at \in SchemaPlaces
        /\ Schema!Req \in Upgrade /\ SchemaFiles /\ Schema!TypeOK /\ SchemaRecordsOK
        /\ tables \in Schema!Database
        /\ tables.version \in 0..Versions /\ (ruling # Schema!NoRow => ruling \in Schema!Control)
    BY <1>1 DEF SchemaInvariant, Schema!TypeOK, SchemaPlaces, Schema!Req, Schema!Database
  <1>3. CASE Schema!MarkPrepared
    <2>1. Schema!Goes("survey")
      BY <1>1, <1>3 DEF Schema!MarkPrepared
    <2>2. SchemaReaches("survey", runner.doing)
      BY <1>2, <2>1, SchemaReaching DEF SchemaPlaces
    <2>3. /\ SchemaSetState("prepared")
          /\ UNCHANGED <<update, tables, attempts, bootstrap, receipts, mutation, mishaps>>
      BY <1>1, <1>2, <1>3, SchemaSettingState DEF Schema!MarkPrepared, Schema!Active, Schema!Ours
    <2>4. Schema!TypeOK' /\ SchemaRecordsOK'
      BY <1>1, <1>2, <1>3, <2>2, <2>3 DEF Schema!TypeOK, SchemaRecordsOK, Schema!Stage,
         SchemaStatuses, SchemaReaches, SchemaSetState
    <2>5. SchemaUpdateOK'
      BY <1>1, <1>2, <2>3 DEF SchemaFiles, SchemaUpdateOK, Schema!Req, Schema!Ours,
         Schema!Transition, SchemaSetState
    <2>6. SchemaUntouchedOK'
      BY <1>1, <1>2, <2>3, SchemaUntouchedKept DEF SchemaFiles, Schema!Ours, SchemaSetState
    <2>7. SchemaMadeOK'
      BY <1>1, <1>2, <2>3 DEF SchemaFiles, SchemaMadeOK, Schema!Req, Schema!Ours,
         Schema!Transition, SchemaSetState
    <2>8. SchemaOwnerOK'
      BY <1>1, <1>2, <2>3 DEF SchemaFiles, SchemaOwnerOK, SchemaAccount, SchemaIdle,
         Schema!Active, Schema!Req, Schema!Ours, Schema!Transition, SchemaSetState
    <2>9. SchemaStartedOK'
      BY <1>1, <1>2, <2>3 DEF SchemaFiles, SchemaStartedOK, Schema!Needed, Schema!Active,
         Schema!Req, Schema!Ours, Schema!Transition, SchemaSetState
    <2>10. SchemaRetryOK'
      BY <1>1, <1>2, <2>3 DEF SchemaFiles, SchemaRetryOK, SchemaIdle, SchemaClosed, Schema!Stage,
         Schema!Req, Schema!Ours, Schema!Transition, Schema!Active, SchemaSetState
    <2>11. Schema!FailuresTrue'
      BY <1>1, <1>2, <2>3, SchemaFailuresKept DEF SchemaFiles, Schema!Transition, SchemaStatuses,
         SchemaSetState
    <2>12. Schema!CompletionTrue'
      BY <1>1, <1>2, <2>3 DEF SchemaFiles, Schema!CompletionTrue, Schema!Stage, Schema!Req,
         Schema!Ours, Schema!Transition, SchemaSetState
    <2>13. /\ Schema!Req' # Nobody
          /\ (~runner.marked /\ runner.doing = Nobody)'
          /\ Schema!Ours'
          /\ (ruling.state = "prepared")'
      BY <1>1, <1>2, <2>2, <2>3 DEF Schema!Req, Schema!Ours, Schema!Active, SchemaClosed,
         SchemaReaches, Schema!Stage, SchemaSetState
    <2>14. SchemaPlaceOK'
      BY <2>2, <2>13 DEF SchemaPlaceOK, SchemaWorking, SchemaReaches
    <2>15. SchemaMadeBy' /\ Schema!MutationTrue'
      BY <1>2, <2>2, <2>3, SchemaRecording DEF Schema!Req, SchemaReaches
    <2> QED BY <2>4, <2>5, <2>6, <2>7, <2>8, <2>9, <2>10, <2>11, <2>12, <2>14, <2>15
               DEF SchemaInvariant, SchemaFiles
  <1> QED BY <1>3, <1>1, <1>2 DEF Schema!MarkPrepared

LEMMA SchemaSurveyKeeps == ASSUME SchemaInvariant, Schema!Survey PROVE SchemaInvariant'
  <1> USE SchemaAssumption
  <1>1. /\ runner.at = "survey"
        /\ Schema!Req # Nobody
        /\ (~runner.marked /\ runner.doing = Nobody)
        /\ Schema!Ours
        /\ ruling.state = "prepared"
    BY DEF SchemaInvariant, SchemaPlaceOK, Schema!Survey
  <1>2. /\ runner \in Schema!Runner /\ runner.at \notin {"off", "preflight"}
        /\ runner.at \in SchemaPlaces
        /\ Schema!Req \in Upgrade /\ SchemaFiles /\ Schema!TypeOK /\ SchemaRecordsOK
        /\ tables \in Schema!Database
        /\ tables.version \in 0..Versions /\ (ruling # Schema!NoRow => ruling \in Schema!Control)
    BY <1>1 DEF SchemaInvariant, Schema!TypeOK, SchemaPlaces, Schema!Req, Schema!Database
  <1>3. CASE Schema!Needed
    <2>1. runner' = [runner EXCEPT !.at = "widen", !.doing = 0]
      BY <1>1, <1>3 DEF Schema!Survey
    <2>2. SchemaReaches("widen", 0)
      <3>1. 0 \in 0..Versions \cup {Nobody}
        BY <1>1, <1>2, <1>3 DEF Schema!Survey
      <3> QED BY <1>2, <2>1, <3>1, SchemaTurning DEF SchemaPlaces
    <2>3. /\ SchemaAttempted(0, "started")
          /\ Schema!Needed
          /\ UNCHANGED <<update, tables, ruling, bootstrap, receipts, mutation, mishaps>>
      BY <1>1, <1>2, <1>3, SchemaAttempting DEF Schema!Survey, SchemaStatuses
    <2>4. Schema!TypeOK' /\ SchemaRecordsOK'
      BY <1>1, <1>2, <1>3, <2>2, <2>3 DEF Schema!TypeOK, SchemaRecordsOK, SchemaStatuses,
         SchemaReaches, SchemaAttempted
    <2>5. SchemaUpdateOK'
      BY <1>1, <1>2, <2>3 DEF SchemaFiles, SchemaUpdateOK, Schema!Req, Schema!Ours,
         Schema!Transition, SchemaAttempted
    <2>6. SchemaUntouchedOK'
      BY <1>1, <1>2, <2>3, SchemaUntouchedKept DEF SchemaFiles, Schema!Ours, SchemaAttempted
    <2>7. SchemaMadeOK'
      BY <1>1, <1>2, <2>3 DEF SchemaFiles, SchemaMadeOK, Schema!Req, Schema!Ours,
         Schema!Transition, SchemaAttempted
    <2>8. SchemaOwnerOK'
      BY <1>1, <1>2, <2>3 DEF SchemaFiles, SchemaOwnerOK, SchemaAccount, SchemaIdle,
         Schema!Active, Schema!Req, Schema!Ours, Schema!Transition, SchemaAttempted
    <2>9. SchemaStartedOK'
      BY <1>1, <1>2, <2>3 DEF SchemaFiles, SchemaStartedOK, Schema!Needed, Schema!Active,
         Schema!Req, Schema!Ours, Schema!Transition, SchemaAttempted
    <2>10. SchemaRetryOK'
      BY <1>1, <1>2, <2>3 DEF SchemaFiles, SchemaRetryOK, SchemaIdle, SchemaClosed, Schema!Stage,
         Schema!Req, Schema!Ours, Schema!Transition, SchemaAttempted
    <2>11. Schema!FailuresTrue'
      BY <1>1, <1>2, <2>3, SchemaFailuresKept DEF SchemaFiles, Schema!Transition, SchemaStatuses,
         SchemaAttempted
    <2>12. Schema!CompletionTrue'
      BY <1>1, <1>2, <2>3 DEF SchemaFiles, Schema!CompletionTrue, Schema!Stage, Schema!Req,
         Schema!Ours, Schema!Transition, SchemaAttempted
    <2>13. /\ Schema!Req' # Nobody
          /\ Schema!Ours'
          /\ (ruling.state = "prepared")'
          /\ (runner.doing = 0 /\ attempts[Schema!Req][0] = "started" /\ tables.pending)'
      BY <1>1, <1>2, <2>2, <2>3 DEF Schema!Req, Schema!Ours, Schema!Active, SchemaClosed,
         SchemaReaches, Schema!Stage, Schema!Needed, SchemaAttempted
    <2>14. SchemaPlaceOK'
      BY <2>2, <2>13 DEF SchemaPlaceOK, SchemaWorking, SchemaReaches
    <2>15. SchemaMadeBy' /\ Schema!MutationTrue'
      BY <1>2, <2>2, <2>3, SchemaRecording DEF Schema!Req, SchemaReaches
    <2> QED BY <2>4, <2>5, <2>6, <2>7, <2>8, <2>9, <2>10, <2>11, <2>12, <2>14, <2>15
               DEF SchemaInvariant, SchemaFiles
  <1>4. CASE ~Schema!Needed
    <2>1. Schema!Goes("prepared")
      BY <1>1, <1>4 DEF Schema!Survey
    <2>2. SchemaReaches("prepared", runner.doing)
      BY <1>2, <2>1, SchemaReaching DEF SchemaPlaces
    <2>3. /\ SchemaSetState("recovering")
          /\ ~Schema!Needed
          /\ UNCHANGED <<update, tables, attempts, bootstrap, receipts, mutation, mishaps>>
      BY <1>1, <1>2, <1>4, SchemaSettingState DEF Schema!Survey, Schema!Active, Schema!Ours
    <2>4. Schema!TypeOK' /\ SchemaRecordsOK'
      BY <1>1, <1>2, <1>4, <2>2, <2>3 DEF Schema!TypeOK, SchemaRecordsOK, Schema!Stage,
         SchemaStatuses, SchemaReaches, SchemaSetState
    <2>5. SchemaUpdateOK'
      BY <1>1, <1>2, <2>3 DEF SchemaFiles, SchemaUpdateOK, Schema!Req, Schema!Ours,
         Schema!Transition, SchemaSetState
    <2>6. SchemaUntouchedOK'
      BY <1>1, <1>2, <2>3, SchemaUntouchedKept DEF SchemaFiles, Schema!Ours, SchemaSetState
    <2>7. SchemaMadeOK'
      BY <1>1, <1>2, <2>3 DEF SchemaFiles, SchemaMadeOK, Schema!Req, Schema!Ours,
         Schema!Transition, SchemaSetState
    <2>8. SchemaOwnerOK'
      BY <1>1, <1>2, <2>3 DEF SchemaFiles, SchemaOwnerOK, SchemaAccount, SchemaIdle,
         Schema!Active, Schema!Req, Schema!Ours, Schema!Transition, SchemaSetState
    <2>9. SchemaStartedOK'
      BY <1>1, <1>2, <2>3 DEF SchemaFiles, SchemaStartedOK, Schema!Needed, Schema!Active,
         Schema!Req, Schema!Ours, Schema!Transition, SchemaSetState
    <2>10. SchemaRetryOK'
      BY <1>1, <1>2, <2>3 DEF SchemaFiles, SchemaRetryOK, SchemaIdle, SchemaClosed, Schema!Stage,
         Schema!Req, Schema!Ours, Schema!Transition, SchemaSetState
    <2>11. Schema!FailuresTrue'
      BY <1>1, <1>2, <2>3, SchemaFailuresKept DEF SchemaFiles, Schema!Transition, SchemaStatuses,
         SchemaSetState
    <2>12. Schema!CompletionTrue'
      BY <1>1, <1>2, <2>3 DEF SchemaFiles, Schema!CompletionTrue, Schema!Stage, Schema!Req,
         Schema!Ours, Schema!Transition, SchemaSetState
    <2>13. /\ Schema!Req' # Nobody
          /\ Schema!Ours'
          /\ (ruling.state = "recovering")'
          /\ (runner.doing \in {0, Nobody})'
          /\ (attempts[Schema!Req][0] # "started")'
      BY <1>1, <1>2, <2>2, <2>3 DEF Schema!Req, Schema!Ours, Schema!Active, SchemaClosed,
         SchemaReaches, Schema!Stage, SchemaFiles, SchemaStartedOK, Schema!Needed, SchemaSetState
    <2>14. SchemaPlaceOK'
      BY <2>2, <2>13 DEF SchemaPlaceOK, SchemaWorking, SchemaReaches
    <2>15. SchemaMadeBy' /\ Schema!MutationTrue'
      BY <1>2, <2>2, <2>3, SchemaRecording DEF Schema!Req, SchemaReaches
    <2> QED BY <2>4, <2>5, <2>6, <2>7, <2>8, <2>9, <2>10, <2>11, <2>12, <2>14, <2>15
               DEF SchemaInvariant, SchemaFiles
  <1> QED BY <1>3, <1>4, <1>1, <1>2 DEF Schema!Survey

LEMMA SchemaWidenKeeps == ASSUME SchemaInvariant, Schema!Widen PROVE SchemaInvariant'
  <1> USE SchemaAssumption
  <1>1. /\ runner.at = "widen"
        /\ Schema!Req # Nobody
        /\ Schema!Ours
        /\ ruling.state = "prepared"
        /\ (runner.doing = 0 /\ attempts[Schema!Req][0] = "started" /\ tables.pending)
    BY DEF SchemaInvariant, SchemaPlaceOK, Schema!Widen
  <1>2. /\ runner \in Schema!Runner /\ runner.at \notin {"off", "preflight"}
        /\ runner.at \in SchemaPlaces
        /\ Schema!Req \in Upgrade /\ SchemaFiles /\ Schema!TypeOK /\ SchemaRecordsOK
        /\ tables \in Schema!Database
        /\ tables.version \in 0..Versions /\ (ruling # Schema!NoRow => ruling \in Schema!Control)
    BY <1>1 DEF SchemaInvariant, Schema!TypeOK, SchemaPlaces, Schema!Req, Schema!Database
  <1>3. tables.version = 0 /\ ruling \in Schema!Control /\ ruling.found = 0
            /\ Schema!Needed /\ SchemaIdle(Schema!Req)
    <2>1. tables.version = 0
      BY <1>1, <1>2 DEF SchemaFiles, SchemaMadeOK
    <2>2. ruling \in Schema!Control /\ ruling.found \in 0..Versions
      BY <1>1, <1>2 DEF Schema!Ours, Schema!Control
    <2>3. Schema!Needed
      BY <1>1, <1>2 DEF SchemaFiles, SchemaStartedOK
    <2>4. SchemaIdle(Schema!Req)
      BY <1>1, <1>2 DEF SchemaFiles, SchemaOwnerOK, Schema!Ours
    <2> QED BY <1>1, <1>2, <2>1, <2>2, <2>3, <2>4 DEF SchemaFiles, SchemaOwnerOK, Schema!Ours,
               Schema!Active
  <1>4. CASE runner.marked /\ Schema!Goes("prepared") /\ UNCHANGED mishaps
                 /\ tables' = [tables EXCEPT !.wide = TRUE]
                     /\ attempts' = [attempts EXCEPT ![Schema!Req][0] = "applied"]
                         /\ ruling' = [ruling EXCEPT !.state = "recovering"]
    <2>1. Schema!Goes("prepared")
      BY <1>1, <1>4 DEF Schema!Widen
    <2>2. SchemaReaches("prepared", runner.doing)
      BY <1>2, <2>1, SchemaReaching DEF SchemaPlaces
    <2>3. /\ SchemaAttempted(0, "applied")
          /\ SchemaSetState("recovering")
          /\ tables' \in Schema!Database /\ tables'.version = tables.version
          /\ tables'.by = tables.by
          /\ tables'.old = tables.old /\ tables'.pending = tables.pending /\ tables'.wide = TRUE
          /\ UNCHANGED <<update, bootstrap, receipts, mutation, mishaps>>
      <3>1. SchemaAttempted(0, "applied")
        <4>1. 0 \in 0..Versions /\ "applied" \in SchemaStatuses
          BY DEF SchemaStatuses
        <4> QED BY <1>2, <1>4, <4>1, SchemaAttempting
      <3>2. SchemaSetState("recovering")
        BY <1>4, <1>3, SchemaSettingState DEF Schema!Active
      <3>3. /\ tables' \in Schema!Database /\ tables'.version = tables.version
            /\ tables'.by = tables.by
            /\ tables'.old = tables.old /\ tables'.pending = tables.pending /\ tables'.wide = TRUE
        BY <1>2, <1>4 DEF Schema!Database
      <3> QED BY <1>1, <1>4, <3>1, <3>2, <3>3 DEF Schema!Widen
    <2>4. Schema!TypeOK' /\ SchemaRecordsOK'
      BY <1>1, <1>2, <1>4, <2>2, <2>3 DEF Schema!TypeOK, SchemaRecordsOK, SchemaStatuses,
         SchemaReaches, SchemaAttempted, SchemaSetState
    <2>5. SchemaUpdateOK'
      BY <1>1, <1>2, <2>3 DEF SchemaFiles, SchemaUpdateOK, Schema!Req, Schema!Ours,
         Schema!Transition, SchemaAttempted, SchemaSetState
    <2>6. SchemaUntouchedOK'
      BY <1>1, <1>2, <2>3, SchemaUntouchedKept DEF SchemaFiles, Schema!Ours, SchemaAttempted,
         SchemaSetState
    <2>7. SchemaMadeOK'
      BY <1>1, <1>2, <2>3 DEF SchemaFiles, SchemaMadeOK, Schema!Req, Schema!Ours,
         Schema!Transition, SchemaAttempted, SchemaSetState
    <2>8. SchemaOwnerOK'
      BY <1>1, <1>2, <1>3, <2>3 DEF SchemaFiles, SchemaOwnerOK, SchemaAccount, SchemaIdle,
         Schema!Active, Schema!Req, Schema!Ours, Schema!Transition, SchemaAttempted, SchemaSetState
    <2>9. SchemaStartedOK'
      BY <1>1, <1>2, <1>3, <2>3 DEF SchemaFiles, SchemaStartedOK, Schema!Needed, Schema!Active,
         Schema!Req, Schema!Ours, Schema!Transition, SchemaAttempted, SchemaSetState
    <2>10. SchemaRetryOK'
      BY SMTT(30), <1>1, <1>2, <1>3, <2>3 DEF SchemaFiles, SchemaRetryOK, SchemaIdle, SchemaClosed,
         Schema!Stage, Schema!Req, Schema!Ours, Schema!Transition, SchemaAttempted, SchemaSetState
    <2>11. Schema!FailuresTrue'
      BY <1>1, <1>2, <2>3, SchemaFailuresKept DEF SchemaFiles, Schema!Transition, SchemaAttempted
    <2>12. Schema!CompletionTrue'
      BY <1>1, <1>2, <2>3 DEF SchemaFiles, Schema!CompletionTrue, Schema!Stage, Schema!Req,
         Schema!Ours, Schema!Transition, SchemaAttempted, SchemaSetState
    <2>13. /\ Schema!Req' # Nobody
          /\ Schema!Ours'
          /\ (ruling.state = "recovering")'
          /\ (runner.doing \in {0, Nobody})'
          /\ (attempts[Schema!Req][0] # "started")'
      BY <1>1, <1>2, <2>2, <2>3 DEF Schema!Req, Schema!Ours, Schema!Active, SchemaClosed,
         SchemaReaches, Schema!Stage, SchemaAttempted, SchemaSetState
    <2>14. SchemaPlaceOK'
      BY <2>2, <2>13 DEF SchemaPlaceOK, SchemaWorking, SchemaReaches
    <2>15. SchemaMadeBy' /\ Schema!MutationTrue'
      BY <1>1, <1>2, <1>4, <1>3, <2>2, <2>3 DEF SchemaInvariant, SchemaMadeBy,
         Schema!MutationTrue, SchemaFiles, SchemaMadeOK, Schema!Transition, Schema!Req,
         SchemaReaches
    <2> QED BY <2>4, <2>5, <2>6, <2>7, <2>8, <2>9, <2>10, <2>11, <2>12, <2>14, <2>15
               DEF SchemaInvariant, SchemaFiles
  <1>5. CASE Schema!Injected("preparation") /\ UNCHANGED <<tables, attempts, ruling>>
    <2>1. UNCHANGED schemaFiles /\ UNCHANGED mutation /\ Schema!Fails("preparation", TRUE)
      BY <1>5, <1>1 DEF schemaFiles, Schema!Stops, Schema!Injected, Schema!Widen
    <2>2. SchemaRecordsOK' /\ (mishaps.injected => mishaps'.injected)
      BY <1>5, <1>1, <1>2, <2>1 DEF SchemaRecordsOK, schemaFiles, Schema!Stops, Schema!Injected,
         Schema!Mishap, Schema!Widen
    <2>3. SchemaMayFail("preparation", TRUE)
      BY <1>1, <1>2, <1>5, <1>3 DEF Schema!Active, Schema!Ours, Schema!Transition, SchemaMayFail
    <2> QED BY <1>2, <2>1, <2>2, <2>3, SchemaFailing DEF Schema!Stage
  <1>6. CASE Schema!Stops("preparation") /\ UNCHANGED <<tables, attempts, ruling>>
    <2>1. UNCHANGED schemaFiles /\ UNCHANGED mutation /\ Schema!Fails("preparation", FALSE)
      BY <1>6, <1>1 DEF schemaFiles, Schema!Stops, Schema!Widen
    <2>2. SchemaRecordsOK' /\ (mishaps.injected => mishaps'.injected)
      BY <1>6, <1>1, <1>2, <2>1 DEF SchemaRecordsOK, schemaFiles, Schema!Stops, Schema!Injected,
         Schema!Mishap, Schema!Widen
    <2>3. SchemaMayFail("preparation", FALSE)
      BY <1>1, <1>2, <1>6 DEF Schema!Active, Schema!Ours, Schema!Transition, SchemaMayFail
    <2> QED BY <1>2, <2>1, <2>2, <2>3, SchemaFailing DEF Schema!Stage
  <1> QED BY <1>4, <1>5, <1>6, <1>1, <1>2 DEF Schema!Widen

LEMMA SchemaPreparationReceiptKeeps ==
    ASSUME SchemaInvariant, Schema!PreparationReceipt
    PROVE SchemaInvariant'
  <1> USE SchemaAssumption
  <1>1. /\ runner.at = "prepared"
        /\ Schema!Req # Nobody
        /\ Schema!Ours
        /\ ruling.state = "recovering"
        /\ runner.doing \in {0, Nobody}
        /\ attempts[Schema!Req][0] # "started"
    BY DEF SchemaInvariant, SchemaPlaceOK, SchemaWorking, Schema!PreparationReceipt
  <1>2. /\ runner \in Schema!Runner /\ runner.at \notin {"off", "preflight"}
        /\ runner.at \in SchemaPlaces
        /\ Schema!Req \in Upgrade /\ SchemaFiles /\ Schema!TypeOK /\ SchemaRecordsOK
        /\ tables \in Schema!Database
        /\ tables.version \in 0..Versions /\ (ruling # Schema!NoRow => ruling \in Schema!Control)
    BY <1>1 DEF SchemaInvariant, Schema!TypeOK, SchemaPlaces, Schema!Req, Schema!Database
  <1>3. CASE Schema!Records("preparation", "completed", ruling.generation, FALSE)
             /\ runner' = [runner EXCEPT !.at = "recovery", !.doing = Nobody]
             /\ UNCHANGED mishaps
    <2>1. runner' = [runner EXCEPT !.at = "recovery", !.doing = Nobody]
      BY <1>1, <1>3
    <2>2. SchemaReaches("recovery", Nobody)
      <3>1. Nobody \in 0..Versions \cup {Nobody}
        BY <1>1, <1>2, <1>3 DEF Schema!PreparationReceipt
      <3> QED BY <1>2, <2>1, <3>1, SchemaTurning DEF SchemaPlaces
    <2>3. /\ SchemaReceived("preparation", "completed")
          /\ UNCHANGED <<update, tables, ruling, attempts, bootstrap, mutation, mishaps>>
      BY <1>1, <1>2, <1>3, SchemaReceiving DEF Schema!PreparationReceipt, Schema!Stage,
         Schema!Control, Schema!Ours
    <2>4. Schema!TypeOK' /\ SchemaRecordsOK'
      BY <1>1, <1>2, <1>3, <2>2, <2>3 DEF Schema!TypeOK, SchemaRecordsOK, Schema!Stage,
         SchemaStatuses, SchemaReaches, SchemaReceived
    <2>5. SchemaUpdateOK'
      BY <1>1, <1>2, <2>3 DEF SchemaFiles, SchemaUpdateOK, Schema!Req, Schema!Ours,
         Schema!Transition, SchemaReceived
    <2>6. SchemaUntouchedOK'
      BY <1>1, <1>2, <2>3, SchemaUntouchedKept DEF SchemaFiles, Schema!Ours, SchemaReceived
    <2>7. SchemaMadeOK'
      BY <1>1, <1>2, <2>3 DEF SchemaFiles, SchemaMadeOK, Schema!Req, Schema!Ours,
         Schema!Transition, SchemaReceived
    <2>8. SchemaOwnerOK'
      BY <1>1, <1>2, <2>3 DEF SchemaFiles, SchemaOwnerOK, SchemaAccount, SchemaIdle,
         Schema!Active, Schema!Req, Schema!Ours, Schema!Transition, SchemaReceived
    <2>9. SchemaStartedOK'
      BY <1>1, <1>2, <2>3 DEF SchemaFiles, SchemaStartedOK, Schema!Needed, Schema!Active,
         Schema!Req, Schema!Ours, Schema!Transition, SchemaReceived
    <2>10. SchemaRetryOK'
      BY <1>1, <1>2, <2>3 DEF SchemaFiles, SchemaRetryOK, SchemaClosed, Schema!Stage, Schema!Req,
         Schema!Ours, Schema!Transition, SchemaReceived
    <2>11. Schema!FailuresTrue'
      BY <1>1, <1>2, <2>3, SchemaFailuresKept DEF SchemaFiles, Schema!Transition, SchemaReceived
    <2>12. Schema!CompletionTrue'
      BY <1>1, <1>2, <2>3 DEF SchemaFiles, Schema!CompletionTrue, Schema!Stage, Schema!Req,
         Schema!Ours, Schema!Transition, SchemaReceived
    <2>13. /\ Schema!Req' # Nobody
          /\ (runner.doing = Nobody)'
          /\ (receipts["preparation"].state = "completed")'
          /\ Schema!Ours'
          /\ (ruling.state = "recovering")'
          /\ (attempts[Schema!Req][0] # "started")'
      BY <1>1, <1>2, <2>2, <2>3 DEF Schema!Req, Schema!Ours, Schema!Active, SchemaClosed,
         SchemaReaches, Schema!Stage, SchemaReceived
    <2>14. SchemaPlaceOK'
      BY <2>2, <2>13 DEF SchemaPlaceOK, SchemaWorking, SchemaReaches
    <2>15. SchemaMadeBy' /\ Schema!MutationTrue'
      BY <1>2, <2>2, <2>3, SchemaRecording DEF Schema!Req, SchemaReaches
    <2> QED BY <2>4, <2>5, <2>6, <2>7, <2>8, <2>9, <2>10, <2>11, <2>12, <2>14, <2>15
               DEF SchemaInvariant, SchemaFiles
  <1>4. CASE Schema!Stops("preparation") /\ UNCHANGED receipts
    <2>1. UNCHANGED schemaFiles /\ UNCHANGED mutation /\ Schema!Fails("preparation", FALSE)
      BY <1>4, <1>1 DEF schemaFiles, Schema!Stops, Schema!PreparationReceipt
    <2>2. SchemaRecordsOK' /\ (mishaps.injected => mishaps'.injected)
      BY <1>4, <1>1, <1>2, <2>1 DEF SchemaRecordsOK, schemaFiles, Schema!Stops, Schema!Injected,
         Schema!Mishap, Schema!PreparationReceipt
    <2>3. SchemaMayFail("preparation", FALSE)
      BY <1>1, <1>2, <1>4 DEF Schema!Active, Schema!Ours, Schema!Transition, SchemaMayFail
    <2> QED BY <1>2, <2>1, <2>2, <2>3, SchemaFailing DEF Schema!Stage
  <1> QED BY <1>3, <1>4, <1>1, <1>2 DEF Schema!PreparationReceipt

LEMMA SchemaBeginRecoveryKeeps ==
    ASSUME SchemaInvariant, Schema!BeginRecovery
    PROVE SchemaInvariant'
  <1> USE SchemaAssumption
  <1>1. /\ runner.at = "recovery"
        /\ Schema!Req # Nobody
        /\ runner.doing = Nobody
        /\ receipts["preparation"].state = "completed"
        /\ Schema!Ours
        /\ ruling.state = "recovering"
        /\ attempts[Schema!Req][0] # "started"
    BY DEF SchemaInvariant, SchemaPlaceOK, SchemaWorking, Schema!BeginRecovery
  <1>2. /\ runner \in Schema!Runner /\ runner.at \notin {"off", "preflight"}
        /\ runner.at \in SchemaPlaces
        /\ Schema!Req \in Upgrade /\ SchemaFiles /\ Schema!TypeOK /\ SchemaRecordsOK
        /\ tables \in Schema!Database
        /\ tables.version \in 0..Versions /\ (ruling # Schema!NoRow => ruling \in Schema!Control)
    BY <1>1 DEF SchemaInvariant, Schema!TypeOK, SchemaPlaces, Schema!Req, Schema!Database
  <1>3. CASE Schema!Completed("preparation")
    <2>1. UNCHANGED schemaFiles /\ UNCHANGED mutation /\ Schema!Goes("recovering")
      BY <1>3, <1>1 DEF schemaFiles, Schema!BeginRecovery
    <2>2. SchemaRecordsOK' /\ (mishaps.injected => mishaps'.injected)
      BY <1>3, <1>2, <2>1 DEF SchemaRecordsOK, schemaFiles, Schema!BeginRecovery
    <2>3. SchemaReaches("recovering", runner.doing)
      BY <1>2, <2>1, SchemaReaching DEF SchemaPlaces
    <2>4. /\ Schema!Req' # Nobody
          /\ (runner.doing = Nobody)'
          /\ (receipts["preparation"].state = "completed")'
          /\ Schema!Ours'
          /\ (ruling.state = "recovering")'
          /\ (attempts[Schema!Req][0] # "started")'
      BY <1>1, <1>3, <2>1, <2>2, <2>3 DEF schemaFiles, Schema!Req, Schema!Ours, Schema!Active,
         SchemaClosed, SchemaReaches
    <2>5. SchemaPlaceOK'
      BY <2>3, <2>4 DEF SchemaPlaceOK, SchemaWorking, SchemaReaches
    <2>6. SchemaMadeBy' /\ Schema!MutationTrue'
      BY <1>2, <2>1, <2>3, SchemaRecording DEF schemaFiles, Schema!Req, SchemaReaches
    <2> QED BY <2>1, <2>2, <2>3, <2>5, <2>6, SchemaMoving DEF SchemaReaches
  <1>4. CASE ~Schema!Completed("preparation")
    <2>1. UNCHANGED schemaFiles /\ UNCHANGED mutation /\ Schema!Fails("recovery", FALSE)
      BY <1>4, <1>1 DEF schemaFiles, Schema!BeginRecovery
    <2>2. SchemaRecordsOK' /\ (mishaps.injected => mishaps'.injected)
      BY <1>4, <1>1, <1>2, <2>1 DEF SchemaRecordsOK, Schema!Injected, Schema!Mishap,
         Schema!BeginRecovery
    <2>3. SchemaMayFail("recovery", FALSE)
      BY <1>1, <1>2, <1>4 DEF Schema!Active, Schema!Ours, Schema!Transition, SchemaMayFail
    <2> QED BY <1>2, <2>1, <2>2, <2>3, SchemaFailing DEF Schema!Stage
  <1> QED BY <1>3, <1>4, <1>1, <1>2 DEF Schema!BeginRecovery

LEMMA SchemaRecoverKeeps == ASSUME SchemaInvariant, Schema!Recover PROVE SchemaInvariant'
  <1> USE SchemaAssumption
  <1>1. /\ runner.at = "recovering"
        /\ Schema!Req # Nobody
        /\ runner.doing = Nobody
        /\ receipts["preparation"].state = "completed"
        /\ Schema!Ours
        /\ ruling.state = "recovering"
        /\ attempts[Schema!Req][0] # "started"
    BY DEF SchemaInvariant, SchemaPlaceOK, SchemaWorking, Schema!Recover
  <1>2. /\ runner \in Schema!Runner /\ runner.at \notin {"off", "preflight"}
        /\ runner.at \in SchemaPlaces
        /\ Schema!Req \in Upgrade /\ SchemaFiles /\ Schema!TypeOK /\ SchemaRecordsOK
        /\ tables \in Schema!Database
        /\ tables.version \in 0..Versions /\ (ruling # Schema!NoRow => ruling \in Schema!Control)
    BY <1>1 DEF SchemaInvariant, Schema!TypeOK, SchemaPlaces, Schema!Req, Schema!Database
  <1>3. CASE tables' = [tables EXCEPT !.pending = FALSE] /\ UNCHANGED <<runner, mishaps>>
    <2>1. SchemaReaches("recovering", runner.doing)
      BY <1>1, <1>2, <1>3 DEF SchemaReaches
    <2>2. /\ tables' \in Schema!Database /\ tables'.version = tables.version
          /\ tables'.by = tables.by /\ tables'.old = tables.old /\ ~tables'.pending
          /\ tables'.wide = tables.wide
          /\ UNCHANGED <<update, ruling, attempts, bootstrap, receipts, mutation, mishaps>>
      BY <1>1, <1>2, <1>3 DEF Schema!Recover, Schema!Database
    <2>3. Schema!TypeOK' /\ SchemaRecordsOK'
      BY <1>1, <1>2, <1>3, <2>1, <2>2 DEF Schema!TypeOK, SchemaRecordsOK, SchemaStatuses,
         SchemaReaches
    <2>4. SchemaUpdateOK'
      BY <1>1, <1>2, <2>2 DEF SchemaFiles, SchemaUpdateOK, Schema!Req, Schema!Ours,
         Schema!Transition
    <2>5. SchemaUntouchedOK'
      BY <1>1, <1>2, <2>2, SchemaUntouchedKept DEF SchemaFiles, Schema!Ours
    <2>6. SchemaMadeOK'
      BY <1>1, <1>2, <2>2 DEF SchemaFiles, SchemaMadeOK, Schema!Ours, Schema!Transition
    <2>7. SchemaOwnerOK'
      BY <1>1, <1>2, <2>2 DEF SchemaFiles, SchemaOwnerOK, SchemaAccount, SchemaIdle,
         Schema!Active, Schema!Req, Schema!Ours, Schema!Transition
    <2>8. SchemaStartedOK'
      BY <1>1, <1>2, <2>2 DEF SchemaFiles, SchemaStartedOK, Schema!Needed, Schema!Active,
         Schema!Req, Schema!Ours, Schema!Transition
    <2>9. SchemaRetryOK'
      BY <1>1, <1>2, <2>2 DEF SchemaFiles, SchemaRetryOK, SchemaClosed, Schema!Stage, Schema!Req,
         Schema!Ours, Schema!Transition
    <2>10. Schema!FailuresTrue'
      BY <1>1, <1>2, <2>2 DEF SchemaFiles, Schema!FailuresTrue, Schema!Ours, Schema!Transition
    <2>11. Schema!CompletionTrue'
      BY <1>1, <1>2, <2>2 DEF SchemaFiles, Schema!CompletionTrue, Schema!Stage, Schema!Req,
         Schema!Ours, Schema!Transition
    <2>12. /\ Schema!Req' # Nobody
          /\ (runner.doing = Nobody)'
          /\ (receipts["preparation"].state = "completed")'
          /\ Schema!Ours'
          /\ (ruling.state = "recovering")'
          /\ (attempts[Schema!Req][0] # "started")'
      BY <1>1, <1>2, <2>1, <2>2 DEF Schema!Req, Schema!Ours, Schema!Active, SchemaClosed,
         SchemaReaches, Schema!Stage
    <2>13. SchemaPlaceOK'
      BY <2>1, <2>12 DEF SchemaPlaceOK, SchemaWorking, SchemaReaches
    <2>14. SchemaMadeBy' /\ Schema!MutationTrue'
      BY <1>1, <1>2, <1>3, <2>1, <2>2 DEF SchemaInvariant, SchemaMadeBy, Schema!MutationTrue,
         SchemaFiles, SchemaMadeOK, Schema!Transition, Schema!Req, SchemaReaches
    <2> QED BY <2>3, <2>4, <2>5, <2>6, <2>7, <2>8, <2>9, <2>10, <2>11, <2>13, <2>14
               DEF SchemaInvariant, SchemaFiles
  <1>4. CASE Schema!Stops("recovery") /\ UNCHANGED tables
    <2>1. UNCHANGED schemaFiles /\ UNCHANGED mutation /\ Schema!Fails("recovery", FALSE)
      BY <1>4, <1>1 DEF schemaFiles, Schema!Stops, Schema!Recover
    <2>2. SchemaRecordsOK' /\ (mishaps.injected => mishaps'.injected)
      BY <1>4, <1>1, <1>2, <2>1 DEF SchemaRecordsOK, schemaFiles, Schema!Stops, Schema!Injected,
         Schema!Mishap, Schema!Recover
    <2>3. SchemaMayFail("recovery", FALSE)
      BY <1>1, <1>2, <1>4 DEF Schema!Active, Schema!Ours, Schema!Transition, SchemaMayFail
    <2> QED BY <1>2, <2>1, <2>2, <2>3, SchemaFailing DEF Schema!Stage
  <1> QED BY <1>3, <1>4, <1>1, <1>2 DEF Schema!Recover

LEMMA SchemaRecoveredKeeps == ASSUME SchemaInvariant, Schema!Recovered PROVE SchemaInvariant'
  <1> USE SchemaAssumption
  <1>1. /\ runner.at = "recovering"
        /\ Schema!Req # Nobody
        /\ runner.doing = Nobody
        /\ receipts["preparation"].state = "completed"
        /\ Schema!Ours
        /\ ruling.state = "recovering"
        /\ attempts[Schema!Req][0] # "started"
    BY DEF SchemaInvariant, SchemaPlaceOK, SchemaWorking, Schema!Recovered
  <1>2. /\ runner \in Schema!Runner /\ runner.at \notin {"off", "preflight"}
        /\ runner.at \in SchemaPlaces
        /\ Schema!Req \in Upgrade /\ SchemaFiles /\ Schema!TypeOK /\ SchemaRecordsOK
        /\ tables \in Schema!Database
        /\ tables.version \in 0..Versions /\ (ruling # Schema!NoRow => ruling \in Schema!Control)
    BY <1>1 DEF SchemaInvariant, Schema!TypeOK, SchemaPlaces, Schema!Req, Schema!Database
  <1>3. CASE Schema!Recovered
    <2>1. Schema!Goes("recovered")
      BY <1>1, <1>3 DEF Schema!Recovered
    <2>2. SchemaReaches("recovered", runner.doing)
      BY <1>2, <2>1, SchemaReaching DEF SchemaPlaces
    <2>3. /\ SchemaSetState("migrating")
          /\ ~tables.pending
          /\ UNCHANGED <<update, tables, attempts, bootstrap, receipts, mutation, mishaps>>
      BY <1>1, <1>2, <1>3, SchemaSettingState DEF Schema!Recovered, Schema!Active, Schema!Ours
    <2>4. Schema!TypeOK' /\ SchemaRecordsOK'
      BY <1>1, <1>2, <1>3, <2>2, <2>3 DEF Schema!TypeOK, SchemaRecordsOK, Schema!Stage,
         SchemaStatuses, SchemaReaches, SchemaSetState
    <2>5. SchemaUpdateOK'
      BY <1>1, <1>2, <2>3 DEF SchemaFiles, SchemaUpdateOK, Schema!Req, Schema!Ours,
         Schema!Transition, SchemaSetState
    <2>6. SchemaUntouchedOK'
      BY <1>1, <1>2, <2>3, SchemaUntouchedKept DEF SchemaFiles, Schema!Ours, SchemaSetState
    <2>7. SchemaMadeOK'
      BY <1>1, <1>2, <2>3 DEF SchemaFiles, SchemaMadeOK, Schema!Req, Schema!Ours,
         Schema!Transition, SchemaSetState
    <2>8. SchemaOwnerOK'
      BY <1>1, <1>2, <2>3 DEF SchemaFiles, SchemaOwnerOK, SchemaAccount, SchemaIdle,
         Schema!Active, Schema!Req, Schema!Ours, Schema!Transition, SchemaSetState
    <2>9. SchemaStartedOK'
      BY <1>1, <1>2, <2>3 DEF SchemaFiles, SchemaStartedOK, Schema!Needed, Schema!Active,
         Schema!Req, Schema!Ours, Schema!Transition, SchemaSetState
    <2>10. SchemaRetryOK'
      BY <1>1, <1>2, <2>3 DEF SchemaFiles, SchemaRetryOK, SchemaClosed, Schema!Stage, Schema!Req,
         Schema!Ours, Schema!Transition, SchemaSetState
    <2>11. Schema!FailuresTrue'
      BY <1>1, <1>2, <2>3, SchemaFailuresKept DEF SchemaFiles, Schema!Transition, SchemaSetState
    <2>12. Schema!CompletionTrue'
      BY <1>1, <1>2, <2>3 DEF SchemaFiles, Schema!CompletionTrue, Schema!Stage, Schema!Req,
         Schema!Ours, Schema!Transition, SchemaSetState
    <2>13. /\ Schema!Req' # Nobody
          /\ (runner.doing = Nobody)'
          /\ (receipts["preparation"].state = "completed")'
          /\ Schema!Ours'
          /\ (ruling.state = "migrating" /\ ~tables.pending)'
          /\ (attempts[Schema!Req][0] # "started")'
      BY <1>1, <1>2, <2>2, <2>3 DEF Schema!Req, Schema!Ours, Schema!Active, SchemaClosed,
         SchemaReaches, Schema!Stage, SchemaSetState
    <2>14. SchemaPlaceOK'
      BY <2>2, <2>13 DEF SchemaPlaceOK, SchemaWorking, SchemaReaches
    <2>15. SchemaMadeBy' /\ Schema!MutationTrue'
      BY <1>2, <2>2, <2>3, SchemaRecording DEF Schema!Req, SchemaReaches
    <2> QED BY <2>4, <2>5, <2>6, <2>7, <2>8, <2>9, <2>10, <2>11, <2>12, <2>14, <2>15
               DEF SchemaInvariant, SchemaFiles
  <1> QED BY <1>3, <1>1, <1>2 DEF Schema!Recovered

LEMMA SchemaRecoveryReceiptKeeps ==
    ASSUME SchemaInvariant, Schema!RecoveryReceipt
    PROVE SchemaInvariant'
  <1> USE SchemaAssumption
  <1>1. /\ runner.at = "recovered"
        /\ Schema!Req # Nobody
        /\ runner.doing = Nobody
        /\ receipts["preparation"].state = "completed"
        /\ Schema!Ours
        /\ (ruling.state = "migrating" /\ ~tables.pending)
        /\ attempts[Schema!Req][0] # "started"
    BY DEF SchemaInvariant, SchemaPlaceOK, SchemaWorking, Schema!RecoveryReceipt
  <1>2. /\ runner \in Schema!Runner /\ runner.at \notin {"off", "preflight"}
        /\ runner.at \in SchemaPlaces
        /\ Schema!Req \in Upgrade /\ SchemaFiles /\ Schema!TypeOK /\ SchemaRecordsOK
        /\ tables \in Schema!Database
        /\ tables.version \in 0..Versions /\ (ruling # Schema!NoRow => ruling \in Schema!Control)
    BY <1>1 DEF SchemaInvariant, Schema!TypeOK, SchemaPlaces, Schema!Req, Schema!Database
  <1>3. CASE Schema!Records("recovery", "completed", ruling.generation, FALSE)
                 /\ Schema!Goes("gate") /\ UNCHANGED mishaps
    <2>1. Schema!Goes("gate")
      BY <1>1, <1>3
    <2>2. SchemaReaches("gate", runner.doing)
      BY <1>2, <2>1, SchemaReaching DEF SchemaPlaces
    <2>3. /\ SchemaReceived("recovery", "completed")
          /\ UNCHANGED <<update, tables, ruling, attempts, bootstrap, mutation, mishaps>>
      BY <1>1, <1>2, <1>3, SchemaReceiving DEF Schema!RecoveryReceipt, Schema!Stage,
         Schema!Control, Schema!Ours
    <2>4. Schema!TypeOK' /\ SchemaRecordsOK'
      BY <1>1, <1>2, <1>3, <2>2, <2>3 DEF Schema!TypeOK, SchemaRecordsOK, Schema!Stage,
         SchemaStatuses, SchemaReaches, SchemaReceived
    <2>5. SchemaUpdateOK'
      BY <1>1, <1>2, <2>3 DEF SchemaFiles, SchemaUpdateOK, Schema!Req, Schema!Ours,
         Schema!Transition, SchemaReceived
    <2>6. SchemaUntouchedOK'
      BY <1>1, <1>2, <2>3, SchemaUntouchedKept DEF SchemaFiles, Schema!Ours, SchemaReceived
    <2>7. SchemaMadeOK'
      BY <1>1, <1>2, <2>3 DEF SchemaFiles, SchemaMadeOK, Schema!Req, Schema!Ours,
         Schema!Transition, SchemaReceived
    <2>8. SchemaOwnerOK'
      BY <1>1, <1>2, <2>3 DEF SchemaFiles, SchemaOwnerOK, SchemaAccount, SchemaIdle,
         Schema!Active, Schema!Req, Schema!Ours, Schema!Transition, SchemaReceived
    <2>9. SchemaStartedOK'
      BY <1>1, <1>2, <2>3 DEF SchemaFiles, SchemaStartedOK, Schema!Needed, Schema!Active,
         Schema!Req, Schema!Ours, Schema!Transition, SchemaReceived
    <2>10. SchemaRetryOK'
      BY <1>1, <1>2, <2>3 DEF SchemaFiles, SchemaRetryOK, SchemaClosed, Schema!Stage, Schema!Req,
         Schema!Ours, Schema!Transition, SchemaReceived
    <2>11. Schema!FailuresTrue'
      BY <1>1, <1>2, <2>3, SchemaFailuresKept DEF SchemaFiles, Schema!Transition, SchemaReceived
    <2>12. Schema!CompletionTrue'
      BY <1>1, <1>2, <2>3 DEF SchemaFiles, Schema!CompletionTrue, Schema!Stage, Schema!Req,
         Schema!Ours, Schema!Transition, SchemaReceived
    <2>13. /\ Schema!Req' # Nobody
          /\ (runner.doing = Nobody)'
          /\ (receipts["preparation"].state = "completed")'
          /\ Schema!Ours'
          /\ (ruling.state = "migrating" /\ ~tables.pending)'
          /\ (attempts[Schema!Req][0] # "started")'
      BY <1>1, <1>2, <2>2, <2>3 DEF Schema!Req, Schema!Ours, Schema!Active, SchemaClosed,
         SchemaReaches, Schema!Stage, SchemaReceived
    <2>14. SchemaPlaceOK'
      BY <2>2, <2>13 DEF SchemaPlaceOK, SchemaWorking, SchemaReaches
    <2>15. SchemaMadeBy' /\ Schema!MutationTrue'
      BY <1>2, <2>2, <2>3, SchemaRecording DEF Schema!Req, SchemaReaches
    <2> QED BY <2>4, <2>5, <2>6, <2>7, <2>8, <2>9, <2>10, <2>11, <2>12, <2>14, <2>15
               DEF SchemaInvariant, SchemaFiles
  <1>4. CASE Schema!Stops("recovery") /\ UNCHANGED receipts
    <2>1. UNCHANGED schemaFiles /\ UNCHANGED mutation /\ Schema!Fails("recovery", FALSE)
      BY <1>4, <1>1 DEF schemaFiles, Schema!Stops, Schema!RecoveryReceipt
    <2>2. SchemaRecordsOK' /\ (mishaps.injected => mishaps'.injected)
      BY <1>4, <1>1, <1>2, <2>1 DEF SchemaRecordsOK, schemaFiles, Schema!Stops, Schema!Injected,
         Schema!Mishap, Schema!RecoveryReceipt
    <2>3. SchemaMayFail("recovery", FALSE)
      BY <1>1, <1>2, <1>4 DEF Schema!Active, Schema!Ours, Schema!Transition, SchemaMayFail
    <2> QED BY <1>2, <2>1, <2>2, <2>3, SchemaFailing DEF Schema!Stage
  <1> QED BY <1>3, <1>4, <1>1, <1>2 DEF Schema!RecoveryReceipt

LEMMA SchemaReconciling ==
    ASSUME Schema!TypeOK, attempts' = Schema!Reconciled
    PROVE  /\ attempts' \in [Upgrade -> [0..Versions -> SchemaStatuses]]
           /\ \A r \in Upgrade, t \in 0..Versions :
                 attempts'[r][t] = IF t \in 1..tables.version /\ attempts[r][t] = "started"
                                   THEN "applied" ELSE attempts[r][t]
  <1> DEFINE row(r) == [t \in 0..Versions |->
                           IF t \in 1..tables.version /\ attempts[r][t] = "started" THEN "applied"
                           ELSE attempts[r][t]]
  <1>1. \A r \in Upgrade : row(r) \in [0..Versions -> SchemaStatuses]
    BY DEF Schema!TypeOK, SchemaStatuses
  <1>2. attempts' = [r \in Upgrade |-> row(r)]
    BY DEF Schema!Reconciled
  <1>3. \A r \in Upgrade, t \in 0..Versions :
            row(r)[t] = IF t \in 1..tables.version /\ attempts[r][t] = "started"
                        THEN "applied" ELSE attempts[r][t]
    OBVIOUS
  <1> HIDE DEF row
  <1> QED BY <1>1, <1>2, <1>3

LEMMA SchemaBeginGateKeeps == ASSUME SchemaInvariant, Schema!BeginGate PROVE SchemaInvariant'
  <1> USE SchemaAssumption
  <1>1. /\ runner.at = "gate"
        /\ Schema!Req # Nobody
        /\ runner.doing = Nobody
        /\ receipts["preparation"].state = "completed"
        /\ Schema!Ours
        /\ (ruling.state = "migrating" /\ ~tables.pending)
        /\ attempts[Schema!Req][0] # "started"
    BY DEF SchemaInvariant, SchemaPlaceOK, SchemaWorking, Schema!BeginGate
  <1>2. /\ runner \in Schema!Runner /\ runner.at \notin {"off", "preflight"}
        /\ runner.at \in SchemaPlaces
        /\ Schema!Req \in Upgrade /\ SchemaFiles /\ Schema!TypeOK /\ SchemaRecordsOK
        /\ tables \in Schema!Database
        /\ tables.version \in 0..Versions /\ (ruling # Schema!NoRow => ruling \in Schema!Control)
    BY <1>1 DEF SchemaInvariant, Schema!TypeOK, SchemaPlaces, Schema!Req, Schema!Database
  <1>3. CASE ~(Schema!Completed("recovery") /\ Schema!Lineage)
    <2>1. UNCHANGED schemaFiles /\ UNCHANGED mutation /\ Schema!Fails("gate", FALSE)
      BY <1>3, <1>1 DEF schemaFiles, Schema!Stops, Schema!BeginGate
    <2>2. SchemaRecordsOK' /\ (mishaps.injected => mishaps'.injected)
      BY <1>3, <1>1, <1>2, <2>1 DEF SchemaRecordsOK, Schema!Injected, Schema!Mishap,
         Schema!BeginGate
    <2>3. SchemaMayFail("gate", FALSE)
      BY <1>1, <1>2, <1>3 DEF Schema!Active, Schema!Ours, Schema!Transition, SchemaMayFail
    <2> QED BY <1>2, <2>1, <2>2, <2>3, SchemaFailing DEF Schema!Stage
  <1>4. CASE Schema!Completed("recovery") /\ Schema!Lineage
    <2>1. Schema!Goes("next")
      BY <1>1, <1>4 DEF Schema!BeginGate
    <2>2. SchemaReaches("next", runner.doing)
      BY <1>2, <2>1, SchemaReaching DEF SchemaPlaces
    <2>3. /\ attempts' \in [Upgrade -> [0..Versions -> SchemaStatuses]]
          /\ \A r \in Upgrade, t \in 0..Versions :
                 attempts'[r][t] = IF t \in 1..tables.version /\ attempts[r][t] = "started"
                                   THEN "applied" ELSE attempts[r][t]
          /\ Schema!Lineage
          /\ UNCHANGED <<update, tables, ruling, bootstrap, receipts, mutation, mishaps>>
      BY <1>1, <1>2, <1>4, SchemaReconciling DEF Schema!BeginGate
    <2>4. /\ \A r \in Upgrade, u \in 0..Versions : r # Schema!Req =>
                 attempts'[r][u] = attempts[r][u]
          /\ ruling \in Schema!Control /\ ruling.found = 0 /\ SchemaAccount(Schema!Req)
      <3>1. \A r \in Upgrade, u \in 0..Versions : r # Schema!Req => attempts[r][u] # "started"
        BY <1>1, <1>2 DEF SchemaFiles, SchemaStartedOK, Schema!Ours
      <3>2. ruling \in Schema!Control /\ ruling.found \in 0..Versions
        BY <1>1, <1>2 DEF Schema!Ours, Schema!Control
      <3>3. ruling.found = 0
        <4>1. CASE ruling.found # 0 /\ Versions # 0
          <5>1. tables.version = Versions /\ SchemaIdle(Schema!Req)
            BY <1>1, <1>2, <4>1 DEF SchemaFiles, SchemaOwnerOK, Schema!Active, Schema!Ours
          <5>2. Versions \in Schema!Transition /\ Versions <= tables.version
            BY <4>1, <5>1 DEF Schema!Transition
          <5> QED BY <2>3, <5>1, <5>2 DEF Schema!Lineage, SchemaIdle
        <4> QED BY <3>2, <4>1
      <3>4. SchemaAccount(Schema!Req)
        BY <1>1, <1>2, <3>3 DEF SchemaFiles, SchemaOwnerOK, Schema!Active, Schema!Ours
      <3> QED BY <1>1, <1>2, <2>3, <3>1, <3>2, <3>3, <3>4
    <2>5. Schema!TypeOK' /\ SchemaRecordsOK'
      BY <1>1, <1>2, <1>4, <2>2, <2>3 DEF Schema!TypeOK, SchemaRecordsOK, Schema!Stage,
         SchemaStatuses, SchemaReaches
    <2>6. SchemaUpdateOK'
      BY <1>1, <1>2, <2>3 DEF SchemaFiles, SchemaUpdateOK, Schema!Req, Schema!Ours,
         Schema!Transition
    <2>7. SchemaUntouchedOK'
      BY <1>1, <1>2, <2>3, <2>4, SchemaUntouchedKept DEF SchemaFiles, Schema!Ours
    <2>8. SchemaMadeOK'
      BY <1>1, <1>2, <2>3 DEF SchemaFiles, SchemaMadeOK, Schema!Ours, Schema!Transition
    <2>9. SchemaOwnerOK'
      <3>1. SchemaAccount(Schema!Req)'
        <4> SUFFICES ASSUME NEW t \in Schema!Transition
                     PROVE  attempts'[Schema!Req][t] \in
                                IF t < tables.version THEN {"applied"}
                                ELSE IF t = tables.version THEN {"started", "applied"}
                                ELSE IF t = tables.version + 1 THEN {"none", "started"}
                                ELSE {"none"}
          BY <2>3 DEF SchemaAccount, Schema!Req
        <4>1. t \in 0..Versions /\ (t <= tables.version <=> t \in 1..tables.version)
          BY <1>2 DEF Schema!Transition
        <4>2. attempts'[Schema!Req][t] =
                  IF t <= tables.version /\ attempts[Schema!Req][t] = "started"
                  THEN "applied" ELSE attempts[Schema!Req][t]
          BY <1>2, <2>3, <4>1
        <4>3. attempts[Schema!Req][t] \in IF t < tables.version THEN {"applied"}
                                   ELSE IF t = tables.version THEN {"started", "applied"}
                                   ELSE IF t = tables.version + 1 THEN {"none", "started"}
                                   ELSE {"none"}
          BY <2>4 DEF SchemaAccount
        <4> QED BY <1>2, <4>1, <4>2, <4>3 DEF Schema!Transition
      <3> QED BY <1>1, <1>2, <2>3, <2>4, <3>1 DEF SchemaOwnerOK, Schema!Ours, Schema!Req
    <2>10. SchemaStartedOK'
      BY <1>1, <1>2, <2>3 DEF SchemaFiles, SchemaStartedOK, Schema!Needed, Schema!Active,
         Schema!Req, Schema!Ours, Schema!Transition
    <2>11. SchemaRetryOK'
      BY <1>1, <1>2, <2>3 DEF SchemaFiles, SchemaRetryOK, SchemaIdle, SchemaClosed, Schema!Stage,
         Schema!Req, Schema!Ours, Schema!Transition
    <2>12. Schema!FailuresTrue'
      BY <1>1, <1>2, <2>3, SchemaFailuresKept DEF SchemaFiles, Schema!Transition
    <2>13. Schema!CompletionTrue'
      BY <1>1, <1>2, <2>3 DEF SchemaFiles, Schema!CompletionTrue, Schema!Stage, Schema!Req,
         Schema!Ours, Schema!Transition
    <2>14. /\ Schema!Req' # Nobody
          /\ (runner.doing = Nobody)'
          /\ (receipts["preparation"].state = "completed")'
          /\ Schema!Ours'
          /\ (ruling.state = "migrating" /\ ~tables.pending)'
          /\ (attempts[Schema!Req][0] # "started")'
          /\ (ruling.found = 0)'
          /\ (\A t \in Schema!Transition : t <= tables.version =>
                 attempts[Schema!Req][t] = "applied")'
      <3>1. \A t \in Schema!Transition : t <= tables.version =>
                attempts'[Schema!Req][t] = "applied"
        <4> SUFFICES ASSUME NEW t \in Schema!Transition, t <= tables.version
                     PROVE  attempts'[Schema!Req][t] = "applied"
          OBVIOUS
        <4>1. t \in 1..tables.version /\ t \in 0..Versions
          BY <1>2 DEF Schema!Transition
        <4>2. attempts[Schema!Req][t] \in {"started", "applied"}
          BY <2>3 DEF Schema!Lineage
        <4> QED BY <1>2, <2>3, <4>1, <4>2
      <3> QED BY <1>1, <1>2, <2>2, <2>3, <2>4, <3>1 DEF Schema!Req, Schema!Ours, Schema!Active,
                 SchemaReaches
    <2>15. SchemaPlaceOK'
      BY <2>2, <2>14 DEF SchemaPlaceOK, SchemaWorking, SchemaReaches
    <2>16. SchemaMadeBy' /\ Schema!MutationTrue'
      BY <1>2, <2>2, <2>3, SchemaRecording DEF Schema!Req, SchemaReaches
    <2> QED BY <2>5, <2>6, <2>7, <2>8, <2>9, <2>10, <2>11, <2>12, <2>13, <2>15, <2>16
               DEF SchemaInvariant, SchemaFiles
  <1> QED BY <1>3, <1>4, <1>1, <1>2 DEF Schema!BeginGate

LEMMA SchemaStartAttemptKeeps == ASSUME SchemaInvariant, Schema!StartAttempt PROVE SchemaInvariant'
  <1> USE SchemaAssumption
  <1>1. /\ runner.at = "next"
        /\ Schema!Req # Nobody
        /\ runner.doing = Nobody
        /\ receipts["preparation"].state = "completed"
        /\ Schema!Ours
        /\ (ruling.state = "migrating" /\ ~tables.pending)
        /\ attempts[Schema!Req][0] # "started"
        /\ ruling.found = 0
        /\ (\A t \in Schema!Transition : t <= tables.version =>
               attempts[Schema!Req][t] = "applied")
    BY DEF SchemaInvariant, SchemaPlaceOK, SchemaWorking, Schema!StartAttempt
  <1>2. /\ runner \in Schema!Runner /\ runner.at \notin {"off", "preflight"}
        /\ runner.at \in SchemaPlaces
        /\ Schema!Req \in Upgrade /\ SchemaFiles /\ Schema!TypeOK /\ SchemaRecordsOK
        /\ tables \in Schema!Database
        /\ tables.version \in 0..Versions /\ (ruling # Schema!NoRow => ruling \in Schema!Control)
    BY <1>1 DEF SchemaInvariant, Schema!TypeOK, SchemaPlaces, Schema!Req, Schema!Database
  <1>3. CASE attempts[Schema!Req][tables.version + 1] \in {"none", "started"}
    <2>1. runner' = [runner EXCEPT !.at = "begun", !.doing = tables.version + 1]
      BY <1>1, <1>3 DEF Schema!StartAttempt
    <2>2. SchemaReaches("begun", tables.version + 1)
      <3>1. tables.version + 1 \in 0..Versions \cup {Nobody}
        BY <1>1, <1>2, <1>3 DEF Schema!StartAttempt
      <3> QED BY <1>2, <2>1, <3>1, SchemaTurning DEF SchemaPlaces
    <2>3. /\ SchemaAttempted(tables.version + 1, "started")
          /\ tables.version < Versions
          /\ UNCHANGED <<update, tables, ruling, bootstrap, receipts, mutation, mishaps>>
      BY <1>1, <1>2, <1>3, SchemaAttempting DEF Schema!StartAttempt, SchemaStatuses
    <2>4. Schema!TypeOK' /\ SchemaRecordsOK'
      BY <1>1, <1>2, <1>3, <2>2, <2>3 DEF Schema!TypeOK, SchemaRecordsOK, SchemaStatuses,
         SchemaReaches, SchemaAttempted
    <2>5. SchemaUpdateOK'
      BY <1>1, <1>2, <2>3 DEF SchemaFiles, SchemaUpdateOK, Schema!Req, Schema!Ours,
         Schema!Transition, SchemaAttempted
    <2>6. SchemaUntouchedOK'
      BY <1>1, <1>2, <2>3, SchemaUntouchedKept DEF SchemaFiles, Schema!Ours, SchemaAttempted
    <2>7. SchemaMadeOK'
      BY <1>1, <1>2, <2>3 DEF SchemaFiles, SchemaMadeOK, Schema!Req, Schema!Ours,
         Schema!Transition, SchemaAttempted
    <2>8. SchemaOwnerOK'
      BY <1>1, <1>2, <2>3 DEF SchemaFiles, SchemaOwnerOK, SchemaAccount, SchemaIdle,
         Schema!Active, Schema!Req, Schema!Ours, Schema!Transition, SchemaAttempted
    <2>9. SchemaStartedOK'
      <3> SUFFICES ASSUME NEW r \in Upgrade, NEW t \in 0..Versions,
                          attempts'[r][t] = "started"
                   PROVE  /\ ruling # Schema!NoRow /\ ruling.owner = r
                          /\ t = 0 => ruling.state \in Schema!Active /\ Schema!Needed
        BY <2>3 DEF SchemaStartedOK, Schema!Needed, Schema!NoRow, Schema!Active
      <3>1. CASE r = Schema!Req /\ t = tables.version + 1
        <4>1. t # 0
          BY <1>2, <3>1
        <4> QED BY <1>1, <3>1, <4>1 DEF Schema!Ours
      <3>2. CASE r # Schema!Req \/ t # tables.version + 1
        <4>1. attempts[r][t] = "started"
          BY <2>3, <3>2 DEF SchemaAttempted
        <4> QED BY <1>2, <4>1 DEF SchemaFiles, SchemaStartedOK
      <3> QED BY <3>1, <3>2
    <2>10. SchemaRetryOK'
      BY <1>1, <1>2, <2>3 DEF SchemaFiles, SchemaRetryOK, SchemaClosed, Schema!Stage, Schema!Req,
         Schema!Ours, Schema!Transition, SchemaAttempted
    <2>11. Schema!FailuresTrue'
      BY <1>1, <1>2, <2>3, SchemaFailuresKept DEF SchemaFiles, Schema!Transition, SchemaAttempted
    <2>12. Schema!CompletionTrue'
      BY <1>1, <1>2, <2>3 DEF SchemaFiles, Schema!CompletionTrue, Schema!Stage, Schema!Req,
         Schema!Ours, Schema!Transition, SchemaAttempted
    <2>13. /\ Schema!Req' # Nobody
          /\ (receipts["preparation"].state = "completed")'
          /\ Schema!Ours'
          /\ (ruling.state = "migrating" /\ ~tables.pending)'
          /\ (attempts[Schema!Req][0] # "started")'
          /\ (ruling.found = 0)'
          /\ (runner.doing \in Schema!Transition /\ runner.doing = tables.version + 1)'
          /\ (attempts[Schema!Req][runner.doing] = "started")'
          /\ (\A t \in Schema!Transition : t <= tables.version =>
                 attempts[Schema!Req][t] = "applied")'
      <3>1. \A t \in Schema!Transition : t <= tables.version =>
                attempts'[Schema!Req][t] = "applied"
        <4> SUFFICES ASSUME NEW t \in Schema!Transition, t <= tables.version
                     PROVE  attempts'[Schema!Req][t] = "applied"
          OBVIOUS
        <4>1. t \in 0..Versions /\ t # tables.version + 1
          BY <1>2 DEF Schema!Transition
        <4> QED BY <1>1, <1>2, <2>3, <4>1 DEF SchemaAttempted
      <3>2. attempts'[Schema!Req][0] = attempts[Schema!Req][0]
                /\ tables.version + 1 \in Schema!Transition
        BY <1>2, <2>3 DEF SchemaAttempted, Schema!Transition
      <3> QED BY <1>1, <1>2, <2>2, <2>3, <3>1, <3>2 DEF Schema!Req, Schema!Ours, SchemaReaches,
                 SchemaAttempted
    <2>14. SchemaPlaceOK'
      BY <2>2, <2>13 DEF SchemaPlaceOK, SchemaWorking, SchemaReaches
    <2>15. SchemaMadeBy' /\ Schema!MutationTrue'
      BY <1>2, <2>2, <2>3, SchemaRecording DEF Schema!Req, SchemaReaches
    <2> QED BY <2>4, <2>5, <2>6, <2>7, <2>8, <2>9, <2>10, <2>11, <2>12, <2>14, <2>15
               DEF SchemaInvariant, SchemaFiles
  <1>4. CASE attempts[Schema!Req][tables.version + 1] \notin {"none", "started"}
    <2>1. UNCHANGED schemaFiles /\ UNCHANGED mutation /\ Schema!Ends
      BY <1>4, <1>1 DEF schemaFiles, Schema!StartAttempt
    <2>2. SchemaRecordsOK' /\ (mishaps.injected => mishaps'.injected)
      BY <1>4, <1>2, <2>1 DEF SchemaRecordsOK, schemaFiles, Schema!StartAttempt
    <2> QED BY <2>1, <2>2, SchemaEnding
  <1> QED BY <1>3, <1>4, <1>1, <1>2 DEF Schema!StartAttempt

LEMMA SchemaInjectKeeps == ASSUME SchemaInvariant, Schema!Inject PROVE SchemaInvariant'
  <1> USE SchemaAssumption
  <1>1. /\ runner.at = "begun"
        /\ Schema!Req # Nobody
        /\ receipts["preparation"].state = "completed"
        /\ Schema!Ours
        /\ (ruling.state = "migrating" /\ ~tables.pending)
        /\ attempts[Schema!Req][0] # "started"
        /\ ruling.found = 0
        /\ (runner.doing \in Schema!Transition /\ runner.doing = tables.version + 1)
        /\ attempts[Schema!Req][runner.doing] = "started"
        /\ (\A t \in Schema!Transition : t <= tables.version =>
               attempts[Schema!Req][t] = "applied")
    BY DEF SchemaInvariant, SchemaPlaceOK, SchemaWorking, Schema!Inject
  <1>2. /\ runner \in Schema!Runner /\ runner.at \notin {"off", "preflight"}
        /\ runner.at \in SchemaPlaces
        /\ Schema!Req \in Upgrade /\ SchemaFiles /\ Schema!TypeOK /\ SchemaRecordsOK
        /\ tables \in Schema!Database
        /\ tables.version \in 0..Versions /\ (ruling # Schema!NoRow => ruling \in Schema!Control)
    BY <1>1 DEF SchemaInvariant, Schema!TypeOK, SchemaPlaces, Schema!Req, Schema!Database
  <1>3. CASE Injects /\ ~mishaps.injected
    <2>1. UNCHANGED schemaFiles /\ UNCHANGED mutation /\ Schema!Fails("gate", TRUE)
      BY <1>3, <1>1 DEF schemaFiles, Schema!Stops, Schema!Inject
    <2>2. SchemaRecordsOK' /\ (mishaps.injected => mishaps'.injected)
      BY <1>3, <1>1, <1>2, <2>1 DEF SchemaRecordsOK, Schema!Injected, Schema!Mishap, Schema!Inject
    <2>3. SchemaMayFail("gate", TRUE)
      BY <1>1, <1>2, <1>3 DEF Schema!Active, Schema!Ours, Schema!Transition, SchemaFiles,
         SchemaMadeOK, SchemaOwnerOK, SchemaAccount, Schema!Database, SchemaMayFail
    <2> QED BY <1>2, <2>1, <2>2, <2>3, SchemaFailing DEF Schema!Stage
  <1>4. CASE ~(Injects /\ ~mishaps.injected)
    <2>1. UNCHANGED schemaFiles /\ UNCHANGED mutation /\ Schema!Goes("migrate")
      BY <1>4, <1>1 DEF schemaFiles, Schema!Inject
    <2>2. SchemaRecordsOK' /\ (mishaps.injected => mishaps'.injected)
      BY <1>4, <1>2, <2>1 DEF SchemaRecordsOK, schemaFiles, Schema!Inject
    <2>3. SchemaReaches("migrate", runner.doing)
      BY <1>2, <2>1, SchemaReaching DEF SchemaPlaces
    <2>4. /\ Schema!Req' # Nobody
          /\ (receipts["preparation"].state = "completed")'
          /\ Schema!Ours'
          /\ (ruling.state = "migrating" /\ ~tables.pending)'
          /\ (attempts[Schema!Req][0] # "started")'
          /\ (ruling.found = 0)'
          /\ (runner.doing \in Schema!Transition /\ runner.doing = tables.version + 1)'
          /\ (attempts[Schema!Req][runner.doing] = "started")'
          /\ (\A t \in Schema!Transition : t <= tables.version =>
                 attempts[Schema!Req][t] = "applied")'
          /\ (Injects => mishaps.injected)'
      BY <1>1, <1>4, <2>1, <2>2, <2>3 DEF schemaFiles, Schema!Req, Schema!Ours, Schema!Active,
         SchemaClosed, SchemaReaches
    <2>5. SchemaPlaceOK'
      BY <2>3, <2>4 DEF SchemaPlaceOK, SchemaWorking, SchemaReaches
    <2>6. SchemaMadeBy' /\ Schema!MutationTrue'
      BY <1>2, <2>1, <2>3, SchemaRecording DEF schemaFiles, Schema!Req, SchemaReaches
    <2> QED BY <2>1, <2>2, <2>3, <2>5, <2>6, SchemaMoving DEF SchemaReaches
  <1> QED BY <1>3, <1>4, <1>1, <1>2 DEF Schema!Inject

LEMMA SchemaMigrateKeeps == ASSUME SchemaInvariant, Schema!Migrate PROVE SchemaInvariant'
  <1> USE SchemaAssumption
  <1>1. /\ runner.at = "migrate"
        /\ Schema!Req # Nobody
        /\ receipts["preparation"].state = "completed"
        /\ Schema!Ours
        /\ (ruling.state = "migrating" /\ ~tables.pending)
        /\ attempts[Schema!Req][0] # "started"
        /\ ruling.found = 0
        /\ (runner.doing \in Schema!Transition /\ runner.doing = tables.version + 1)
        /\ attempts[Schema!Req][runner.doing] = "started"
        /\ (\A t \in Schema!Transition : t <= tables.version =>
               attempts[Schema!Req][t] = "applied")
        /\ (Injects => mishaps.injected)
    BY DEF SchemaInvariant, SchemaPlaceOK, SchemaWorking, Schema!Migrate
  <1>2. /\ runner \in Schema!Runner /\ runner.at \notin {"off", "preflight"}
        /\ runner.at \in SchemaPlaces
        /\ Schema!Req \in Upgrade /\ SchemaFiles /\ Schema!TypeOK /\ SchemaRecordsOK
        /\ tables \in Schema!Database
        /\ tables.version \in 0..Versions /\ (ruling # Schema!NoRow => ruling \in Schema!Control)
    BY <1>1 DEF SchemaInvariant, Schema!TypeOK, SchemaPlaces, Schema!Req, Schema!Database
  <1>3. CASE /\ runner.marked /\ Schema!Goes("migrated") /\ UNCHANGED mishaps
             /\ tables' = [tables EXCEPT !.version = @ + 1, !.by[runner.doing] = Schema!Req]
    <2>1. Schema!Goes("migrated")
      BY <1>1, <1>3
    <2>2. SchemaReaches("migrated", runner.doing)
      BY <1>2, <2>1, SchemaReaching DEF SchemaPlaces
    <2>3. /\ tables' \in Schema!Database /\ tables'.version = runner.doing
          /\ tables'.by[runner.doing] = Schema!Req
                 /\ \A t \in Schema!Transition : t # runner.doing => tables'.by[t] = tables.by[t]
          /\ tables'.pending = tables.pending /\ tables'.old = tables.old
          /\ tables'.wide = tables.wide
          /\ runner.marked
          /\ UNCHANGED <<update, ruling, attempts, bootstrap, receipts, mutation, mishaps>>
      BY <1>1, <1>2, <1>3, SchemaMigrating DEF Schema!Migrate
    <2>4. Schema!TypeOK' /\ SchemaRecordsOK'
      BY <1>1, <1>2, <1>3, <2>2, <2>3 DEF Schema!TypeOK, SchemaRecordsOK, SchemaStatuses,
         SchemaReaches
    <2>5. SchemaUpdateOK'
      BY <1>1, <1>2, <2>3 DEF SchemaFiles, SchemaUpdateOK, Schema!Req, Schema!Ours,
         Schema!Transition
    <2>6. SchemaUntouchedOK'
      BY <1>1, <1>2, <2>3, SchemaUntouchedKept DEF SchemaFiles, Schema!Ours
    <2>7. SchemaMadeOK'
      BY <1>1, <1>2, <2>3 DEF SchemaFiles, SchemaMadeOK, Schema!Ours, Schema!Transition
    <2>8. SchemaOwnerOK'
      BY <1>1, <1>2, <2>3 DEF SchemaFiles, SchemaOwnerOK, SchemaAccount, SchemaIdle,
         Schema!Active, Schema!Req, Schema!Ours, Schema!Transition
    <2>9. SchemaStartedOK'
      BY <1>1, <1>2, <2>3 DEF SchemaFiles, SchemaStartedOK, Schema!Needed, Schema!Active,
         Schema!Req, Schema!Ours, Schema!Transition
    <2>10. SchemaRetryOK'
      BY <1>1, <1>2, <2>3 DEF SchemaFiles, SchemaRetryOK, SchemaClosed, Schema!Stage, Schema!Req,
         Schema!Ours, Schema!Transition
    <2>11. Schema!FailuresTrue'
      BY <1>1, <1>2, <2>3 DEF SchemaFiles, Schema!FailuresTrue, Schema!Ours, Schema!Transition
    <2>12. Schema!CompletionTrue'
      BY <1>1, <1>2, <2>3 DEF SchemaFiles, Schema!CompletionTrue, Schema!Stage, Schema!Req,
         Schema!Ours, Schema!Transition
    <2>13. /\ Schema!Req' # Nobody
          /\ (receipts["preparation"].state = "completed")'
          /\ Schema!Ours'
          /\ (ruling.state = "migrating" /\ ~tables.pending)'
          /\ (attempts[Schema!Req][0] # "started")'
          /\ (ruling.found = 0)'
          /\ (runner.doing \in Schema!Transition /\ runner.doing = tables.version)'
          /\ (attempts[Schema!Req][runner.doing] = "started")'
          /\ (\A t \in Schema!Transition : t < tables.version =>
                 attempts[Schema!Req][t] = "applied")'
      BY <1>1, <1>2, <2>2, <2>3 DEF Schema!Req, Schema!Ours, Schema!Transition, Schema!Active,
         SchemaClosed, SchemaReaches, Schema!Stage
    <2>14. SchemaPlaceOK'
      BY <2>2, <2>13 DEF SchemaPlaceOK, SchemaWorking, SchemaReaches
    <2>15. SchemaMadeBy' /\ Schema!MutationTrue'
      BY <1>1, <1>2, <1>3, <2>2, <2>3 DEF SchemaInvariant, SchemaMadeBy, Schema!MutationTrue,
         SchemaFiles, SchemaMadeOK, Schema!Transition, Schema!Req, SchemaReaches
    <2> QED BY <2>4, <2>5, <2>6, <2>7, <2>8, <2>9, <2>10, <2>11, <2>12, <2>14, <2>15
               DEF SchemaInvariant, SchemaFiles
  <1>4. CASE Schema!Stops("gate") /\ UNCHANGED tables
    <2>1. UNCHANGED schemaFiles /\ UNCHANGED mutation /\ Schema!Fails("gate", FALSE)
      BY <1>4, <1>1 DEF schemaFiles, Schema!Stops, Schema!Migrate
    <2>2. SchemaRecordsOK' /\ (mishaps.injected => mishaps'.injected)
      BY <1>4, <1>1, <1>2, <2>1 DEF SchemaRecordsOK, schemaFiles, Schema!Stops, Schema!Injected,
         Schema!Mishap, Schema!Migrate
    <2>3. SchemaMayFail("gate", FALSE)
      BY <1>1, <1>2, <1>4 DEF Schema!Active, Schema!Ours, Schema!Transition, SchemaMayFail
    <2> QED BY <1>2, <2>1, <2>2, <2>3, SchemaFailing DEF Schema!Stage
  <1> QED BY <1>3, <1>4, <1>1, <1>2 DEF Schema!Migrate

LEMMA SchemaFinishAttemptKeeps ==
    ASSUME SchemaInvariant, Schema!FinishAttempt
    PROVE SchemaInvariant'
  <1> USE SchemaAssumption
  <1>1. /\ runner.at = "migrated"
        /\ Schema!Req # Nobody
        /\ receipts["preparation"].state = "completed"
        /\ Schema!Ours
        /\ (ruling.state = "migrating" /\ ~tables.pending)
        /\ attempts[Schema!Req][0] # "started"
        /\ ruling.found = 0
        /\ (runner.doing \in Schema!Transition /\ runner.doing = tables.version)
        /\ attempts[Schema!Req][runner.doing] = "started"
        /\ (\A t \in Schema!Transition : t < tables.version => attempts[Schema!Req][t] = "applied")
    BY DEF SchemaInvariant, SchemaPlaceOK, SchemaWorking, Schema!FinishAttempt
  <1>2. /\ runner \in Schema!Runner /\ runner.at \notin {"off", "preflight"}
        /\ runner.at \in SchemaPlaces
        /\ Schema!Req \in Upgrade /\ SchemaFiles /\ Schema!TypeOK /\ SchemaRecordsOK
        /\ tables \in Schema!Database
        /\ tables.version \in 0..Versions /\ (ruling # Schema!NoRow => ruling \in Schema!Control)
    BY <1>1 DEF SchemaInvariant, Schema!TypeOK, SchemaPlaces, Schema!Req, Schema!Database
  <1>3. CASE attempts' = [attempts EXCEPT ![Schema!Req][runner.doing] = "applied"]
             /\ runner' = [runner EXCEPT !.at = "next", !.doing = Nobody]
             /\ UNCHANGED mishaps
    <2>1. runner' = [runner EXCEPT !.at = "next", !.doing = Nobody]
      BY <1>1, <1>3
    <2>2. SchemaReaches("next", Nobody)
      <3>1. Nobody \in 0..Versions \cup {Nobody}
        BY <1>1, <1>2, <1>3 DEF Schema!FinishAttempt
      <3> QED BY <1>2, <2>1, <3>1, SchemaTurning DEF SchemaPlaces
    <2>3. /\ SchemaAttempted(runner.doing, "applied")
          /\ UNCHANGED <<update, tables, ruling, bootstrap, receipts, mutation, mishaps>>
      BY <1>1, <1>2, <1>3, SchemaAttempting DEF Schema!FinishAttempt, SchemaStatuses
    <2>4. Schema!TypeOK' /\ SchemaRecordsOK'
      BY <1>1, <1>2, <1>3, <2>2, <2>3 DEF Schema!TypeOK, SchemaRecordsOK, SchemaStatuses,
         SchemaReaches, SchemaAttempted
    <2>5. SchemaUpdateOK'
      BY <1>1, <1>2, <2>3 DEF SchemaFiles, SchemaUpdateOK, Schema!Req, Schema!Ours,
         Schema!Transition, SchemaAttempted
    <2>6. SchemaUntouchedOK'
      BY <1>1, <1>2, <2>3, SchemaUntouchedKept DEF SchemaFiles, Schema!Ours, SchemaAttempted
    <2>7. SchemaMadeOK'
      BY <1>1, <1>2, <2>3 DEF SchemaFiles, SchemaMadeOK, Schema!Req, Schema!Ours,
         Schema!Transition, SchemaAttempted
    <2>8. SchemaOwnerOK'
      BY <1>1, <1>2, <2>3 DEF SchemaFiles, SchemaOwnerOK, SchemaAccount, SchemaIdle,
         Schema!Active, Schema!Req, Schema!Ours, Schema!Transition, SchemaAttempted
    <2>9. SchemaStartedOK'
      BY <1>1, <1>2, <2>3 DEF SchemaFiles, SchemaStartedOK, Schema!Needed, Schema!Active,
         Schema!Req, Schema!Ours, Schema!Transition, SchemaAttempted
    <2>10. SchemaRetryOK'
      BY <1>1, <1>2, <2>3 DEF SchemaFiles, SchemaRetryOK, SchemaClosed, Schema!Stage, Schema!Req,
         Schema!Ours, Schema!Transition, SchemaAttempted
    <2>11. Schema!FailuresTrue'
      BY <1>1, <1>2, <2>3, SchemaFailuresKept DEF SchemaFiles, Schema!Transition, SchemaAttempted
    <2>12. Schema!CompletionTrue'
      BY <1>1, <1>2, <2>3 DEF SchemaFiles, Schema!CompletionTrue, Schema!Stage, Schema!Req,
         Schema!Ours, Schema!Transition, SchemaAttempted
    <2>13. /\ Schema!Req' # Nobody
          /\ (runner.doing = Nobody)'
          /\ (receipts["preparation"].state = "completed")'
          /\ Schema!Ours'
          /\ (ruling.state = "migrating" /\ ~tables.pending)'
          /\ (attempts[Schema!Req][0] # "started")'
          /\ (ruling.found = 0)'
          /\ (\A t \in Schema!Transition : t <= tables.version =>
                 attempts[Schema!Req][t] = "applied")'
      BY <1>1, <1>2, <2>2, <2>3 DEF Schema!Req, Schema!Ours, Schema!Transition, Schema!Active,
         SchemaClosed, SchemaReaches, Schema!Stage, SchemaAttempted
    <2>14. SchemaPlaceOK'
      BY <2>2, <2>13 DEF SchemaPlaceOK, SchemaWorking, SchemaReaches
    <2>15. SchemaMadeBy' /\ Schema!MutationTrue'
      BY <1>2, <2>2, <2>3, SchemaRecording DEF Schema!Req, SchemaReaches
    <2> QED BY <2>4, <2>5, <2>6, <2>7, <2>8, <2>9, <2>10, <2>11, <2>12, <2>14, <2>15
               DEF SchemaInvariant, SchemaFiles
  <1>4. CASE Schema!Stops("gate") /\ UNCHANGED attempts
    <2>1. UNCHANGED schemaFiles /\ UNCHANGED mutation /\ Schema!Fails("gate", FALSE)
      BY <1>4, <1>1 DEF schemaFiles, Schema!Stops, Schema!FinishAttempt
    <2>2. SchemaRecordsOK' /\ (mishaps.injected => mishaps'.injected)
      BY <1>4, <1>1, <1>2, <2>1 DEF SchemaRecordsOK, schemaFiles, Schema!Stops, Schema!Injected,
         Schema!Mishap, Schema!FinishAttempt
    <2>3. SchemaMayFail("gate", FALSE)
      BY <1>1, <1>2, <1>4 DEF Schema!Active, Schema!Ours, Schema!Transition, SchemaMayFail
    <2> QED BY <1>2, <2>1, <2>2, <2>3, SchemaFailing DEF Schema!Stage
  <1> QED BY <1>3, <1>4, <1>1, <1>2 DEF Schema!FinishAttempt

LEMMA SchemaCompleteKeeps == ASSUME SchemaInvariant, Schema!Complete PROVE SchemaInvariant'
  <1> USE SchemaAssumption
  <1>1. /\ runner.at = "next"
        /\ Schema!Req # Nobody
        /\ runner.doing = Nobody
        /\ receipts["preparation"].state = "completed"
        /\ Schema!Ours
        /\ (ruling.state = "migrating" /\ ~tables.pending)
        /\ attempts[Schema!Req][0] # "started"
        /\ ruling.found = 0
        /\ (\A t \in Schema!Transition : t <= tables.version =>
               attempts[Schema!Req][t] = "applied")
    BY DEF SchemaInvariant, SchemaPlaceOK, SchemaWorking, Schema!Complete
  <1>2. /\ runner \in Schema!Runner /\ runner.at \notin {"off", "preflight"}
        /\ runner.at \in SchemaPlaces
        /\ Schema!Req \in Upgrade /\ SchemaFiles /\ Schema!TypeOK /\ SchemaRecordsOK
        /\ tables \in Schema!Database
        /\ tables.version \in 0..Versions /\ (ruling # Schema!NoRow => ruling \in Schema!Control)
    BY <1>1 DEF SchemaInvariant, Schema!TypeOK, SchemaPlaces, Schema!Req, Schema!Database
  <1>3. CASE ruling' = [ruling EXCEPT !.state = "completed"] /\ Schema!Goes("finished")
                 /\ UNCHANGED mishaps
    <2>1. Schema!Goes("finished")
      BY <1>1, <1>3
    <2>2. SchemaReaches("finished", runner.doing)
      BY <1>2, <2>1, SchemaReaching DEF SchemaPlaces
    <2>3. /\ SchemaSetState("completed")
          /\ tables.version = Versions
          /\ UNCHANGED <<update, tables, attempts, bootstrap, receipts, mutation, mishaps>>
      BY <1>1, <1>2, <1>3, SchemaSettingState DEF Schema!Complete, Schema!Active, Schema!Ours
    <2>4. Schema!TypeOK' /\ SchemaRecordsOK'
      BY <1>1, <1>2, <1>3, <2>2, <2>3 DEF Schema!TypeOK, SchemaRecordsOK, Schema!Stage,
         SchemaStatuses, SchemaReaches, SchemaSetState
    <2>5. SchemaUpdateOK'
      BY <1>1, <1>2, <2>3 DEF SchemaFiles, SchemaUpdateOK, Schema!Req, Schema!Ours,
         Schema!Transition, SchemaSetState
    <2>6. SchemaUntouchedOK'
      BY <1>1, <1>2, <2>3, SchemaUntouchedKept DEF SchemaFiles, Schema!Ours, SchemaSetState
    <2>7. SchemaMadeOK'
      BY <1>1, <1>2, <2>3 DEF SchemaFiles, SchemaMadeOK, Schema!Req, Schema!Ours,
         Schema!Transition, SchemaSetState
    <2>8. SchemaOwnerOK'
      BY <1>1, <1>2, <2>3 DEF SchemaFiles, SchemaOwnerOK, SchemaIdle, Schema!Active, Schema!Req,
         Schema!Ours, Schema!Transition, SchemaSetState
    <2>9. SchemaStartedOK'
      BY <1>1, <1>2, <2>3 DEF SchemaFiles, SchemaStartedOK, Schema!Active, Schema!Req,
         Schema!Ours, Schema!Transition, SchemaSetState
    <2>10. SchemaRetryOK'
      BY <1>1, <1>2, <2>3 DEF SchemaFiles, SchemaRetryOK, SchemaClosed, Schema!Stage, Schema!Req,
         Schema!Ours, Schema!Transition, SchemaSetState
    <2>11. Schema!FailuresTrue'
      BY <1>1, <1>2, <2>3, SchemaFailuresKept DEF SchemaFiles, Schema!Transition, SchemaSetState
    <2>12. Schema!CompletionTrue'
      <3>1. \A t \in 0..Versions : attempts[Schema!Req][t] # "started"
        BY <1>1, <1>2, <2>3 DEF Schema!Transition
      <3>2. \A r \in Upgrade, t \in 0..Versions : attempts[r][t] # "started"
        BY <1>1, <1>2, <3>1 DEF SchemaFiles, SchemaStartedOK, Schema!Ours
      <3> QED BY <1>1, <1>2, <2>3, <3>2 DEF SchemaFiles, Schema!CompletionTrue, SchemaSetState
    <2>13. /\ Schema!Req' # Nobody
          /\ (runner.doing = Nobody)'
          /\ (receipts["preparation"].state = "completed")'
          /\ Schema!Ours'
          /\ (ruling.state = "completed" /\ tables.version = Versions)'
          /\ (attempts[Schema!Req][0] # "started")'
      BY <1>1, <1>2, <2>2, <2>3 DEF Schema!Req, Schema!Ours, Schema!Active, SchemaClosed,
         SchemaReaches, Schema!Stage, SchemaSetState
    <2>14. SchemaPlaceOK'
      BY <2>2, <2>13 DEF SchemaPlaceOK, SchemaWorking, SchemaReaches
    <2>15. SchemaMadeBy' /\ Schema!MutationTrue'
      BY <1>2, <2>2, <2>3, SchemaRecording DEF Schema!Req, SchemaReaches
    <2> QED BY <2>4, <2>5, <2>6, <2>7, <2>8, <2>9, <2>10, <2>11, <2>12, <2>14, <2>15
               DEF SchemaInvariant, SchemaFiles
  <1>4. CASE Schema!Stops("gate") /\ UNCHANGED ruling
    <2>1. UNCHANGED schemaFiles /\ UNCHANGED mutation /\ Schema!Fails("gate", FALSE)
      BY <1>4, <1>1 DEF schemaFiles, Schema!Stops, Schema!Complete
    <2>2. SchemaRecordsOK' /\ (mishaps.injected => mishaps'.injected)
      BY <1>4, <1>1, <1>2, <2>1 DEF SchemaRecordsOK, schemaFiles, Schema!Stops, Schema!Injected,
         Schema!Mishap, Schema!Complete
    <2>3. SchemaMayFail("gate", FALSE)
      BY <1>1, <1>2, <1>4 DEF Schema!Active, Schema!Ours, Schema!Transition, SchemaMayFail
    <2> QED BY <1>2, <2>1, <2>2, <2>3, SchemaFailing DEF Schema!Stage
  <1> QED BY <1>3, <1>4, <1>1, <1>2 DEF Schema!Complete

LEMMA SchemaGateReceiptKeeps == ASSUME SchemaInvariant, Schema!GateReceipt PROVE SchemaInvariant'
  <1> USE SchemaAssumption
  <1>1. /\ runner.at = "finished"
        /\ Schema!Req # Nobody
        /\ runner.doing = Nobody
        /\ receipts["preparation"].state = "completed"
        /\ Schema!Ours
        /\ (ruling.state = "completed" /\ tables.version = Versions)
        /\ attempts[Schema!Req][0] # "started"
    BY DEF SchemaInvariant, SchemaPlaceOK, SchemaWorking, Schema!GateReceipt
  <1>2. /\ runner \in Schema!Runner /\ runner.at \notin {"off", "preflight"}
        /\ runner.at \in SchemaPlaces
        /\ Schema!Req \in Upgrade /\ SchemaFiles /\ Schema!TypeOK /\ SchemaRecordsOK
        /\ tables \in Schema!Database
        /\ tables.version \in 0..Versions /\ (ruling # Schema!NoRow => ruling \in Schema!Control)
    BY <1>1 DEF SchemaInvariant, Schema!TypeOK, SchemaPlaces, Schema!Req, Schema!Database
  <1>3. CASE Schema!Records("gate", "completed", ruling.generation, FALSE)
                 /\ Schema!Goes("done") /\ UNCHANGED mishaps
    <2>1. Schema!Goes("done")
      BY <1>1, <1>3
    <2>2. SchemaReaches("done", runner.doing)
      BY <1>2, <2>1, SchemaReaching DEF SchemaPlaces
    <2>3. /\ SchemaReceived("gate", "completed")
          /\ UNCHANGED <<update, tables, ruling, attempts, bootstrap, mutation, mishaps>>
      BY <1>1, <1>2, <1>3, SchemaReceiving DEF Schema!GateReceipt, Schema!Stage, Schema!Control,
         Schema!Ours
    <2>4. Schema!TypeOK' /\ SchemaRecordsOK'
      BY <1>1, <1>2, <1>3, <2>2, <2>3 DEF Schema!TypeOK, SchemaRecordsOK, Schema!Stage,
         SchemaStatuses, SchemaReaches, SchemaReceived
    <2>5. SchemaUpdateOK'
      BY <1>1, <1>2, <2>3 DEF SchemaFiles, SchemaUpdateOK, Schema!Req, Schema!Ours,
         Schema!Transition, SchemaReceived
    <2>6. SchemaUntouchedOK'
      BY <1>1, <1>2, <2>3, SchemaUntouchedKept DEF SchemaFiles, Schema!Ours, SchemaReceived
    <2>7. SchemaMadeOK'
      BY <1>1, <1>2, <2>3 DEF SchemaFiles, SchemaMadeOK, Schema!Req, Schema!Ours,
         Schema!Transition, SchemaReceived
    <2>8. SchemaOwnerOK'
      BY <1>1, <1>2, <2>3 DEF SchemaFiles, SchemaOwnerOK, SchemaIdle, Schema!Active, Schema!Req,
         Schema!Ours, Schema!Transition, SchemaReceived
    <2>9. SchemaStartedOK'
      BY <1>1, <1>2, <2>3 DEF SchemaFiles, SchemaStartedOK, Schema!Active, Schema!Req,
         Schema!Ours, Schema!Transition, SchemaReceived
    <2>10. SchemaRetryOK'
      BY <1>1, <1>2, <2>3 DEF SchemaFiles, SchemaRetryOK, SchemaClosed, Schema!Stage, Schema!Req,
         Schema!Ours, Schema!Transition, SchemaReceived
    <2>11. Schema!FailuresTrue'
      BY <1>1, <1>2, <2>3, SchemaFailuresKept DEF SchemaFiles, Schema!Transition, SchemaReceived
    <2>12. Schema!CompletionTrue'
      BY <1>1, <1>2, <2>3 DEF SchemaFiles, Schema!CompletionTrue, Schema!Stage, Schema!Req,
         Schema!Ours, Schema!Transition, SchemaReceived
    <2>13. /\ Schema!Req' # Nobody
          /\ (runner.doing = Nobody)'
          /\ (receipts["preparation"].state = "completed")'
          /\ Schema!Ours'
          /\ (ruling.state = "completed" /\ tables.version = Versions)'
          /\ (attempts[Schema!Req][0] # "started")'
      BY <1>1, <1>2, <2>2, <2>3 DEF Schema!Req, Schema!Ours, Schema!Active, SchemaClosed,
         SchemaReaches, Schema!Stage, SchemaReceived
    <2>14. SchemaPlaceOK'
      BY <2>2, <2>13 DEF SchemaPlaceOK, SchemaWorking, SchemaReaches
    <2>15. SchemaMadeBy' /\ Schema!MutationTrue'
      BY <1>2, <2>2, <2>3, SchemaRecording DEF Schema!Req, SchemaReaches
    <2> QED BY <2>4, <2>5, <2>6, <2>7, <2>8, <2>9, <2>10, <2>11, <2>12, <2>14, <2>15
               DEF SchemaInvariant, SchemaFiles
  <1>4. CASE Schema!Stops("gate") /\ UNCHANGED receipts
    <2>1. UNCHANGED schemaFiles /\ UNCHANGED mutation /\ Schema!Fails("gate", FALSE)
      BY <1>4, <1>1 DEF schemaFiles, Schema!Stops, Schema!GateReceipt
    <2>2. SchemaRecordsOK' /\ (mishaps.injected => mishaps'.injected)
      BY <1>4, <1>1, <1>2, <2>1 DEF SchemaRecordsOK, schemaFiles, Schema!Stops, Schema!Injected,
         Schema!Mishap, Schema!GateReceipt
    <2>3. SchemaMayFail("gate", FALSE)
      BY <1>1, <1>2, <1>4 DEF Schema!Active, Schema!Ours, Schema!Transition, SchemaMayFail
    <2> QED BY <1>2, <2>1, <2>2, <2>3, SchemaFailing DEF Schema!Stage
  <1> QED BY <1>3, <1>4, <1>1, <1>2 DEF Schema!GateReceipt

\* A step of the process that is not about the files.
LEMMA SchemaRefusedKeeps == ASSUME SchemaInvariant, Schema!Refused PROVE SchemaInvariant'
  <1>1. UNCHANGED schemaFiles /\ UNCHANGED mutation /\ Schema!Ends
    BY DEF Schema!Refused, schemaFiles
  <1>2. SchemaRecordsOK' /\ (mishaps.injected => mishaps'.injected)
    BY <1>1 DEF Schema!Refused, SchemaRecordsOK, SchemaInvariant, schemaFiles
  <1> QED BY <1>1, <1>2, SchemaEnding

LEMMA SchemaDiesKeeps == ASSUME SchemaInvariant, Schema!Dies PROVE SchemaInvariant'
  <1>1. UNCHANGED schemaFiles /\ UNCHANGED mutation /\ Schema!Ends
    BY DEF Schema!Dies, schemaFiles
  <1>2. SchemaRecordsOK' /\ (mishaps.injected => mishaps'.injected)
    BY <1>1, SchemaAssumption DEF Schema!Dies, Schema!Mishap, SchemaRecordsOK, SchemaInvariant,
       schemaFiles
  <1> QED BY <1>1, <1>2, SchemaEnding

LEMMA SchemaBeginKeeps ==
    ASSUME SchemaInvariant, NEW migrates \in BOOLEAN, Schema!Begin(migrates)
    PROVE SchemaInvariant'
  <1>1. UNCHANGED schemaFiles /\ UNCHANGED mutation /\ UNCHANGED mishaps /\ Schema!Req # Nobody
    BY DEF Schema!Begin, schemaFiles
  <1>2. /\ runner' \in Schema!Runner /\ runner'.migrates = migrates /\ ~runner'.marked
        /\ runner'.doing = Nobody
        /\ runner'.at = IF migrates THEN "preflight" ELSE "preparation"
    BY DEF Schema!Begin, Schema!Off, Schema!Runner, Schema!Stage
  <1>3. SchemaRecordsOK'
    BY <1>1 DEF SchemaRecordsOK, SchemaInvariant, schemaFiles
  <1>4. SchemaPlaceOK'
    BY <1>1, <1>2 DEF SchemaPlaceOK, SchemaWorking, schemaFiles, Schema!Req
  <1>5. SchemaMadeBy' /\ Schema!MutationTrue'
    BY <1>1, <1>2 DEF SchemaInvariant, SchemaMadeBy, Schema!MutationTrue, schemaFiles
  <1> QED BY <1>1, <1>2, <1>3, <1>4, <1>5, SchemaMoving

LEMMA SchemaPreflightKeeps == ASSUME SchemaInvariant, Schema!Preflight PROVE SchemaInvariant'
  <1>1. runner.at = "preflight" /\ Schema!Req # Nobody /\ runner.migrates /\ ~runner.marked
        /\ runner.doing = Nobody /\ runner \in Schema!Runner /\ Schema!Req \in Upgrade
    BY DEF SchemaInvariant, Schema!TypeOK, SchemaPlaceOK, SchemaWorking, Schema!Preflight,
       Schema!Req
  <1>2. UNCHANGED schemaFiles /\ UNCHANGED mishaps
    BY DEF Schema!Preflight, schemaFiles
  <1>3. CASE ~(update.status[Schema!Req] = "active" /\ Schema!SourceShape)
    <2>1. UNCHANGED mutation /\ Schema!Ends
      BY <1>3 DEF Schema!Preflight
    <2> QED BY <1>2, <2>1, SchemaEnding DEF SchemaInvariant, SchemaRecordsOK, schemaFiles
  <1>4. CASE update.status[Schema!Req] = "active" /\ Schema!SourceShape
    <2>1. mutation' = [request |-> Schema!Req, started |-> FALSE, state |-> "backup_pending"]
          /\ Schema!Goes("backup")
      BY <1>4 DEF Schema!Preflight
    <2>2. SchemaReaches("backup", Nobody)
      BY <1>1, <2>1, SchemaReaching DEF SchemaPlaces
    <2>3. SchemaRecordsOK'
      BY <1>1, <1>2, <2>1 DEF SchemaInvariant, SchemaRecordsOK, schemaFiles
    <2>4. SchemaPlaceOK'
      BY <1>1, <1>2, <2>2 DEF SchemaPlaceOK, SchemaWorking, SchemaReaches, schemaFiles, Schema!Req
    <2>5. SchemaMadeBy' /\ Schema!MutationTrue'
      <3>1. /\ mutation'.request = Schema!Req' /\ mutation'.state = "backup_pending"
            /\ tables'.version = 0 /\ ~tables'.wide /\ runner'.marked = FALSE
        BY <1>1, <1>2, <1>4, <2>1, <2>2 DEF schemaFiles, Schema!Req, SchemaReaches,
           Schema!SourceShape
      <3> QED BY <3>1 DEF SchemaMadeBy, Schema!MutationTrue, Schema!Transition
    <2> QED BY <1>2, <2>2, <2>3, <2>4, <2>5, SchemaMoving DEF SchemaReaches
  <1> QED BY <1>3, <1>4

LEMMA SchemaMarkKeeps == ASSUME SchemaInvariant, Schema!Mark PROVE SchemaInvariant'
  <1>1. /\ runner.at \in {"widen", "migrate", "recovering"} /\ runner \in Schema!Runner
        /\ Schema!Req # Nobody /\ Schema!Req \in Upgrade
    BY DEF SchemaInvariant, Schema!TypeOK, SchemaPlaceOK, SchemaWorking, Schema!Mark, Schema!Req
  <1>2. UNCHANGED schemaFiles /\ UNCHANGED mishaps
    BY DEF Schema!Mark, schemaFiles
  <1>3. /\ runner' \in Schema!Runner /\ runner'.at = runner.at /\ runner'.doing = runner.doing
        /\ runner'.migrates = runner.migrates
    BY <1>1 DEF Schema!Mark, Schema!Runner
  <1>4. /\ mutation'.request = mutation.request
        /\ runner.migrates => mutation'.started /\ mutation'.state = "migrating"
        /\ ~runner.migrates => UNCHANGED mutation
    BY DEF Schema!Mark, Schema!Marks, SchemaInvariant, SchemaRecordsOK
  <1>5. SchemaRecordsOK'
    BY <1>2 DEF Schema!Mark, Schema!Marks, SchemaInvariant, SchemaRecordsOK, schemaFiles
  <1>6. SchemaPlaceOK'
    BY <1>1, <1>2, <1>3 DEF SchemaInvariant, SchemaPlaceOK, SchemaWorking, schemaFiles,
       Schema!Req, Schema!Ours, SchemaClosed
  <1>7. SchemaMadeBy' /\ Schema!MutationTrue'
    BY <1>1, <1>2, <1>3, <1>4 DEF SchemaInvariant, SchemaMadeBy, Schema!MutationTrue, schemaFiles,
       Schema!Req
  <1> QED BY <1>2, <1>3, <1>5, <1>6, <1>7, SchemaMoving

LEMMA SchemaFinishKeeps == ASSUME SchemaInvariant, Schema!Finish PROVE SchemaInvariant'
  <1>1. runner.at = "done" /\ tables.version = Versions /\ Schema!Req # Nobody
            /\ tables \in Schema!Database
    BY DEF SchemaInvariant, Schema!TypeOK, SchemaPlaceOK, SchemaWorking, Schema!Finish
  <1>2. UNCHANGED schemaFiles /\ UNCHANGED mishaps /\ runner' \in Schema!Runner
            /\ runner'.at = "off"
    BY SchemaRunnerTyped DEF Schema!Finish, Schema!Ends, schemaFiles
  <1>3. SchemaRecordsOK'
    BY <1>2 DEF Schema!Finish, SchemaInvariant, SchemaRecordsOK, schemaFiles
  <1>4. SchemaPlaceOK'
    BY <1>2 DEF SchemaPlaceOK, SchemaWorking
  <1>5. SchemaMadeBy' /\ Schema!MutationTrue'
    <2>1. CASE runner.migrates /\ runner.marked
      <3>1. mutation'.request = mutation.request /\ mutation.request = Schema!Req
        BY <1>1, <2>1 DEF Schema!Finish, SchemaInvariant, SchemaMadeBy, SchemaRecordsOK
      <3>2. \A t \in Schema!Transition : tables.by[t] = Schema!Req
        BY <1>1, <2>1, SchemaAssumption DEF SchemaInvariant, SchemaMadeBy, Schema!Transition
      <3> QED BY <1>1, <1>2, <3>1, <3>2 DEF SchemaMadeBy, Schema!MutationTrue, schemaFiles
    <2>2. CASE ~(runner.migrates /\ runner.marked)
      <3>1. UNCHANGED mutation
        BY <2>2 DEF Schema!Finish
      <3> QED BY <1>2, <3>1, SchemaRecording DEF schemaFiles, Schema!Req
    <2> QED BY <2>1, <2>2
  <1> QED BY <1>2, <1>3, <1>4, <1>5, SchemaMoving

LEMMA SchemaGiveUpKeeps ==
    ASSUME SchemaInvariant, NEW r \in Upgrade, Schema!GiveUp(r)
    PROVE SchemaInvariant'
  <1>1. /\ UNCHANGED <<tables, ruling, attempts, bootstrap, receipts, mutation, runner, mishaps>>
        /\ update.status[r] = "active" /\ r = Schema!Req
    BY DEF Schema!GiveUp, SchemaInvariant, SchemaFiles, SchemaUpdateOK
  <1>2. /\ Schema!TypeOK' /\ SchemaRecordsOK' /\ Schema!Req' = Schema!Req
        /\ update'.status[r] = "ended"
        /\ \A q \in Upgrade : q # r => update'.status[q] = update.status[q]
    BY <1>1 DEF Schema!GiveUp, SchemaInvariant, Schema!TypeOK, SchemaRecordsOK, Schema!Req
  <1>3. SchemaUpdateOK' /\ SchemaUntouchedOK'
    BY <1>1, <1>2 DEF SchemaInvariant, SchemaFiles, SchemaUpdateOK, SchemaUntouchedOK,
       SchemaUntouched, Schema!Ours, Schema!TypeOK, Schema!Control
  <1>4. SchemaMadeOK' /\ SchemaOwnerOK' /\ SchemaStartedOK' /\ Schema!FailuresTrue'
            /\ Schema!CompletionTrue'
    BY <1>1 DEF SchemaInvariant, SchemaFiles, SchemaMadeOK, SchemaOwnerOK, SchemaStartedOK,
       Schema!FailuresTrue, Schema!CompletionTrue, SchemaAccount, SchemaIdle, Schema!Needed
  <1>5. SchemaRetryOK'
    BY <1>1, <1>2 DEF SchemaInvariant, SchemaFiles, SchemaRetryOK, SchemaIdle, SchemaClosed
  <1>6. SchemaPlaceOK' /\ SchemaMadeBy' /\ Schema!MutationTrue'
    BY <1>1, <1>2 DEF SchemaInvariant, SchemaPlaceOK, SchemaWorking, SchemaMayFail, SchemaMadeBy,
       Schema!MutationTrue, Schema!Ours, SchemaClosed
  <1> QED BY <1>2, <1>3, <1>4, <1>5, <1>6 DEF SchemaInvariant, SchemaFiles

LEMMA SchemaAdmitKeeps ==
    ASSUME SchemaInvariant, NEW r \in Upgrade, Schema!Admit(r)
    PROVE SchemaInvariant'
  <1>1. /\ UNCHANGED <<tables, ruling, attempts, bootstrap, receipts, mutation, runner, mishaps>>
        /\ update.status[r] = "new" /\ runner.at = "off"
        /\ \A q \in Upgrade : update.status[q] # "active"
    BY DEF Schema!Admit
  <1>2. /\ Schema!TypeOK' /\ SchemaRecordsOK' /\ Schema!Req' = r /\ update'.status[r] = "active"
        /\ \A q \in Upgrade : q # r => update'.status[q] = update.status[q]
    BY DEF Schema!Admit, SchemaInvariant, Schema!TypeOK, SchemaRecordsOK, Schema!Req
  <1>3. r # Nobody /\ (ruling # Schema!NoRow => ruling \in Schema!Control /\ ruling.owner # r)
    BY <1>1, SchemaAssumption DEF SchemaInvariant, Schema!TypeOK, SchemaFiles, SchemaUpdateOK,
       Schema!Req
  <1>4. SchemaUpdateOK'
    BY <1>1, <1>2, <1>3 DEF SchemaInvariant, SchemaFiles, SchemaUpdateOK, Schema!Control
  <1>5. SchemaUntouchedOK'
    BY <1>1, <1>2 DEF SchemaInvariant, SchemaFiles, SchemaUntouchedOK, SchemaUntouched
  <1>6. SchemaMadeOK' /\ SchemaOwnerOK' /\ SchemaStartedOK' /\ Schema!FailuresTrue'
            /\ Schema!CompletionTrue'
    BY <1>1 DEF SchemaInvariant, SchemaFiles, SchemaMadeOK, SchemaOwnerOK, SchemaStartedOK,
       Schema!FailuresTrue, Schema!CompletionTrue, SchemaAccount, SchemaIdle, Schema!Needed
  <1>7. ASSUME ruling # Schema!NoRow, ruling.state = "failed", RetryOf[r] = ruling.owner
        PROVE  tables.version = 0 /\ ruling.found = 0 /\ SchemaClosed(ruling.owner)
    <2>1. ruling.owner \in Upgrade /\ ruling.owner # Nobody
      BY <1>3, <1>7, SchemaAssumption DEF Schema!Control
    <2>2. ruling.owner = Schema!Req /\ Schema!Offered(Schema!Req)
      BY <1>7, <2>1 DEF Schema!Admit
    <2>3. PICK s \in Schema!Stage : receipts[s].state = "failed"
              /\ receipts[s].request = Schema!Req
      BY <2>2 DEF Schema!Offered
    <2>4. /\ tables.version = 0 /\ ruling.found = 0 /\ s # "recovery"
          /\ s = "preparation" => SchemaIdle(Schema!Req)
          /\ s = "gate" => SchemaClosed(Schema!Req)
      BY <1>7, <2>2, <2>3 DEF SchemaInvariant, SchemaFiles, SchemaRetryOK
    <2>5. attempts[Schema!Req][0] # "started"
      BY <1>7, <2>1, <2>2, SchemaAssumption DEF SchemaInvariant, SchemaFiles, SchemaStartedOK,
         Schema!Active
    <2>6. CASE s = "preparation"
      <3> SUFFICES ASSUME NEW t \in 0..Versions
                   PROVE  attempts[Schema!Req][t] # "started"
        BY <2>2, <2>4 DEF SchemaClosed
      <3>1. t = 0 \/ t \in Schema!Transition
        BY DEF Schema!Transition
      <3> QED BY <2>4, <2>5, <2>6, <3>1 DEF SchemaIdle
    <2> QED BY <2>2, <2>4, <2>6 DEF Schema!Stage
  <1>8. SchemaRetryOK'
    <2>1. /\ Schema!Req' = r /\ ruling' = ruling /\ tables' = tables /\ attempts' = attempts
          /\ receipts' = receipts
      BY <1>1, <1>2
    <2> QED BY <1>7, <2>1 DEF SchemaInvariant, SchemaFiles, SchemaRetryOK, SchemaIdle, SchemaClosed
  <1>9. SchemaPlaceOK' /\ SchemaMadeBy' /\ Schema!MutationTrue'
    BY <1>1 DEF SchemaInvariant, SchemaPlaceOK, SchemaWorking, SchemaMadeBy, Schema!MutationTrue
  <1> QED BY <1>2, <1>4, <1>5, <1>6, <1>8, <1>9 DEF SchemaInvariant, SchemaFiles

\* A step that ends with a receipt, or with another state of the bootstrap.
LEMMA SchemaBootstrapping ==
    ASSUME SchemaInvariant, runner.at # "off", UNCHANGED <<update, tables, attempts, mutation>>,
           ruling' = ruling, mishaps.injected =>
               mishaps'.injected, SchemaRecordsOK', bootstrap' \in {"none", "prepared", "adopted"},
           bootstrap # "none" => bootstrap' # "none",
           \A s \in Schema!Stage : receipts'[s] = receipts[s] \/ receipts'[s].state = "stopped"
    PROVE  SchemaFiles' /\ (runner' \in Schema!Runner => Schema!TypeOK')
  <1>1. SchemaUpdateOK' /\ SchemaUntouchedOK'
    BY DEF SchemaInvariant, SchemaFiles, SchemaUpdateOK, SchemaUntouchedOK, SchemaUntouched,
       Schema!Req, Schema!Ours
  <1>2. SchemaMadeOK' /\ SchemaOwnerOK' /\ SchemaStartedOK' /\ Schema!FailuresTrue'
    BY DEF SchemaInvariant, SchemaFiles, SchemaMadeOK, SchemaOwnerOK, SchemaStartedOK,
       Schema!FailuresTrue, SchemaAccount, SchemaIdle, Schema!Needed
  <1>3. SchemaRetryOK' /\ Schema!CompletionTrue'
    BY DEF SchemaInvariant, SchemaFiles, SchemaRetryOK, Schema!CompletionTrue, SchemaIdle,
       SchemaClosed, Schema!Req, Schema!Stage
  <1>4. Schema!TypeOK' \/ runner' \notin Schema!Runner
    BY DEF SchemaInvariant, Schema!TypeOK, SchemaRecordsOK, Schema!Stage
  <1> QED BY <1>1, <1>2, <1>3, <1>4 DEF SchemaFiles

LEMMA SchemaRecorded ==
    ASSUME SchemaRecordsOK, UNCHANGED <<mutation, mishaps>>, NEW stage \in Schema!Stage, NEW state,
           SchemaReceived(stage, state)
    PROVE  SchemaRecordsOK'
  BY DEF SchemaRecordsOK, SchemaReceived

LEMMA SchemaBootstrapKeeps == ASSUME SchemaInvariant, Schema!Bootstrap PROVE SchemaInvariant'
  <1>1. /\ runner.at = "preparation" /\ Schema!Req # Nobody /\ ~runner.marked
        /\ runner.doing = Nobody
        /\ runner \in Schema!Runner /\ Schema!Req \in Upgrade /\ ruling = Schema!NoRow
        /\ UNCHANGED <<update, tables, ruling, attempts, mutation, mishaps>>
    BY DEF SchemaInvariant, Schema!TypeOK, SchemaPlaceOK, SchemaWorking, Schema!Bootstrap,
       Schema!Req
  <1>2. CASE ~Schema!SourceShape
    <2>1. UNCHANGED schemaFiles /\ Schema!Ends
      BY <1>2 DEF Schema!Bootstrap, schemaFiles
    <2> QED BY <1>1, <2>1, SchemaEnding DEF SchemaInvariant, SchemaRecordsOK, schemaFiles
  <1>3. CASE Schema!SourceShape /\ bootstrap # "none"
    <2>1. SchemaReceived("preparation", "stopped")
      BY <1>1, <1>3, SchemaReceiving DEF Schema!Bootstrap, SchemaInvariant, Schema!Stage
    <2>2. UNCHANGED bootstrap /\ runner' \in Schema!Runner /\ runner'.at = "off"
      BY <1>3, SchemaRunnerTyped DEF Schema!Bootstrap, Schema!Ends
    <2>3. SchemaRecordsOK'
      BY <1>1, <2>1, SchemaRecorded DEF SchemaInvariant, Schema!Stage
    <2>4. SchemaFiles' /\ Schema!TypeOK'
      BY <1>1, <2>1, <2>2, <2>3, SchemaBootstrapping DEF SchemaReceived, SchemaInvariant,
         Schema!TypeOK
    <2>5. SchemaPlaceOK' /\ SchemaMadeBy' /\ Schema!MutationTrue'
      BY <1>1, <2>2, SchemaRecording DEF SchemaPlaceOK, SchemaWorking, Schema!Req
    <2> QED BY <2>3, <2>4, <2>5 DEF SchemaInvariant
  <1>4. CASE Schema!SourceShape /\ bootstrap = "none"
    <2>1. bootstrap' = "prepared" /\ Schema!Goes("insert") /\ UNCHANGED receipts
      BY <1>4 DEF Schema!Bootstrap
    <2>2. SchemaReaches("insert", Nobody)
      BY <1>1, <2>1, SchemaReaching DEF SchemaPlaces
    <2>3. SchemaRecordsOK'
      BY <1>1, <2>1 DEF SchemaInvariant, SchemaRecordsOK
    <2>4. SchemaFiles' /\ Schema!TypeOK'
      BY <1>1, <2>1, <2>2, <2>3, SchemaBootstrapping DEF SchemaReaches
    <2>5. ruling' = Schema!NoRow /\ tables'.version = 0
      BY <1>1, <1>4 DEF Schema!SourceShape
    <2>6. SchemaPlaceOK'
      BY <1>1, <2>1, <2>2, <2>5 DEF SchemaPlaceOK, SchemaWorking, SchemaReaches, Schema!Req
    <2>7. SchemaMadeBy' /\ Schema!MutationTrue'
      BY <1>1, <2>2, SchemaRecording DEF SchemaReaches, Schema!Req
    <2> QED BY <2>3, <2>4, <2>6, <2>7 DEF SchemaInvariant
  <1> QED BY <1>2, <1>3, <1>4

LEMMA SchemaInsertKeeps == ASSUME SchemaInvariant, Schema!Insert PROVE SchemaInvariant'
  <1>1. /\ runner.at = "insert" /\ Schema!Req # Nobody /\ ~runner.marked /\ runner.doing = Nobody
        /\ runner \in Schema!Runner /\ Schema!Req \in Upgrade /\ ruling = Schema!NoRow
        /\ tables.version = 0
        /\ bootstrap = "prepared" /\ UNCHANGED <<update, tables, attempts, bootstrap, mutation>>
        /\ Schema!TypeOK /\ SchemaRecordsOK /\ SchemaFiles
    BY DEF SchemaInvariant, Schema!TypeOK, SchemaPlaceOK, SchemaWorking, Schema!Insert, Schema!Req
  <1>2. CASE /\ Schema!Records("preparation", "stopped", 0, FALSE)
             /\ Schema!Ends /\ Schema!Mishap /\ UNCHANGED ruling
    <2>1. SchemaReceived("preparation", "stopped")
      <3>1. "preparation" \in Schema!Stage /\ 0 \in Nat /\ FALSE \in BOOLEAN
        BY DEF Schema!Stage
      <3> QED BY <1>1, <1>2, <3>1, SchemaReceiving
    <2>2. runner' \in Schema!Runner /\ runner'.at = "off"
      BY <1>2, SchemaRunnerTyped DEF Schema!Ends
    <2>3. SchemaRecordsOK' /\ (mishaps.injected => mishaps'.injected)
      BY <1>1, <1>2, <2>1, SchemaAssumption DEF SchemaRecordsOK, SchemaReceived, Schema!Mishap
    <2>4. SchemaFiles' /\ Schema!TypeOK'
      BY <1>1, <1>2, <2>1, <2>2, <2>3, SchemaBootstrapping DEF SchemaReceived
    <2>5. SchemaPlaceOK' /\ SchemaMadeBy' /\ Schema!MutationTrue'
      BY <1>1, <2>2, SchemaRecording DEF SchemaPlaceOK, SchemaWorking, Schema!Req
    <2> QED BY <2>3, <2>4, <2>5 DEF SchemaInvariant
  <1>3. CASE /\ ruling' = [owner |-> Schema!Req, generation |-> 1, found |-> tables.version,
                            state |-> "prepared"]
             /\ Schema!Goes("adopt") /\ UNCHANGED <<receipts, mishaps>>
    <2>1. /\ ruling' \in Schema!Control /\ ruling'.owner = Schema!Req /\ ruling'.found = 0
          /\ ruling'.state = "prepared" /\ SchemaReaches("adopt", Nobody)
      BY <1>1, <1>3, SchemaReaching, SchemaAssumption DEF Schema!Control, SchemaPlaces
    <2>2. ruling' # Schema!NoRow
      BY <2>1 DEF Schema!NoRow
    <2>3. Schema!TypeOK' /\ SchemaRecordsOK'
      BY <1>1, <1>3, <2>1 DEF Schema!TypeOK, SchemaRecordsOK, SchemaReaches
    <2>4. SchemaUpdateOK' /\ SchemaUntouchedOK' /\ SchemaMadeOK' /\ Schema!FailuresTrue'
              /\ Schema!CompletionTrue'
      BY <1>1, <1>3, <2>1, <2>2 DEF SchemaFiles, SchemaUpdateOK, SchemaUntouchedOK,
         SchemaUntouched, SchemaMadeOK, Schema!FailuresTrue, Schema!CompletionTrue, Schema!Req,
         Schema!Ours
    <2>5. SchemaUntouched(Schema!Req)
      BY <1>1 DEF SchemaFiles, SchemaUntouchedOK, Schema!Ours
    <2>6. SchemaIdle(Schema!Req) /\ SchemaAccount(Schema!Req)
      BY <1>1, <2>5, SchemaAssumption DEF SchemaUntouched, SchemaIdle, SchemaAccount,
         Schema!Transition
    <2>7. SchemaOwnerOK'
      BY <1>1, <2>1, <2>6 DEF SchemaOwnerOK, SchemaAccount, SchemaIdle
    <2>8. SchemaStartedOK' /\ SchemaRetryOK'
      BY <1>1, <1>3, <2>1, <2>5 DEF SchemaFiles, SchemaStartedOK, SchemaRetryOK, SchemaUntouched
    <2>9. SchemaPlaceOK'
      BY <1>1, <2>1, <2>2 DEF SchemaPlaceOK, SchemaWorking, SchemaReaches, Schema!Ours,
         Schema!Req, Schema!Active
    <2>10. SchemaMadeBy' /\ Schema!MutationTrue'
      BY <1>1, <2>1, SchemaRecording DEF SchemaReaches, Schema!Req
    <2> QED BY <2>3, <2>4, <2>7, <2>8, <2>9, <2>10 DEF SchemaInvariant, SchemaFiles
  <1> QED BY <1>2, <1>3 DEF Schema!Insert

\* The request that follows the owner of the row has all of the work before it, or none.
LEMMA SchemaFollowing ==
    ASSUME SchemaInvariant, Schema!Req \in Upgrade, ruling # Schema!NoRow, ~Schema!Ours,
           Schema!Follows
    PROVE  /\ \A r \in Upgrade, t \in 0..Versions : attempts[r][t] # "started"
           /\ tables.version \in {0, Versions}
           /\ SchemaUntouched(Schema!Req)
           /\ ruling.state = "failed" => tables.version = ruling.found
  <1>1. ruling \in Schema!Control /\ ruling.owner \in Upgrade
    BY DEF SchemaInvariant, Schema!TypeOK, Schema!Control
  <1>2. SchemaUntouched(Schema!Req)
    BY DEF SchemaInvariant, SchemaFiles, SchemaUntouchedOK
  <1>3. CASE ruling.state = "completed" /\ tables.version = Versions
    BY <1>2, <1>3 DEF SchemaInvariant, SchemaFiles, Schema!CompletionTrue
  <1>4. CASE ruling.state = "failed" /\ RetryOf[Schema!Req] = ruling.owner
    <2>1. tables.version = 0 /\ ruling.found = 0 /\ SchemaClosed(ruling.owner)
      BY <1>4, SchemaAssumption DEF SchemaInvariant, SchemaFiles, SchemaRetryOK
    <2> QED BY <1>2, <2>1 DEF SchemaInvariant, SchemaFiles, SchemaStartedOK, SchemaClosed
  <1> QED BY <1>3, <1>4 DEF Schema!Follows

LEMMA SchemaResumeKeeps == ASSUME SchemaInvariant, Schema!Resume PROVE SchemaInvariant'
  <1>1. /\ runner.at = "preparation" /\ Schema!Req # Nobody /\ ~runner.marked
        /\ runner.doing = Nobody
        /\ runner \in Schema!Runner /\ Schema!Req \in Upgrade /\ ruling # Schema!NoRow
        /\ ruling \in Schema!Control
        /\ bootstrap' = "adopted"
        /\ UNCHANGED <<update, tables, attempts, receipts, mutation, mishaps>>
        /\ Schema!TypeOK /\ SchemaRecordsOK /\ SchemaFiles /\ Schema!Authorized
    BY DEF SchemaInvariant, Schema!TypeOK, SchemaPlaceOK, SchemaWorking, Schema!Resume, Schema!Req
  <1>2. SchemaRecordsOK'
    BY <1>1 DEF SchemaRecordsOK
  <1>3. CASE ~Schema!Ours /\ ~Schema!Follows
    <2>1. ruling' = ruling /\ runner' \in Schema!Runner /\ runner'.at = "off"
      BY <1>3, SchemaRunnerTyped DEF Schema!Resume, Schema!Ends
    <2>2. SchemaFiles' /\ Schema!TypeOK'
      BY <1>1, <1>2, <2>1, SchemaBootstrapping
    <2>3. SchemaPlaceOK' /\ SchemaMadeBy' /\ Schema!MutationTrue'
      BY <1>1, <2>1, SchemaRecording DEF SchemaPlaceOK, SchemaWorking, Schema!Req
    <2> QED BY <1>2, <2>2, <2>3 DEF SchemaInvariant
  <1>4. CASE Schema!Ours
    <2>1. ruling' = ruling /\ SchemaReaches("mark", Nobody)
      BY <1>1, <1>4, SchemaReaching DEF Schema!Resume, SchemaPlaces
    <2>2. SchemaFiles' /\ Schema!TypeOK'
      BY <1>1, <1>2, <2>1, SchemaBootstrapping DEF SchemaReaches
    <2>3. SchemaPlaceOK'
      BY <1>1, <1>4, <2>1 DEF SchemaPlaceOK, SchemaWorking, SchemaReaches, Schema!Ours,
         Schema!Req, Schema!Authorized
    <2>4. SchemaMadeBy' /\ Schema!MutationTrue'
      BY <1>1, <2>1, SchemaRecording DEF SchemaReaches, Schema!Req
    <2> QED BY <1>2, <2>2, <2>3, <2>4 DEF SchemaInvariant
  <1>5. CASE ~Schema!Ours /\ Schema!Follows
    <2>1. /\ ruling' = [owner |-> Schema!Req, generation |-> ruling.generation + 1,
                         found |-> tables.version, state |-> "prepared"]
          /\ Schema!Goes("mark")
      BY <1>1, <1>5 DEF Schema!Resume
    <2>2. /\ ruling' \in Schema!Control /\ ruling'.owner = Schema!Req
          /\ ruling'.found = tables.version
          /\ ruling'.state = "prepared" /\ SchemaReaches("mark", Nobody)
      BY <1>1, <2>1, SchemaReaching DEF Schema!Control, SchemaPlaces, Schema!TypeOK,
         Schema!Database
    <2>3. ruling' # Schema!NoRow
      BY <2>2 DEF Schema!NoRow
    <2>4. Schema!TypeOK'
      BY <1>1, <2>2 DEF Schema!TypeOK, SchemaRecordsOK, SchemaReaches
    <2>5. SchemaUpdateOK' /\ SchemaUntouchedOK' /\ SchemaMadeOK' /\ Schema!FailuresTrue'
              /\ Schema!CompletionTrue'
      BY <1>1, <2>2, <2>3 DEF SchemaFiles, SchemaUpdateOK, SchemaUntouchedOK, SchemaUntouched,
         SchemaMadeOK, Schema!FailuresTrue, Schema!CompletionTrue, Schema!Req, Schema!Ours
    <2>6. /\ \A r \in Upgrade, t \in 0..Versions : attempts[r][t] # "started"
          /\ tables.version \in {0, Versions} /\ SchemaUntouched(Schema!Req)
      BY <1>1, <1>5, SchemaFollowing
    <2>7. SchemaIdle(Schema!Req)
      BY <2>6, SchemaAssumption DEF SchemaUntouched, SchemaIdle, Schema!Transition
    <2>8. tables.version = 0 => SchemaAccount(Schema!Req)
      BY <2>7 DEF SchemaIdle, SchemaAccount, Schema!Transition
    <2>9. SchemaOwnerOK'
      BY <1>1, <2>2, <2>6, <2>7, <2>8 DEF SchemaOwnerOK, SchemaAccount, SchemaIdle
    <2>10. SchemaStartedOK' /\ SchemaRetryOK'
      BY <1>1, <2>2, <2>6 DEF SchemaStartedOK, SchemaRetryOK, SchemaUntouched
    <2>11. SchemaPlaceOK'
      BY <1>1, <2>2, <2>3 DEF SchemaPlaceOK, SchemaWorking, SchemaReaches, Schema!Ours,
         Schema!Req, Schema!Active
    <2>12. SchemaMadeBy' /\ Schema!MutationTrue'
      BY <1>1, <2>2, SchemaRecording DEF SchemaReaches, Schema!Req
    <2> QED BY <1>2, <2>4, <2>5, <2>9, <2>10, <2>11, <2>12 DEF SchemaInvariant, SchemaFiles
  <1> QED BY <1>3, <1>4, <1>5

LEMMA SchemaRecordFailedKeeps == ASSUME SchemaInvariant, Schema!RecordFailed PROVE SchemaInvariant'
  <1>1. /\ runner.at = "failed" /\ Schema!Req # Nobody /\ Schema!Req \in Upgrade
        /\ Schema!Ours /\ ruling \in Schema!Control
        /\ runner \in Schema!Runner /\ Schema!TypeOK /\ SchemaRecordsOK /\ SchemaFiles
        /\ UNCHANGED <<update, tables, ruling, attempts, bootstrap, mutation, mishaps>>
        /\ runner.safe => tables.version = 0 /\ ruling.found = 0
        /\ runner.safe => \/ runner.stage = "preparation" /\ tables.pending
                          \/ runner.stage = "gate"
        /\ runner.safe /\ runner.stage = "gate" =>
               ruling.state = "failed" /\ SchemaClosed(Schema!Req)
    BY DEF SchemaInvariant, Schema!TypeOK, SchemaPlaceOK, SchemaWorking, Schema!RecordFailed,
       Schema!Req, Schema!Ours
  <1>2. PICK state \in {"failed", "stopped"} :
            /\ SchemaReceived(runner.stage, state)
            /\ state = "failed" => runner.safe
    <2> DEFINE retryable == Schema!Retryable /\ ~Schema!Committed
    <2>1. Schema!Records(runner.stage, IF retryable THEN "failed" ELSE "stopped",
                  ruling.generation, retryable)
      BY DEF Schema!RecordFailed
    <2>2. runner.stage \in Schema!Stage /\ ruling.generation \in Nat /\ retryable \in BOOLEAN
      BY <1>1 DEF Schema!Runner, Schema!Control, Schema!Committed
    <2>3. retryable => runner.safe
      BY DEF Schema!Retryable
    <2> HIDE DEF retryable
    <2>4. SchemaReceived(runner.stage, IF retryable THEN "failed" ELSE "stopped")
      BY <1>1, <2>1, <2>2, SchemaReceiving
    <2> QED BY <2>3, <2>4
  <1>3. runner' \in Schema!Runner /\ runner'.at = "off" /\ runner.stage \in Schema!Stage
    BY <1>1, SchemaRunnerTyped DEF Schema!RecordFailed, Schema!Ends, Schema!Runner
  <1>4. Schema!TypeOK' /\ SchemaRecordsOK'
    BY <1>1, <1>2, <1>3 DEF Schema!TypeOK, SchemaRecordsOK, SchemaReceived, Schema!Stage
  <1>5. SchemaUntouchedOK'
    BY <1>1, <1>2, SchemaUntouchedKept DEF SchemaFiles, Schema!Ours, SchemaReceived
  <1>6. SchemaUpdateOK' /\ SchemaMadeOK' /\ SchemaOwnerOK' /\ SchemaStartedOK'
            /\ Schema!FailuresTrue'
    BY <1>1 DEF SchemaFiles, SchemaUpdateOK, SchemaMadeOK, SchemaOwnerOK, SchemaStartedOK,
       Schema!FailuresTrue, SchemaAccount, SchemaIdle, Schema!Needed, Schema!Req
  <1>7. Schema!CompletionTrue'
    BY <1>1, <1>2 DEF SchemaFiles, Schema!CompletionTrue, SchemaReceived, Schema!Stage
  <1>8. SchemaRetryOK'
    <2>1. ASSUME NEW s \in Schema!Stage, receipts'[s].state = "failed", receipts'[s].request =
              Schema!Req
          PROVE  /\ tables.version = 0 /\ ruling.found = 0 /\ s # "recovery"
                 /\ s = "preparation" => SchemaIdle(Schema!Req)
                 /\ s = "gate" => ruling.state = "failed" /\ SchemaClosed(Schema!Req)
      <3>1. CASE s # runner.stage
        BY <1>1, <1>2, <2>1, <3>1 DEF SchemaReceived, SchemaFiles, SchemaRetryOK, Schema!Ours
      <3>2. CASE s = runner.stage
        <4>1. runner.safe
          BY <1>2, <2>1, <3>2 DEF SchemaReceived
        <4> QED BY <1>1, <3>2, <4>1 DEF SchemaFiles, SchemaOwnerOK, Schema!Ours
      <3> QED BY <3>1, <3>2
    <2> QED BY <1>1, <2>1 DEF SchemaFiles, SchemaRetryOK, SchemaIdle, SchemaClosed, Schema!Ours,
               Schema!Req
  <1>9. SchemaPlaceOK' /\ SchemaMadeBy' /\ Schema!MutationTrue'
    BY <1>1, <1>3, SchemaRecording DEF SchemaPlaceOK, SchemaWorking, Schema!Req
  <1> QED BY <1>4, <1>5, <1>6, <1>7, <1>8, <1>9 DEF SchemaInvariant, SchemaFiles

LEMMA SchemaRecordFailureKeeps ==
    ASSUME SchemaInvariant, Schema!RecordFailure
    PROVE SchemaInvariant'
  <1> USE SchemaAssumption DEF SchemaMayFail
  <1>1. /\ runner.at = "failing" /\ Schema!Req # Nobody /\ Schema!Req \in Upgrade /\ Schema!Ours
        /\ runner \in Schema!Runner /\ Schema!TypeOK /\ SchemaRecordsOK /\ SchemaFiles
        /\ UNCHANGED <<update, tables, bootstrap, receipts, mutation>>
        /\ SchemaMayFail(runner.stage, runner.safe)
    BY DEF SchemaInvariant, Schema!TypeOK, SchemaPlaceOK, SchemaWorking, Schema!RecordFailure,
       Schema!Req
  <1>2. ruling \in Schema!Control /\ ruling # Schema!NoRow /\ tables \in Schema!Database
            /\ tables.version \in 0..Versions
    BY <1>1 DEF Schema!TypeOK, Schema!Ours, Schema!Database
  <1>3. CASE Schema!Ended /\ Schema!Goes("failed") /\ UNCHANGED <<ruling, attempts, mishaps>>
    <2>1. SchemaReaches("failed", runner.doing) /\ ~runner.safe
      BY <1>1, <1>3, SchemaReaching DEF SchemaPlaces, Schema!Ended
    <2>2. UNCHANGED schemaFiles /\ SchemaRecordsOK'
      BY <1>1, <1>3 DEF schemaFiles, SchemaRecordsOK
    <2>3. SchemaPlaceOK'
      BY <1>1, <2>1, <2>2 DEF SchemaPlaceOK, SchemaWorking, SchemaReaches, schemaFiles,
         Schema!Req, Schema!Ours
    <2>4. SchemaMadeBy' /\ Schema!MutationTrue'
      BY <1>1, <2>1, SchemaRecording DEF SchemaReaches, Schema!Req
    <2> QED BY <1>3, <2>1, <2>2, <2>3, <2>4, SchemaMoving DEF SchemaReaches
  <1>4. CASE /\ runner' = IF runner.safe /\ runner.stage = "gate"
                          THEN [runner EXCEPT !.safe = FALSE]
                          ELSE [runner EXCEPT !.at = "failed"]
             /\ Schema!Mishap /\ UNCHANGED <<ruling, attempts>>
    <2>1. UNCHANGED schemaFiles /\ SchemaRecordsOK' /\ (mishaps.injected => mishaps'.injected)
      BY <1>1, <1>4 DEF schemaFiles, SchemaRecordsOK, Schema!Mishap
    <2>2. /\ runner' \in Schema!Runner /\ runner'.migrates = runner.migrates
          /\ runner'.marked = runner.marked /\ runner'.doing = runner.doing
          /\ runner'.stage = runner.stage
          /\ \/ runner'.at = "failing" /\ ~runner'.safe
             \/ /\ runner'.at = "failed" /\ runner'.safe = runner.safe
                /\ ~(runner.safe /\ runner.stage = "gate")
      BY <1>1, <1>4 DEF Schema!Runner
    <2>3. SchemaPlaceOK'
      <3>1. CASE runner'.at = "failing" /\ ~runner'.safe
        BY <1>1, <2>1, <2>2, <3>1 DEF SchemaPlaceOK, SchemaWorking, schemaFiles, Schema!Req,
           Schema!Ours
      <3>2. CASE runner'.at = "failed"
        BY <1>1, <2>1, <2>2, <3>2 DEF SchemaPlaceOK, SchemaWorking, schemaFiles, Schema!Req,
           Schema!Ours
      <3> QED BY <2>2, <3>1, <3>2
    <2>4. SchemaMadeBy' /\ Schema!MutationTrue'
      BY <1>1, <2>2, SchemaRecording DEF Schema!Req
    <2> QED BY <1>1, <2>1, <2>2, <2>3, <2>4, SchemaMoving
  <1>5. CASE /\ ~Schema!Ended
             /\ ruling' = [ruling EXCEPT !.state = "failed"]
             /\ attempts' = IF runner.doing = Nobody THEN attempts
                            ELSE [attempts EXCEPT ![Schema!Req][runner.doing] =
                                      IF Schema!Committed THEN "applied" ELSE "failed"]
             /\ Schema!Goes("failed") /\ UNCHANGED mishaps
    <2>1. SchemaReaches("failed", runner.doing) /\ SchemaSetState("failed")
      BY <1>1, <1>2, <1>5, SchemaReaching, SchemaSettingState DEF SchemaPlaces
    <2>2. /\ attempts' \in [Upgrade -> [0..Versions -> SchemaStatuses]]
          /\ \A r \in Upgrade, u \in 0..Versions :
                attempts'[r][u] = IF r = Schema!Req /\ u = runner.doing
                                  THEN IF Schema!Committed THEN "applied" ELSE "failed"
                                  ELSE attempts[r][u]
      <3>1. CASE runner.doing = Nobody
        BY <1>1, <1>5, <3>1 DEF Schema!TypeOK, SchemaStatuses
      <3>2. CASE runner.doing # Nobody
        <4>1. runner.doing \in 0..Versions
          BY <1>1, <3>2 DEF Schema!Runner
        <4>2. SchemaAttempted(runner.doing, IF Schema!Committed THEN "applied" ELSE "failed")
          BY <1>1, <1>5, <3>2, <4>1, SchemaAttempting DEF SchemaStatuses
        <4> QED BY <1>1, <4>2 DEF SchemaAttempted
      <3> QED BY <3>1, <3>2
    <2>3. Schema!TypeOK' /\ SchemaRecordsOK'
      BY <1>1, <1>5, <2>1, <2>2 DEF Schema!TypeOK, SchemaRecordsOK, SchemaReaches, SchemaSetState
    <2>4. runner.doing \in Schema!Transition \/ runner.doing \in {0, Nobody}
      BY <1>1 DEF Schema!Runner, Schema!Transition
    <2>5. runner.doing \in Schema!Transition => SchemaAccount(Schema!Req) /\ ~tables.pending
      BY <1>1, <1>2 DEF SchemaFiles, SchemaOwnerOK, Schema!Ours, Schema!Active, SchemaIdle
    <2>6. SchemaUntouchedOK'
      BY <1>1, <2>1, <2>2, SchemaUntouchedKept DEF SchemaFiles, Schema!Ours, SchemaSetState
    <2>7. SchemaUpdateOK' /\ SchemaMadeOK'
      <3>1. SchemaUpdateOK'
        BY <1>1, <2>1 DEF SchemaFiles, SchemaUpdateOK, Schema!Req, SchemaSetState, Schema!Ours
      <3>2. SchemaMadeOK'
        BY <1>1, <1>5, <2>1 DEF SchemaFiles, SchemaMadeOK, SchemaSetState
      <3> QED BY <3>1, <3>2
    <2>8. Schema!CompletionTrue'
      BY <1>1, <2>1 DEF SchemaFiles, Schema!CompletionTrue, SchemaSetState
    <2>9. Schema!FailuresTrue'
      <3> SUFFICES ASSUME NEW r \in Upgrade, NEW t \in Schema!Transition, attempts'[r][t] =
          "failed"
                   PROVE  tables.by[t] # r
        BY <1>1 DEF Schema!FailuresTrue
      <3>1. t \in 0..Versions
        BY DEF Schema!Transition
      <3>2. CASE r = Schema!Req /\ t = runner.doing
        <4>1. ~Schema!Committed
          BY <2>2, <3>1, <3>2
        <4>2. ~(t <= tables.version)
          BY <1>1, <1>2, <3>2, <4>1 DEF Schema!Committed
        <4> QED BY <1>1, <3>2, <4>2 DEF SchemaFiles, SchemaMadeOK
      <3>3. CASE ~(r = Schema!Req /\ t = runner.doing)
        BY <1>1, <2>2, <3>1, <3>3 DEF SchemaFiles, Schema!FailuresTrue
      <3> QED BY <3>2, <3>3
    <2>10. tables.pending => SchemaIdle(Schema!Req)' /\ SchemaIdle(Schema!Req)
      <3> SUFFICES ASSUME tables.pending, NEW t \in Schema!Transition
                   PROVE  attempts'[Schema!Req][t] = "none" /\ attempts[Schema!Req][t] = "none"
        BY <1>1 DEF SchemaIdle, Schema!Req
      <3>1. t \in 0..Versions /\ t # runner.doing
        BY <1>1, <2>5 DEF Schema!Transition
      <3> QED BY <1>1, <2>2, <3>1 DEF SchemaFiles, SchemaOwnerOK, SchemaIdle, Schema!Ours
    <2>11. SchemaOwnerOK'
      BY <1>1, <2>1, <2>10 DEF SchemaOwnerOK, SchemaSetState, Schema!Active, Schema!Ours,
         Schema!Req, SchemaIdle
    <2>12. SchemaStartedOK'
      <3> SUFFICES ASSUME NEW r \in Upgrade, NEW t \in 0..Versions, attempts'[r][t] = "started"
                   PROVE  r = Schema!Req /\ t # 0
        BY <1>1, <2>1 DEF SchemaStartedOK, SchemaSetState, Schema!Ours
      <3>1. ~(r = Schema!Req /\ t = runner.doing) /\ attempts[r][t] = "started"
        BY <2>2
      <3>2. r = Schema!Req
        BY <1>1, <3>1 DEF SchemaFiles, SchemaStartedOK, Schema!Ours
      <3> QED BY <1>1, <3>1, <3>2
    <2>13. ASSUME NEW s \in Schema!Stage, receipts[s].state = "failed", receipts[s].request =
               Schema!Req
           PROVE  /\ tables.version = 0 /\ ruling.found = 0 /\ s = "preparation"
                  /\ SchemaIdle(Schema!Req)'
      <3>1. /\ tables.version = 0 /\ ruling.found = 0 /\ s = "preparation"
            /\ SchemaIdle(Schema!Req)
        BY <1>1, <2>13 DEF SchemaFiles, SchemaRetryOK, Schema!Ours, Schema!Active, Schema!Stage
      <3>2. runner.doing \notin Schema!Transition
        BY <1>1, <3>1 DEF SchemaIdle
      <3>3. \A t \in Schema!Transition : t \in 0..Versions /\ t # runner.doing
        BY <3>2 DEF Schema!Transition
      <3>4. SchemaIdle(Schema!Req)'
        BY <1>1, <2>2, <3>1, <3>3 DEF SchemaIdle, Schema!Req
      <3> QED BY <3>1, <3>4
    <2>14. SchemaRetryOK'
      BY <1>1, <2>1, <2>13, RetryAssumption DEF SchemaRetryOK, SchemaSetState, Schema!Ours,
         Schema!Req, SchemaIdle
    <2>15. runner.safe /\ runner.stage = "gate" => SchemaClosed(Schema!Req)'
      <3> SUFFICES ASSUME runner.safe, runner.stage = "gate", NEW t \in 0..Versions
                   PROVE  attempts'[Schema!Req][t] # "started"
        BY <1>1 DEF SchemaClosed, Schema!Req
      <3>1. runner.doing = 1 /\ tables.version = 0 /\ attempts[Schema!Req][0] # "started"
        BY <1>1
      <3>2. 1 \in Schema!Transition
        BY <1>1, <2>4, <3>1
      <3>3. t = 0 \/ t = 1 \/ (t \in Schema!Transition /\ t > 1)
        BY DEF Schema!Transition
      <3>4. t \in Schema!Transition /\ t > 1 => attempts[Schema!Req][t] = "none"
        BY <2>5, <3>1, <3>2 DEF SchemaAccount
      <3>5. Schema!Req \in Upgrade /\ 0 \in 0..Versions /\ 1 \in 0..Versions
        BY <1>1, <3>2 DEF Schema!Transition
      <3> QED BY <2>2, <3>1, <3>3, <3>4, <3>5
    <2>16. SchemaPlaceOK'
      BY <1>1, <2>1, <2>15 DEF SchemaPlaceOK, SchemaWorking, SchemaReaches, SchemaSetState,
         Schema!Ours, Schema!Req, SchemaClosed
    <2>17. SchemaMadeBy' /\ Schema!MutationTrue'
      BY <1>1, <2>1, SchemaRecording DEF SchemaReaches, Schema!Req
    <2> QED BY <2>3, <2>6, <2>7, <2>8, <2>9, <2>11, <2>12, <2>14, <2>16, <2>17
               DEF SchemaInvariant, SchemaFiles
  <1> QED BY <1>3, <1>4, <1>5 DEF Schema!RecordFailure

LEMMA SchemaStarts == ASSUME Schema!Init PROVE SchemaInvariant
  <1> USE SchemaAssumption
  <1>1. /\ tables \in Schema!Database /\ tables.version = 0 /\ ~tables.wide
        /\ tables.by = [t \in Schema!Transition |-> Nobody]
    <2>1. [t \in Schema!Transition |-> Nobody] \in [Schema!Transition -> Upgrade \cup {Nobody}]
      OBVIOUS
    <2>2. tables \in [old : BOOLEAN, version : {0}, wide : {FALSE}, pending : BOOLEAN,
                 by : {[t \in Schema!Transition |-> Nobody]}]
      BY DEF Schema!Init
    <2>3. tables.version = 0 /\ tables.wide = FALSE
              /\ tables.by = [t \in Schema!Transition |-> Nobody]
          /\ tables.old \in BOOLEAN /\ tables.pending \in BOOLEAN
      BY <2>2
    <2>4. tables = [old |-> tables.old, version |-> tables.version, wide |-> tables.wide,
               pending |-> tables.pending, by |-> tables.by]
      BY <2>2
    <2>5. tables.version \in 0..Versions /\ tables.wide \in BOOLEAN
          /\ tables.by \in [Schema!Transition -> Upgrade \cup {Nobody}]
      <3>1. 0 \in 0..Versions
        OBVIOUS
      <3>2. tables.by \in [Schema!Transition -> Upgrade \cup {Nobody}]
        BY <2>1, <2>3, Zenon
      <3> QED BY <2>3, <3>1, <3>2
    <2>6. tables \in Schema!Database
      BY <2>3, <2>4, <2>5 DEF Schema!Database
    <2> QED BY <2>3, <2>6
  <1>2. Schema!TypeOK /\ SchemaRecordsOK
    BY <1>1, SchemaRunnerTyped DEF Schema!Init, Schema!TypeOK, SchemaRecordsOK, Schema!NoReceipt,
       Schema!Stage
  <1>3. SchemaUpdateOK /\ SchemaUntouchedOK /\ SchemaMadeOK
    BY <1>1 DEF Schema!Init, SchemaUpdateOK, SchemaUntouchedOK, SchemaUntouched, SchemaMadeOK,
       Schema!NoRow, Schema!NoReceipt, Schema!Req, Schema!Transition
  <1>4. SchemaOwnerOK /\ SchemaStartedOK /\ SchemaRetryOK /\ Schema!FailuresTrue
    BY <1>1 DEF Schema!Init, SchemaOwnerOK, SchemaStartedOK, SchemaRetryOK, Schema!FailuresTrue,
       Schema!Transition
  <1>5. Schema!CompletionTrue /\ SchemaPlaceOK /\ SchemaMadeBy /\ Schema!MutationTrue
    BY <1>1 DEF Schema!Init, Schema!CompletionTrue, SchemaPlaceOK, SchemaWorking, SchemaMadeBy,
       Schema!MutationTrue, Schema!NoRow, Schema!NoReceipt, Schema!Off, Schema!Stage
  <1> QED BY <1>2, <1>3, <1>4, <1>5 DEF SchemaInvariant, SchemaFiles

LEMMA SchemaStays == ASSUME SchemaInvariant, UNCHANGED schemaVars PROVE SchemaInvariant'
  <1>1. UNCHANGED schemaFiles /\ UNCHANGED <<mutation, runner, mishaps>>
    BY DEF schemaVars, schemaFiles
  <1>2. SchemaRecordsOK' /\ SchemaPlaceOK' /\ SchemaMadeBy' /\ Schema!MutationTrue'
    BY <1>1 DEF SchemaInvariant, SchemaRecordsOK, SchemaPlaceOK, SchemaWorking, SchemaMayFail,
       SchemaMadeBy, Schema!MutationTrue, schemaFiles, Schema!Req, Schema!Ours, SchemaClosed
  <1> QED BY <1>1, <1>2, SchemaMoving DEF SchemaInvariant, Schema!TypeOK

LEMMA SchemaSteps == ASSUME SchemaInvariant, [Schema!Next]_schemaVars PROVE SchemaInvariant'
  <1>1. ASSUME NEW r \in Upgrade, Schema!Admit(r) \/ Schema!GiveUp(r) PROVE SchemaInvariant'
    BY <1>1, SchemaAdmitKeeps, SchemaGiveUpKeeps
  <1>2. ASSUME NEW migrates \in BOOLEAN, Schema!Begin(migrates) PROVE SchemaInvariant'
    BY <1>2, SchemaBeginKeeps
  <1>3. CASE Schema!Preflight \/ Schema!Backup \/ Schema!Mark \/ Schema!Refused
                 \/ Schema!RecordFailure \/ Schema!RecordFailed
    BY <1>3, SchemaPreflightKeeps, SchemaBackupKeeps, SchemaMarkKeeps, SchemaRefusedKeeps,
       SchemaRecordFailureKeeps,
       SchemaRecordFailedKeeps
  <1>4. CASE Schema!Bootstrap \/ Schema!Insert \/ Schema!Adopt \/ Schema!Resume
                 \/ Schema!MarkPrepared \/ Schema!Survey \/ Schema!Widen
             \/ Schema!PreparationReceipt
    BY <1>4, SchemaBootstrapKeeps, SchemaInsertKeeps, SchemaAdoptKeeps, SchemaResumeKeeps,
       SchemaMarkPreparedKeeps,
       SchemaSurveyKeeps, SchemaWidenKeeps, SchemaPreparationReceiptKeeps
  <1>5. CASE Schema!BeginRecovery \/ Schema!Recover \/ Schema!Recovered
                 \/ Schema!RecoveryReceipt \/ Schema!BeginGate
    BY <1>5, SchemaBeginRecoveryKeeps, SchemaRecoverKeeps, SchemaRecoveredKeeps,
       SchemaRecoveryReceiptKeeps,
       SchemaBeginGateKeeps
  <1>6. CASE Schema!StartAttempt \/ Schema!Inject \/ Schema!Migrate \/ Schema!FinishAttempt
                 \/ Schema!Complete \/ Schema!GateReceipt
             \/ Schema!Finish
    BY <1>6, SchemaStartAttemptKeeps, SchemaInjectKeeps, SchemaMigrateKeeps,
       SchemaFinishAttemptKeeps, SchemaCompleteKeeps,
       SchemaGateReceiptKeeps, SchemaFinishKeeps
  <1> QED BY <1>1, <1>2, <1>3, <1>4, <1>5, <1>6, SchemaDiesKeeps, SchemaStays DEF Schema!Next,
             Schema!Step

LEMMA SchemaTells == ASSUME SchemaInvariant PROVE Schema!Truthful
  <1>1. Schema!Resumable
    BY DEF SchemaInvariant, SchemaFiles, SchemaUpdateOK, SchemaOwnerOK, SchemaAccount,
       Schema!Resumable, Schema!NoRow, Schema!Active
  <1> QED BY <1>1 DEF SchemaInvariant, SchemaFiles, Schema!Truthful

LEMMA SchemaTakesOver == ASSUME SchemaInvariant, [Schema!Next]_schemaVars PROVE Schema!TakenOver
  <1> SUFFICES ASSUME ruling' # ruling, ruling # Schema!NoRow, ruling.owner # ruling'.owner
               PROVE  /\ ruling.state = "failed" => tables.version = ruling.found
                      /\ \A t \in Schema!Transition : attempts[ruling.owner][t] # "started"
    BY DEF Schema!TakenOver
  <1>1. ruling \in Schema!Control /\ ruling.owner \in Upgrade
    BY DEF SchemaInvariant, Schema!TypeOK, Schema!Control
  <1>2. \A state : ruling' # [ruling EXCEPT !.state = state]
    BY <1>1 DEF Schema!Control
  <1>3. Schema!Resume /\ ~Schema!Ours /\ Schema!Follows /\ Schema!Req \in Upgrade
    <2>1. Schema!Resume
      <3>1. ~Schema!Insert
        BY DEF Schema!Insert, SchemaInvariant, SchemaPlaceOK, SchemaWorking
      <3>2. ~Schema!RecordFailure /\ ~Schema!MarkPrepared /\ ~Schema!Survey
                /\ ~Schema!Widen /\ ~Schema!Recovered /\ ~Schema!Complete
        BY <1>2 DEF Schema!RecordFailure, Schema!MarkPrepared, Schema!Survey, Schema!Widen,
           Schema!Recovered, Schema!Complete
      <3> QED BY <3>1, <3>2 DEF Schema!Next, Schema!Step, Schema!Admit, Schema!GiveUp,
                 Schema!Begin, Schema!Dies, Schema!Preflight, Schema!Backup, Schema!Mark,
                 Schema!Refused, Schema!RecordFailed, Schema!Bootstrap, Schema!Adopt,
                 Schema!PreparationReceipt, Schema!BeginRecovery, Schema!Recover,
                 Schema!RecoveryReceipt, Schema!BeginGate, Schema!StartAttempt, Schema!Inject,
                 Schema!Migrate, Schema!FinishAttempt, Schema!GateReceipt, Schema!Finish,
                 schemaVars
    <2> QED BY <2>1 DEF Schema!Resume, SchemaInvariant, SchemaPlaceOK, SchemaWorking,
               Schema!TypeOK, Schema!Req
  <1> QED BY <1>1, <1>3, SchemaFollowing DEF Schema!Transition

\* Whatever is admitted, fails, dies or is run again, in a behaviour of the schema update.
THEOREM SchemaHolds == Updates => [](scope = "schema" => SchemaInvariant)
  <1> DEFINE all == <<restoreVars, schemaVars, rootVars, requestVars, slotVars, scope>>
             Holds == scope = "schema" => SchemaInvariant
  <1>1. Start => Holds
    BY SchemaStarts DEF Start
  <1>2. Holds /\ [AnyStep]_all => Holds'
    <2> SUFFICES ASSUME Holds, [AnyStep]_all, scope' = "schema" PROVE SchemaInvariant'
      OBVIOUS
    <2>1. CASE SchemaStep
      BY <2>1, SchemaSteps DEF SchemaStep
    <2>2. CASE RestoringStep \/ RootsStep \/ RequestsStep \/ SlotsStep
      BY <2>2 DEF RestoringStep, RootsStep, RequestsStep, SlotsStep
    <2>3. CASE UNCHANGED all
      BY <2>3, SchemaStays DEF schemaVars
    <2> QED BY <2>1, <2>2, <2>3 DEF AnyStep
  <1> QED BY <1>1, <1>2, PTL DEF Updates

\* Wherever the pipeline of preparation, recovery and gate is interrupted, whoever runs it
\* again and whatever the updater gave up: the attempts of the row's owner account for what is
\* in the database, a failed attempt did not make its transition, what is completed is at the
\* target, and the record of the mutation names who made it (schema_update_control.py,
\* schema_preparation.py, schema_migrations.py).
THEOREM SchemaIsTruthful == Updates => []SchemaTruthful
  <1>1. (scope = "schema" => SchemaInvariant) => SchemaTruthful
    BY SchemaTells DEF SchemaInvariant, SchemaTruthful
  <1> QED BY <1>1, SchemaHolds, PTL

\* A request that takes the control row of a failed one finds the database as the failed one
\* had found it, and none of its attempts open (bootstrap_or_resume_control).
THEOREM SchemaIsFinal == Updates => SchemaFinal
  <1> DEFINE all == <<restoreVars, schemaVars, rootVars, requestVars, slotVars, scope>>
             Holds == scope = "schema" => SchemaInvariant
             TakenOver == [Schema!TakenOver]_schemaVars
  <1>1. Holds /\ [AnyStep]_all => TakenOver
    <2> SUFFICES ASSUME Holds, [AnyStep]_all PROVE TakenOver
      OBVIOUS
    <2>1. CASE SchemaStep
      BY <2>1, SchemaTakesOver DEF SchemaStep
    <2>2. CASE RestoringStep \/ RootsStep \/ RequestsStep \/ SlotsStep
      BY <2>2 DEF RestoringStep, RootsStep, RequestsStep, SlotsStep
    <2>3. CASE UNCHANGED all
      BY <2>3
    <2> QED BY <2>1, <2>2, <2>3 DEF AnyStep
  <1> QED BY <1>1, SchemaHolds, PTL DEF Updates, SchemaFinal
=============================================================================

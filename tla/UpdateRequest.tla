---------------------------- MODULE UpdateRequest ----------------------------
(***************************************************************************)
(* A product update as its user sees it: the check for a release and the   *)
(* candidate it leaves in the API's memory, the submission that is         *)
(* admitted as the current request, its cancellation, and the status that  *)
(* is told of it, while the helper claims, carries out and answers what is *)
(* admitted.                                                               *)
(*                                                                         *)
(* A release is its number.  A request's identity is derived from the      *)
(* client's submission and the release, so the client may send it again.   *)
(* What an activation does to containers and slots is ReleaseActivation's; *)
(* here it replaces the API, moves what is installed, and writes its       *)
(* journal.                                                                *)
(***************************************************************************)
EXTENDS Naturals

CONSTANTS
    Submission, None,
    MaxRelease,      \* the releases that are ever published
    Returns,         \* may a submission come, again or late, when another has taken its place?
    MaxMishaps       \* bound on deaths, restarts and failures of a check or of an update

Release == 1..MaxRelease

VARIABLES
    world,      \* the newest published release, and the installed one
    snapshot,   \* _LAST_TRUSTED_APPLY_SNAPSHOT
    checking,   \* the check in progress: for whom, and the installed release it has read
    handler,    \* each submission's handler in the API
    current,    \* update-request.json
    answer,     \* update-status.json
    journal,    \* the activation journal
    updater,    \* the helper
    audit,      \* the requests whose audit event is committed
    admitted,   \* the submissions that were ever admitted
    told,       \* of the current request: has its activation begun, and what callers heard
                \* of it as its end
    mishaps

vars == <<world, snapshot, checking, handler, current, answer, journal, updater, audit, admitted,
          told, mishaps>>
memory == <<snapshot, checking, handler>>
files == <<current, answer, journal>>
records == <<audit, admitted, told>>

Id == Submission \X Release
Ui == "ui"

\* How a request ends.  The failures that the API, or a helper that finds an interrupted
\* claim, decides on are told apart from the update's own: "unclaimed" is
\* helper_not_claimed, "interrupted" helper_restart_interrupted.
Untried == {"cancelled", "unclaimed", "interrupted"}
Ended == {"completed", "failed_rolled_back", "blocked"}
Final == Ended \cup Untried \cup {"failed"}

Candidate == [target : Release, base : Release, fresh : BOOLEAN]
Checking == [by : Submission \cup {Ui}, base : Release]
Request == [id : Id, state : {"admitted", "claimed", "terminal"}, status : Final \cup {None}]
Answer == [id : Id, status : Final \cup {"running"}]
Activation == [id : Id, phase : Ended \cup {"prepared", "activated"}]
Handler == [at : {"idle", "selecting", "selected", "audited"}, asks : Release]
Updater == [at : {"down", "idle", "leased", "claiming", "ready", "child", "resuming", "ended",
                  "published"},
            id : Id \cup {None}, status : Final \cup {None}]

Idle == [at |-> "idle", asks |-> 1]
NoUpdate == [at |-> "idle", id |-> None, status |-> None]
Unheard == [begun |-> FALSE, ends |-> {}]

Init ==
    /\ world = [published |-> 1, installed |-> 1]
    /\ snapshot = None
    /\ checking = None
    /\ handler = [s \in Submission |-> Idle]
    /\ current = None
    /\ answer = None
    /\ journal = None
    /\ updater = NoUpdate
    /\ audit = {}
    /\ admitted = {}
    /\ told = Unheard
    /\ mishaps = 0

Mishap == mishaps < MaxMishaps /\ mishaps' = mishaps + 1
Calm == UNCHANGED mishaps

\* Who holds the lock file of the admission: a handler between its two writes, or the
\* helper between its two.
GuardFree == updater.at # "claiming" /\ \A s \in Submission : handler[s].at # "audited"

LeaseActive == updater.at \notin {"down", "idle"}

\* The newest release may also be taken back.
Publish ==
    /\ world' \in {[world EXCEPT !.published = r] : r \in Release \ {world.published}}
    /\ UNCHANGED <<updater, mishaps>> /\ UNCHANGED memory /\ UNCHANGED files
    /\ UNCHANGED records

-----------------------------------------------------------------------------
(* The check *)

\* A second check while one runs is refused.
BeginCheck(who) ==
    /\ checking = None
    /\ checking' = [by |-> who, base |-> world.installed]

\* The release that is found is compared with what was installed when the check began.
Available(found, base) == found > base

\* A failed check keeps what an earlier one has stored.
Store(found, base) ==
    snapshot' = IF Available(found, base) THEN [target |-> found, base |-> base, fresh |-> TRUE]
                ELSE None
CheckFails == Mishap /\ UNCHANGED snapshot

Check ==
    /\ \/ BeginCheck(Ui) /\ UNCHANGED snapshot /\ Calm
       \/ /\ checking # None /\ checking.by = Ui
          /\ checking' = None
          /\ (Store(world.published, checking.base) /\ Calm) \/ CheckFails
    /\ UNCHANGED <<world, handler, updater>> /\ UNCHANGED files /\ UNCHANGED records

Ages ==
    /\ snapshot # None /\ snapshot.fresh
    /\ snapshot' = [snapshot EXCEPT !.fresh = FALSE]
    /\ UNCHANGED <<world, checking, handler, updater, mishaps>>
    /\ UNCHANGED files /\ UNCHANGED records

-----------------------------------------------------------------------------
(* What is told of the current request *)

\* A journal of another request says nothing.
Projection(i) == IF journal # None /\ journal.id = i THEN journal.phase ELSE None
Phase == IF journal = None THEN None ELSE journal.phase
Unfinished == Phase \in {"prepared", "activated"}
Blocked == Phase = "blocked"

Published(i) == IF answer # None /\ answer.id = i THEN answer.status ELSE None

End(c, status) == [c EXCEPT !.state = "terminal", !.status = status]

\* Slip: an interrupted claim is given up although its activation has begun.
ReconciledBlindly(c, late) ==
    IF c.state = "terminal" THEN c
    ELSE IF Published(c.id) \in Final THEN End(c, Published(c.id))
    ELSE IF LeaseActive THEN c
    ELSE IF c.state = "claimed" THEN End(c, "interrupted")
    ELSE IF late THEN End(c, "unclaimed")
    ELSE c

\* An end the helper has published is taken over; a claim without a helper is given up
\* unless an activation has begun; so is, late, a request no helper has claimed.
Reconciled(c, late) ==
    IF c.state = "terminal" THEN c
    ELSE IF Published(c.id) \in Final THEN End(c, Published(c.id))
    ELSE IF LeaseActive THEN c
    ELSE IF c.state = "claimed"
         THEN IF Projection(c.id) = None THEN End(c, "interrupted") ELSE c
    ELSE IF late THEN End(c, "unclaimed")
    ELSE c

\* Only an end that the API itself decides on is written to the status as well.
MarkTerminal(c, r) ==
    /\ current' = r
    /\ answer' = IF r # c /\ Published(c.id) \notin Final
                 THEN [id |-> c.id, status |-> r.status] ELSE answer

\* The journal's end overrides the status, but not while the helper is at work.
StatusFor(c) ==
    LET p == Projection(c.id)
    IN  CASE c.state = "admitted" -> "queued"
          [] c.state = "claimed" -> IF p # None /\ ~LeaseActive THEN p ELSE "running"
          [] c.state = "terminal" -> IF p \in Ended THEN p ELSE c.status

Tells(c) ==
    told' = IF StatusFor(c) \in Final
            THEN [told EXCEPT !.ends = @ \cup {StatusFor(c)}] ELSE told

ReadStatus ==
    /\ GuardFree
    /\ current # None
    /\ \E late \in BOOLEAN : MarkTerminal(current, Reconciled(current, late))
    /\ Tells(current')
    /\ UNCHANGED <<world, journal, updater, audit, admitted, mishaps>> /\ UNCHANGED memory

\* Only a request that no helper has claimed is cancelled.
Cancel ==
    /\ GuardFree
    /\ current # None
    /\ \E late \in BOOLEAN :
         LET r == Reconciled(current, late)
         IN  MarkTerminal(current, IF r.state = "admitted" THEN End(r, "cancelled") ELSE r)
    /\ Tells(current')
    /\ UNCHANGED <<world, journal, updater, audit, admitted, mishaps>> /\ UNCHANGED memory

-----------------------------------------------------------------------------
(* The submission of an update *)

Goes(s, at) == handler' = [handler EXCEPT ![s].at = at]
Answers(s) == handler' = [handler EXCEPT ![s] = Idle]

InstalledMatches == snapshot.base = world.installed

\* A fresh snapshot of this release is enough; a stale or another one refuses the
\* submission; without one the handler checks itself.
Select(s, r) ==
    /\ handler[s].at = "idle"
    /\ IF snapshot # None
       THEN /\ snapshot.fresh /\ snapshot.target = r /\ InstalledMatches
            /\ handler' = [handler EXCEPT ![s] = [at |-> "selected", asks |-> r]]
            /\ UNCHANGED checking
       ELSE /\ BeginCheck(s)
            /\ handler' = [handler EXCEPT ![s] = [at |-> "selecting", asks |-> r]]
    /\ UNCHANGED <<world, snapshot, updater, mishaps>> /\ UNCHANGED files
    /\ UNCHANGED records

SelectChecked(s) ==
    /\ handler[s].at = "selecting"
    /\ checking' = None
    /\ \/ /\ Store(world.published, checking.base)
          /\ Calm
          /\ IF Available(world.published, checking.base) /\ handler[s].asks = world.published
             THEN Goes(s, "selected") ELSE Answers(s)
       \/ CheckFails /\ Answers(s)
    /\ UNCHANGED <<world, updater>> /\ UNCHANGED files /\ UNCHANGED records

\* What the guard finds: the same submission is answered with the state of its request;
\* another request in progress, or a helper at work, refuses it.
Replays(s, c) == c # None /\ c.id[1] = s
Busy(c) == (c # None /\ c.state # "terminal") \/ LeaseActive

\* The schema update and the other maintenance may refuse it too, or the audit fail; the
\* audit event is committed before the request is written.
Admit(s) ==
    /\ GuardFree
    /\ handler[s].at = "selected"
    /\ IF current = None THEN UNCHANGED <<current, answer>>
       ELSE \E late \in BOOLEAN : MarkTerminal(current, Reconciled(current, late))
    /\ IF Replays(s, current')
       THEN /\ Answers(s)
            /\ IF current'.id[2] = handler[s].asks THEN Tells(current') ELSE UNCHANGED told
            /\ UNCHANGED audit
       ELSE /\ UNCHANGED told
            /\ \/ /\ ~Busy(current') /\ (s \in admitted => Returns)
                  /\ Goes(s, "audited")
                  /\ audit' = audit \cup {<<s, handler[s].asks>>}
               \/ Answers(s) /\ UNCHANGED audit
    /\ UNCHANGED <<world, snapshot, checking, journal, updater, admitted, mishaps>>

WriteRequest(s) ==
    /\ handler[s].at = "audited"
    /\ current' = [id |-> <<s, handler[s].asks>>, state |-> "admitted", status |-> None]
    /\ admitted' = admitted \cup {s}
    /\ told' = Unheard
    /\ Answers(s)
    /\ UNCHANGED <<world, snapshot, checking, answer, journal, updater, audit, mishaps>>

\* The API's memory and its handlers are gone.
ApiReplaced ==
    /\ snapshot' = None
    /\ checking' = None
    /\ handler' = [s \in Submission |-> Idle]

ApiRestarts ==
    /\ Mishap
    /\ ApiReplaced
    /\ UNCHANGED <<world, updater>> /\ UNCHANGED files /\ UNCHANGED records

-----------------------------------------------------------------------------
(* The helper *)

Moves(at) == updater' = [updater EXCEPT !.at = at]
Leaves == updater' = NoUpdate
Finishes(status) == updater' = [updater EXCEPT !.at = "ended", !.status = status]
Fails == Finishes("failed")

\* A request that may need execution is polled for.
AcquireLease ==
    /\ updater.at = "idle"
    /\ current # None /\ current.state # "terminal"
    /\ Moves("leased")
    /\ UNCHANGED world /\ UNCHANGED files

\* A claim that is found is a helper's that died: resumed when an activation has begun,
\* given up otherwise.
Claim ==
    /\ updater.at = "leased"
    /\ GuardFree
    /\ CASE current.state = "terminal" ->
              Leaves /\ UNCHANGED <<current, answer>>
         [] current.state = "claimed" /\ Projection(current.id) # None ->
              /\ updater' = [updater EXCEPT !.at = "resuming", !.id = current.id]
              /\ UNCHANGED <<current, answer>>
         [] current.state = "claimed" /\ Projection(current.id) = None ->
              /\ answer' = [id |-> current.id, status |-> "interrupted"]
              /\ current' = End(current, "interrupted")
              /\ Leaves
         [] current.state = "admitted" ->
              /\ current' = [current EXCEPT !.state = "claimed"]
              /\ updater' = [updater EXCEPT !.at = "claiming", !.id = current.id]
              /\ UNCHANGED answer
    /\ UNCHANGED <<world, journal>>

Claimed ==
    /\ updater.at = "claiming"
    /\ answer' = [id |-> updater.id, status |-> "running"]
    /\ Moves("ready")
    /\ UNCHANGED <<world, current, journal>>

\* Where an activation may get from where it is, when it is taken up again.
Converged(phase) == IF phase = "blocked" THEN {"failed_rolled_back", "blocked"} ELSE Ended

\* The journal reaches an end; the installed release with it.
Settles(phase) ==
    /\ journal' = [journal EXCEPT !.phase = phase]
    /\ world' = IF phase = "completed" THEN [world EXCEPT !.installed = journal.id[2]] ELSE world
    /\ ApiReplaced \/ (phase # "completed" /\ UNCHANGED memory)

\* Before its child the helper resolves the active release, which takes up an activation
\* that an earlier update has left unfinished or blocked.
Resolve ==
    /\ updater.at = "ready"
    /\ \/ /\ Unfinished \/ Blocked
          /\ \E phase \in Converged(Phase) :
               /\ Settles(phase)
               /\ IF phase = "blocked" THEN Fails ELSE UNCHANGED updater
          /\ Calm
       \/ /\ ~(Unfinished \/ Blocked)
          /\ Moves("child") /\ Calm
          /\ UNCHANGED <<world, journal>> /\ UNCHANGED memory
       \/ /\ Mishap /\ Fails        \* so does a source that is not a published release's
          /\ UNCHANGED <<world, journal>> /\ UNCHANGED memory
    /\ UNCHANGED <<current, answer>> /\ UNCHANGED records

\* A release knows by its lineage the releases before it, and itself.
InLineage(r) == world.installed \in 1..r

\* The child prepares the slot and begins the activation, of a release that knows the
\* installed one.
Prepare ==
    /\ updater.at = "child" /\ Projection(updater.id) = None
    /\ \/ /\ InLineage(updater.id[2])
          /\ journal' = [id |-> updater.id, phase |-> "prepared"]
          /\ told' = [told EXCEPT !.begun = TRUE]
          /\ UNCHANGED updater /\ Calm
       \/ /\ IF InLineage(updater.id[2]) THEN Mishap ELSE Calm
          /\ Fails /\ UNCHANGED <<journal, told>>
    /\ UNCHANGED <<world, current, answer, audit, admitted>> /\ UNCHANGED memory

\* The child, and after a death of the helper the resumed activation, drive the journal.
Drives == updater.at \in {"child", "resuming"} /\ Projection(updater.id) # None

\* The API is stopped and started again from the target's slot, before anything else says
\* that the target is installed.
Activate ==
    /\ Drives /\ Phase = "prepared"
    /\ journal' = [journal EXCEPT !.phase = "activated"]
    /\ ApiReplaced
    /\ Calm
    /\ UNCHANGED <<world, current, answer, updater>> /\ UNCHANGED records

Commit ==
    /\ Drives /\ Phase = "activated"
    /\ journal' = [journal EXCEPT !.phase = "completed"]
    /\ world' = [world EXCEPT !.installed = updater.id[2]]
    /\ Calm
    /\ UNCHANGED <<current, answer, updater>> /\ UNCHANGED memory /\ UNCHANGED records

RollBack ==
    /\ Drives /\ Unfinished
    /\ \E phase \in {"failed_rolled_back", "blocked"} : Settles(phase)
    /\ Mishap
    /\ UNCHANGED <<current, answer, updater>> /\ UNCHANGED records

\* A resumed activation that turns out blocked, a child that runs out of its time or ends
\* without the journal's end, and a target that is not found in place, have failed.
Outcome ==
    /\ Drives
    /\ \/ /\ Phase \in Ended
          /\ Finishes(Phase) /\ Calm
       \/ /\ (updater.at = "resuming" /\ Blocked /\ Calm) \/ Mishap
          /\ Fails
    /\ UNCHANGED <<world, current, answer, journal>> /\ UNCHANGED memory /\ UNCHANGED records

PublishStatus ==
    /\ updater.at = "ended"
    /\ answer' = [id |-> updater.id, status |-> updater.status]
    /\ Moves("published")
    /\ UNCHANGED <<world, current, journal>>

\* The API may have taken over the published end already.
PublishTerminal ==
    /\ updater.at = "published"
    /\ GuardFree
    /\ current' = IF current.id = updater.id /\ current.state = "claimed"
                  THEN End(current, updater.status) ELSE current
    /\ Leaves
    /\ UNCHANGED <<world, answer, journal>>

HelperStep ==
    \/ /\ AcquireLease \/ Claim \/ Claimed \/ PublishStatus \/ PublishTerminal
       /\ Calm /\ UNCHANGED memory /\ UNCHANGED records
    \/ Resolve \/ Prepare \/ Activate \/ Commit \/ RollBack \/ Outcome

\* Its lease, its guard and its child go with it.
HelperDies ==
    /\ updater.at # "down"
    /\ Mishap
    /\ updater' = [NoUpdate EXCEPT !.at = "down"]
    /\ UNCHANGED world /\ UNCHANGED memory /\ UNCHANGED files /\ UNCHANGED records

HelperBoots ==
    /\ updater.at = "down"
    /\ Leaves
    /\ UNCHANGED <<world, mishaps>> /\ UNCHANGED memory /\ UNCHANGED files /\ UNCHANGED records

\* A restart of the installation, or of the helper's container, takes up what is unfinished
\* or blocked as well.
Repair ==
    /\ updater.at \notin {"child", "resuming"}
    /\ Unfinished \/ Blocked
    /\ \E phase \in Converged(Phase) : Settles(phase)
    /\ UNCHANGED <<current, answer, updater, mishaps>> /\ UNCHANGED records

-----------------------------------------------------------------------------
ApiStep(s) == SelectChecked(s) \/ Admit(s) \/ WriteRequest(s)

Next ==
    \/ Publish \/ Check \/ Ages \/ ReadStatus \/ Cancel \/ ApiRestarts
    \/ \E s \in Submission : (\E r \in Release : Select(s, r)) \/ ApiStep(s)
    \/ HelperStep \/ HelperDies \/ HelperBoots \/ Repair

Spec == Init /\ [][Next]_vars

-----------------------------------------------------------------------------
TypeOK ==
    /\ world \in [published : Release, installed : Release]
    /\ snapshot \in Candidate \cup {None}
    /\ checking \in Checking \cup {None}
    /\ handler \in [Submission -> Handler]
    /\ current \in Request \cup {None}
    /\ answer \in Answer \cup {None}
    /\ journal \in Activation \cup {None}
    /\ updater \in Updater
    /\ audit \subseteq Id /\ admitted \subseteq Submission
    /\ told \in [begun : BOOLEAN, ends : SUBSET Final]
    /\ mishaps \in 0..MaxMishaps

Working == updater.at \in {"claiming", "ready", "child", "resuming", "ended", "published"}

\* The helper works on the current request, and nobody gives that up meanwhile as one that
\* was never tried.
OneAtATime == Working => current.id = updater.id /\ current.status \notin Untried

\* What is told as given up before it began never began, and is told nothing else; an
\* update that is told completed is never told as undone, nor the other way round.
WordKept ==
    /\ told.ends \cap Untried # {} => ~told.begun /\ \E end \in Untried : told.ends = {end}
    /\ "completed" \in told.ends => told.ends \subseteq {"completed", "failed"}

\* No request is admitted that the audit does not know.
Audited == current # None => current.id \in audit

\* No activation takes the installation back behind the release that is installed.
Forward == Unfinished => journal.id[2] >= world.installed

Truthful == OneAtATime /\ WordKept /\ Audited /\ Forward

\* No request is admitted or claimed any more.
Settled == current # None => current.state = "terminal"
==============================================================================

---------------------------- MODULE ReleaseSlots ----------------------------
(***************************************************************************)
(* The store of release slots and who writes to it: the installer, the     *)
(* update script run by the helper or from a terminal, the convergence     *)
(* that ends with a cleanup of what nobody needs any more, and the         *)
(* coordinator that replaces the helper's own container after an update.   *)
(*                                                                         *)
(* Preparing a slot needs the update lock only, removing one the           *)
(* activation lease only, and replacing the helper's container neither.    *)
(* A slot's images are one image here, kept by one alias.  The activation  *)
(* itself is ReleaseActivation's; here it is begun, has switched, and ends.*)
(***************************************************************************)
EXTENDS Naturals, FiniteSets

CONSTANTS
    None,
    MaxRelease,     \* the releases that can be prepared
    Builds,         \* the images, some numbers, that a build of each slot may yield
    MaxRequests,    \* bound on updates
    MaxMishaps      \* bound on steps that fail, processes that die and restarts

First == 0          \* the slot of the installation, or of the source found by its first update
Slot == First..MaxRelease
Request == 1..MaxRequests
Image == UNION {Builds[s] : s \in Slot}

\* The processes in the helper's container and those of a terminal on the host.
Driver == {"helper", "terminal"}

VARIABLES
    origin,         \* found by its first update ("legacy"), or put up by the installer ("fresh")
    slot,           \* each slot: none, whole or half removed, and the image of its manifest
    alias,          \* the image each slot's alias keeps
    active,         \* the active pointer
    projected,      \* the slot of the installed projection
    journal,        \* the activation journal
    lock,           \* update.lock: free, held, or left behind
    run,            \* the process of each driver
    helper,         \* its container: up or starting, its image, and the request it has claimed
    status,         \* the helper's published status: of which request, and what
    coordinator,    \* after an update of a request, what replaces the helper's container
    issued,         \* requests so far
    mishaps

vars == <<origin, slot, alias, active, projected, journal, lock, run, helper, status,
          coordinator, issued, mishaps>>
store == <<slot, alias>>
pointers == <<active, projected>>
daemon == <<helper, status, coordinator>>

-----------------------------------------------------------------------------
Open == journal # None /\ journal.phase \in {"prepared", "switched", "blocked"}
Belongs(r) == journal # None /\ journal.req = r

\* Off, or what the process is at.  kind: an update, an installation or a resumption;
\* slot: the one in preparation; terminal: it replaces the helper itself; doomed: what the
\* cleanup still has to remove.
Off == [at |-> "off", kind |-> "resume", req |-> 0, target |-> First, previous |-> None,
        slot |-> First, image |-> None, terminal |-> FALSE, doomed |-> {}]

Preparing == {"handoff", "stage", "build", "seal", "bind", "project first", "start"}
Leased == {"captured", "loop", "project", "refresh", "clean", "slots", "removing", "images"}

Goes(d, at) == run' = [run EXCEPT ![d].at = at]
Free == \A d \in Driver : run[d].at \notin Leased

Mishap == mishaps < MaxMishaps /\ mishaps' = mishaps + 1
Calm == UNCHANGED mishaps

Whole(s) == slot[s].at = "whole"
Kept(s) == alias[s] = slot[s].image
Runnable(s) == Whole(s) /\ Kept(s)

Empty == [at |-> "none", image |-> None]

Init ==
    /\ origin \in {"legacy", "fresh"}
    /\ slot = [s \in Slot |-> Empty]
    /\ alias = [s \in Slot |-> None]
    /\ active = None /\ projected = None
    /\ journal = None
    /\ lock = "free"
    /\ run = [d \in Driver |-> Off]
    /\ \E i \in Builds[First] :
         helper = [up |-> origin = "legacy", image |-> IF origin = "legacy" THEN i ELSE None,
                   req |-> 0]
    /\ status = [req |-> 0, is |-> "ended"]
    /\ coordinator = [q \in Request |-> None]
    /\ issued = 0
    /\ mishaps = 0

-----------------------------------------------------------------------------
(* Beginnings and ends *)

\* What remains when the process ends by itself: the lock is given back, and the helper
\* publishes the end of its request.
Ended(d, is) ==
    /\ run' = [run EXCEPT ![d] = Off]
    /\ lock' = IF run[d].kind = "update" THEN "free" ELSE lock
    /\ IF d = "helper" /\ helper.up /\ helper.req # 0
       THEN /\ status' = [req |-> helper.req, is |-> is]
            /\ helper' = [helper EXCEPT !.req = 0]
       ELSE UNCHANGED <<helper, status>>

Fails(d) == Ended(d, "failed")
Goal == IF journal.phase = "completed" THEN "completed" ELSE "failed"

Coordinates(q, at) == coordinator[q] # None /\ coordinator[q].at = at
Holding == \E q \in Request : Coordinates(q, "holding")

\* The claim lease: the coordinator's while it waits for a status, the helper's from its
\* claim to its publication.
Claimable == helper.up /\ helper.req = 0 /\ ~Holding

Update(d, t) ==
    /\ run[d].at = "off" /\ lock = "free" /\ issued < MaxRequests
    /\ origin = "legacy" \/ helper.up
    /\ issued' = issued + 1
    /\ lock' = "held"
    /\ run' = [run EXCEPT ![d] = [Off EXCEPT !.at = "handoff", !.kind = "update",
                                  !.req = issued + 1, !.target = t,
                                  !.terminal = d = "terminal"]]
    /\ IF d = "helper"
       THEN /\ Claimable
            /\ helper' = [helper EXCEPT !.req = issued + 1]
            /\ status' = [req |-> issued + 1, is |-> "claimed"]
       ELSE UNCHANGED <<helper, status>>
    /\ UNCHANGED <<origin, journal, coordinator, mishaps>> /\ UNCHANGED store
    /\ UNCHANGED pointers

\* Another process has the lock, or had it when it was killed.
Refused ==
    /\ Claimable /\ run["helper"].at = "off" /\ lock # "free" /\ issued < MaxRequests
    /\ issued' = issued + 1
    /\ status' = [req |-> issued + 1, is |-> "failed"]
    /\ UNCHANGED <<origin, journal, lock, run, helper, coordinator, mishaps>>
    /\ UNCHANGED store /\ UNCHANGED pointers

\* "Remove it only after verifying no update process is active."
RemoveLock ==
    /\ lock = "left" /\ lock' = "free"
    /\ UNCHANGED <<origin, journal, run, issued, mishaps>>
    /\ UNCHANGED store /\ UNCHANGED pointers /\ UNCHANGED daemon

\* The identity of the initial slot is kept from one attempt to the next.
Install ==
    /\ origin = "fresh" /\ helper.image = None /\ run["terminal"].at = "off"
    /\ run' = [run EXCEPT !["terminal"] = [Off EXCEPT !.at = "stage", !.kind = "install"]]
    /\ UNCHANGED <<origin, journal, lock, issued, mishaps>>
    /\ UNCHANGED store /\ UNCHANGED pointers /\ UNCHANGED daemon

-----------------------------------------------------------------------------
(* The handoff *)

\* The projection must be of the active slot; only an adopted release may be without.
Classified == projected = active \/ (projected = None /\ origin = "legacy" /\ active = First)

RunsHelper(s) == helper.image = slot[s].image

Handoff(d) ==
    /\ run[d].at = "handoff"
    /\ \/ /\ active = None /\ projected = None
          /\ run' = [run EXCEPT ![d].at = "stage", ![d].slot = First]
          /\ Calm /\ UNCHANGED <<projected, lock, helper, status>>
       \/ /\ active # None /\ Classified /\ Whole(active) /\ RunsHelper(active)
          /\ projected' = active
          /\ run' = [run EXCEPT ![d].at = "stage", ![d].previous = active,
                                ![d].slot = run[d].target]
          /\ Calm /\ UNCHANGED <<lock, helper, status>>
       \/ /\ active # None /\ ~(Classified /\ Whole(active) /\ RunsHelper(active))
          /\ Fails(d) /\ Calm /\ UNCHANGED projected
       \/ Fails(d) /\ Mishap /\ UNCHANGED projected
    /\ UNCHANGED <<origin, active, journal, coordinator, issued>> /\ UNCHANGED store

-----------------------------------------------------------------------------
(* A slot is prepared *)

Prepared(d) ==
    CASE run[d].kind = "install" \/ run[d].slot = First -> "bind"
      [] OTHER -> "activate"

\* A slot that is there is taken as it is when its images are; an adopted one must be what
\* is running.
Reusable(d) ==
    LET s == run[d].slot
    IN  Runnable(s) /\ (run[d].kind = "update" /\ s = First => RunsHelper(s))

Stage(d) ==
    LET s == run[d].slot
    IN  /\ run[d].at = "stage"
        /\ \/ /\ slot[s].at = "none"
              /\ Goes(d, "build") /\ UNCHANGED <<lock, helper, status>> /\ Calm
           \/ /\ slot[s].at # "none"
              /\ IF Reusable(d)
                 THEN Goes(d, Prepared(d)) /\ UNCHANGED <<lock, helper, status>>
                 ELSE Fails(d)
              /\ Calm
           \/ Fails(d) /\ Mishap
    /\ UNCHANGED <<origin, journal, coordinator, issued>>
    /\ UNCHANGED store /\ UNCHANGED pointers

\* preserve_slot_images: an alias of another image is never moved.
KeepsImages(d, s, i) ==
    IF alias[s] \in {None, i}
    THEN /\ alias' = [alias EXCEPT ![s] = i]
         /\ run' = [run EXCEPT ![d].at = "seal", ![d].image = i]
         /\ UNCHANGED <<lock, helper, status>>
    ELSE Fails(d) /\ UNCHANGED alias

\* What an adopted slot keeps is the image that runs.
Yields(d, s) == IF run[d].kind = "update" /\ s = First THEN {helper.image} ELSE Builds[s]

Build(d) ==
    LET s == run[d].slot
    IN  /\ run[d].at = "build"
        /\ \/ \E i \in Yields(d, s) : KeepsImages(d, s, i) /\ Calm
           \/ Fails(d) /\ Mishap /\ UNCHANGED alias
    /\ UNCHANGED <<origin, slot, journal, coordinator, issued>> /\ UNCHANGED pointers

\* finalize_candidate: the manifest is written and the tree frozen, then the directory
\* moves to its place in one step.
Publish(d) ==
    LET s == run[d].slot
    IN  /\ run[d].at = "seal"
        /\ \/ /\ slot[s].at = "none"
              /\ slot' = [slot EXCEPT ![s] = [at |-> "whole", image |-> run[d].image]]
              /\ Goes(d, Prepared(d)) /\ UNCHANGED <<lock, helper, status>> /\ Calm
           \/ /\ (slot[s].at # "none" /\ Calm) \/ Mishap
              /\ Fails(d) /\ UNCHANGED slot
    /\ UNCHANGED <<origin, alias, journal, coordinator, issued>> /\ UNCHANGED pointers

\* The first slot becomes the active one, without the lease.
Bind(d) ==
    /\ run[d].at = "bind"
    /\ IF Whole(First) /\ (active = None \/ run[d].kind = "install")
       THEN active' = First /\ Goes(d, "project first") /\ UNCHANGED <<lock, helper, status>>
       ELSE Fails(d) /\ UNCHANGED active
    /\ UNCHANGED <<origin, projected, journal, coordinator, issued, mishaps>>
    /\ UNCHANGED store

ProjectFirst(d) ==
    /\ run[d].at = "project first"
    /\ projected' = active
    /\ run' = [run EXCEPT ![d].at = IF run[d].kind = "install" THEN "start" ELSE "stage",
                          ![d].previous = First, ![d].slot = run[d].target]
    /\ UNCHANGED <<origin, active, journal, lock, issued, mishaps>>
    /\ UNCHANGED store /\ UNCHANGED daemon

\* The installer starts the containers, the helper among them.
Start(d) ==
    /\ run[d].at = "start" /\ Runnable(First)
    /\ helper' = [up |-> TRUE, image |-> slot[First].image, req |-> 0]
    /\ run' = [run EXCEPT ![d] = Off]
    /\ UNCHANGED <<origin, journal, lock, status, coordinator, issued, mishaps>>
    /\ UNCHANGED store /\ UNCHANGED pointers

-----------------------------------------------------------------------------
(* The activation *)

\* Under the lease: the slots are captured, the target's own image proves the schema,
\* and both are captured again before the journal is written.
Captured(d) ==
    /\ active = run[d].previous /\ Whole(run[d].target)
    /\ Whole(active) /\ RunsHelper(active)

TakeLease(d) ==
    /\ run[d].at = "activate" /\ Free
    /\ IF run[d].kind = "resume" /\ Belongs(run[d].req)
       THEN Goes(d, IF Open THEN "loop" ELSE "project") /\ UNCHANGED <<lock, helper, status>>
       ELSE IF run[d].kind = "update" /\ ~Open /\ Captured(d)
       THEN Goes(d, "captured") /\ UNCHANGED <<lock, helper, status>>
       ELSE Fails(d)
    /\ UNCHANGED <<origin, journal, coordinator, issued, mishaps>>
    /\ UNCHANGED store /\ UNCHANGED pointers

\* Slip: the images of a captured target are taken for granted.
ProvedBlindly(d) == Captured(d)

Proved(d) == Captured(d) /\ Kept(run[d].target) /\ run[d].previous # run[d].target

InitializeJournal(d) ==
    /\ run[d].at = "captured"
    /\ \/ /\ Proved(d)
          /\ journal' = [req |-> run[d].req, previous |-> run[d].previous,
                         target |-> run[d].target, phase |-> "prepared"]
          /\ Goes(d, "loop") /\ UNCHANGED <<lock, helper, status>> /\ Calm
       \/ /\ (~Proved(d) /\ Calm) \/ Mishap
          /\ Fails(d) /\ UNCHANGED journal
    /\ UNCHANGED <<origin, coordinator, issued>> /\ UNCHANGED store /\ UNCHANGED pointers

Moves(phase) == journal' = [journal EXCEPT !.phase = phase]
In(d, phase) == run[d].at = "loop" /\ journal.phase = phase

Switch(d) ==
    /\ In(d, "prepared") /\ Runnable(journal.target)
    /\ active' = journal.target /\ Moves("switched")
    /\ UNCHANGED <<origin, projected, lock, run, issued, mishaps>>
    /\ UNCHANGED store /\ UNCHANGED daemon

Complete(d) ==
    /\ In(d, "switched")
    /\ Moves("completed")
    /\ run' = [run EXCEPT ![d].at = "project", ![d].doomed = Slot]
    /\ UNCHANGED <<origin, lock, issued, mishaps>>
    /\ UNCHANGED store /\ UNCHANGED pointers /\ UNCHANGED daemon

\* The previous release is started from its own image, and the helper must run its image.
RollBack(d) ==
    /\ run[d].at = "loop"
    /\ \/ journal.phase \in {"prepared", "switched"} /\ Mishap
       \/ journal.phase = "prepared" /\ ~Runnable(journal.target) /\ Calm
       \/ journal.phase = "blocked" /\ (Calm \/ Mishap)
    /\ \/ /\ Runnable(journal.previous) /\ RunsHelper(journal.previous)
          /\ active' = journal.previous /\ Moves("rolled back")
          /\ run' = [run EXCEPT ![d].at = "project", ![d].doomed = Slot]
          /\ UNCHANGED <<lock, helper, status>>
       \/ /\ \/ ~(Runnable(journal.previous) /\ RunsHelper(journal.previous))
             \/ mishaps' # mishaps
          /\ active' \in {active, journal.previous} /\ Moves("blocked")
          /\ Fails(d)
    /\ UNCHANGED <<origin, projected, coordinator, issued>> /\ UNCHANGED store

Selected == IF journal.phase = "completed" THEN journal.target ELSE journal.previous

\* Only who has written the end of the journal goes on from here.
Project(d) ==
    /\ run[d].at = "project"
    /\ projected' = Selected
    /\ IF run[d].doomed = {} THEN Ended(d, Goal)
       ELSE /\ Goes(d, IF journal.phase = "completed" THEN "refresh" ELSE "clean")
            /\ UNCHANGED <<lock, helper, status>>
    /\ UNCHANGED <<origin, active, journal, coordinator, issued, mishaps>>
    /\ UNCHANGED store

-----------------------------------------------------------------------------
(* The helper's container is replaced *)

\* The processes in the container go with it; its lock stays.
Killed(image) ==
    /\ helper' = [helper EXCEPT !.up = FALSE, !.image = image]
    /\ lock' = IF run["helper"].kind = "update" THEN "left" ELSE lock

\* A terminal replaces the helper, the helper's child leaves it to a coordinator; when
\* that fails, only a warning is given.
Refresh(d) ==
    /\ run[d].at = "refresh"
    /\ \/ /\ run[d].terminal /\ Runnable(journal.target)
          /\ Killed(slot[journal.target].image)
          /\ run' = IF d = "helper" THEN [run EXCEPT ![d] = Off]
                    ELSE [run EXCEPT ![d].at = "clean", !["helper"] = Off]
          /\ UNCHANGED coordinator /\ Calm
       \/ /\ ~run[d].terminal /\ Whole(journal.target)
          /\ coordinator' = [coordinator EXCEPT ![journal.req] =
                                 [at |-> "begun", slot |-> journal.target]]
          /\ Goes(d, "clean") /\ UNCHANGED <<helper, lock>> /\ Calm
       \/ /\ Mishap
          /\ Goes(d, "clean") /\ UNCHANGED <<helper, lock, coordinator>>
    /\ UNCHANGED <<origin, journal, status, issued>> /\ UNCHANGED store /\ UNCHANGED pointers

\* The journal must still be the end of this update; then the claim lease is waited for.
BeginRefresh(q) ==
    /\ Coordinates(q, "begun")
    /\ coordinator' = [coordinator EXCEPT ![q] =
           IF /\ Belongs(q) /\ journal.phase = "completed"
              /\ active = coordinator[q].slot
           THEN [@ EXCEPT !.at = "waiting"] ELSE None]
    /\ UNCHANGED <<helper, lock, run>>

\* With the lease a status other than the expected end is an error, and a missing one is
\* waited for; with the end the lease is given back.
AwaitStatus(q) ==
    /\ \/ Coordinates(q, "waiting") /\ (helper.req = 0 \/ ~helper.up) /\ ~Holding
       \/ Coordinates(q, "holding")
    /\ coordinator' = [coordinator EXCEPT ![q] =
           IF status = [req |-> q, is |-> "completed"] THEN [@ EXCEPT !.at = "recreating"]
           ELSE IF status = [req |-> q, is |-> "claimed"] /\ Coordinates(q, "waiting")
           THEN [@ EXCEPT !.at = "holding"]
           ELSE None]
    /\ UNCHANGED <<helper, lock, run>>

Recreate(q) ==
    /\ Coordinates(q, "recreating")
    /\ coordinator' = [coordinator EXCEPT ![q] = None]
    /\ IF Runnable(coordinator[q].slot)
       THEN Killed(slot[coordinator[q].slot].image) /\ run' = [run EXCEPT !["helper"] = Off]
       ELSE UNCHANGED <<helper, lock, run>>

CoordinatorStep ==
    /\ \E q \in Request : BeginRefresh(q) \/ AwaitStatus(q) \/ Recreate(q)
    /\ UNCHANGED <<origin, journal, status, issued, mishaps>>
    /\ UNCHANGED store /\ UNCHANGED pointers

\* run_role: an activation that is open is resumed first; then the helper must run the
\* active slot's image, and replaces itself when it does not.
Boot ==
    /\ ~helper.up /\ helper.image # None /\ run["helper"].at = "off"
    /\ IF Open
       THEN /\ run' = [run EXCEPT !["helper"] = [Off EXCEPT !.at = "activate", !.terminal = TRUE,
                                                 !.req = journal.req]]
            /\ UNCHANGED helper
       ELSE /\ active # None => Runnable(active)
            /\ helper' = [helper EXCEPT !.up = active = None \/ RunsHelper(active),
                                        !.image = IF active = None THEN @
                                                  ELSE slot[active].image]
            /\ UNCHANGED run
    /\ UNCHANGED <<origin, journal, lock, status, coordinator, issued, mishaps>>
    /\ UNCHANGED store /\ UNCHANGED pointers

\* A claimed request that the helper finds: resumed when the journal is its own.
ClaimAgain ==
    /\ helper.up /\ helper.req # 0 /\ run["helper"].at = "off"
    /\ ~Holding
    /\ IF Belongs(helper.req)
       THEN /\ run' = [run EXCEPT !["helper"] = [Off EXCEPT !.at = "activate",
                                                            !.req = helper.req]]
            /\ UNCHANGED <<helper, status>>
       ELSE /\ status' = [req |-> helper.req, is |-> "failed"]
            /\ helper' = [helper EXCEPT !.req = 0]
            /\ UNCHANGED run
    /\ UNCHANGED <<origin, journal, lock, coordinator, issued, mishaps>>
    /\ UNCHANGED store /\ UNCHANGED pointers

\* The restart script.
OperatorResumes ==
    /\ run["terminal"].at = "off" /\ Open
    /\ run' = [run EXCEPT !["terminal"] = [Off EXCEPT !.at = "activate", !.terminal = TRUE,
                                                      !.req = journal.req]]
    /\ UNCHANGED <<origin, journal, lock, issued, mishaps>>
    /\ UNCHANGED store /\ UNCHANGED pointers /\ UNCHANGED daemon

-----------------------------------------------------------------------------
(* The cleanup *)

\* Slip: the slot an activation came from is not protected.
ProtectsActive == {active} \cup (IF journal = None THEN {} ELSE {journal.target})

Protected == {active} \cup (IF journal = None THEN {} ELSE {journal.previous, journal.target})

\* Every slot is validated before any is removed; one that is half removed ends the cleanup.
Clean(d) ==
    /\ run[d].at = "clean"
    /\ \/ /\ \A s \in Slot : slot[s].at # "broken"
          /\ run' = [run EXCEPT ![d].at = "slots",
                                ![d].doomed = {s \in Slot : Whole(s)} \ Protected]
          /\ Calm /\ UNCHANGED <<lock, helper, status>>
       \/ /\ ((\E s \in Slot : slot[s].at = "broken") /\ Calm) \/ Mishap
          /\ Ended(d, Goal)
    /\ UNCHANGED <<origin, journal, coordinator, issued>> /\ UNCHANGED store
    /\ UNCHANGED pointers

Remove(d) ==
    /\ run[d].at = "slots" /\ run[d].doomed # {}
    /\ \E s \in run[d].doomed :
         /\ slot' = [slot EXCEPT ![s].at = "broken"]
         /\ run' = [run EXCEPT ![d].at = "removing", ![d].slot = s]
    /\ UNCHANGED <<origin, alias, journal, lock, issued, mishaps>>
    /\ UNCHANGED pointers /\ UNCHANGED daemon

Removed(d) ==
    /\ run[d].at = "removing"
    /\ slot' = [slot EXCEPT ![run[d].slot] = Empty]
    /\ run' = [run EXCEPT ![d].at = "slots", ![d].doomed = @ \ {run[d].slot}]
    /\ UNCHANGED <<origin, alias, journal, lock, issued, mishaps>>
    /\ UNCHANGED pointers /\ UNCHANGED daemon

\* The aliases are listed once; one made later is not seen.
ListImages(d) ==
    /\ run[d].at = "slots" /\ run[d].doomed = {}
    /\ run' = [run EXCEPT ![d].at = "images",
                          ![d].doomed = {s \in Slot : alias[s] # None} \ Protected]
    /\ UNCHANGED <<origin, journal, lock, issued, mishaps>>
    /\ UNCHANGED store /\ UNCHANGED pointers /\ UNCHANGED daemon

RemoveImage(d) ==
    /\ run[d].at = "images" /\ run[d].doomed # {}
    /\ LET s == CHOOSE s \in run[d].doomed : \A t \in run[d].doomed : s <= t
       IN  /\ alias' = [alias EXCEPT ![s] = None]
           /\ run' = [run EXCEPT ![d].doomed = @ \ {s}]
    /\ UNCHANGED <<origin, slot, journal, lock, issued, mishaps>>
    /\ UNCHANGED pointers /\ UNCHANGED daemon

Cleaned(d) ==
    /\ run[d].at = "images" /\ run[d].doomed = {}
    /\ Ended(d, Goal)
    /\ UNCHANGED <<origin, journal, coordinator, issued, mishaps>>
    /\ UNCHANGED store /\ UNCHANGED pointers

-----------------------------------------------------------------------------
(* Deaths *)

Lost(d) == IF run[d].kind = "update" THEN "left" ELSE lock

\* A process is killed; the helper's container restarts; the host does.
TerminalDies ==
    /\ run["terminal"].at # "off" /\ Mishap
    /\ run' = [run EXCEPT !["terminal"] = Off]
    /\ lock' = Lost("terminal")
    /\ UNCHANGED <<helper, coordinator>>

HelperDies ==
    /\ helper.up \/ run["helper"].at # "off"
    /\ Mishap
    /\ helper' = [helper EXCEPT !.up = FALSE]
    /\ run' = [run EXCEPT !["helper"] = Off]
    /\ lock' = Lost("helper")
    /\ UNCHANGED coordinator

HostReboots ==
    /\ Mishap
    /\ helper' = [helper EXCEPT !.up = FALSE]
    /\ run' = [d \in Driver |-> Off]
    /\ lock' = IF lock = "held" THEN "left" ELSE lock
    /\ coordinator' = [q \in Request |-> None]

Deaths ==
    /\ TerminalDies \/ HelperDies \/ HostReboots
    /\ UNCHANGED <<origin, journal, status, issued>> /\ UNCHANGED store /\ UNCHANGED pointers

-----------------------------------------------------------------------------
DriverStep(d) ==
    \/ Handoff(d) \/ Stage(d) \/ Build(d) \/ Publish(d) \/ Bind(d) \/ ProjectFirst(d)
    \/ Start(d) \/ InitializeJournal(d) \/ Switch(d) \/ Complete(d) \/ RollBack(d) \/ Project(d)
    \/ Refresh(d) \/ Clean(d) \/ Remove(d) \/ Removed(d) \/ ListImages(d) \/ RemoveImage(d)
    \/ Cleaned(d)

HelperStep == Boot \/ ClaimAgain

\* What goes on by itself.
Works == HelperStep \/ CoordinatorStep \/ \E d \in Driver : TakeLease(d) \/ DriverStep(d)

Next ==
    \/ \E d \in Driver, t \in 1..MaxRelease : Update(d, t)
    \/ Works \/ Refused \/ RemoveLock \/ Install \/ OperatorResumes \/ Deaths

Spec == Init /\ [][Next]_vars

-----------------------------------------------------------------------------
TypeOK ==
    /\ origin \in {"legacy", "fresh"}
    /\ slot \in [Slot -> [at : {"none", "whole", "broken"}, image : Image \cup {None}]]
    /\ alias \in [Slot -> Image \cup {None}]
    /\ {active, projected} \subseteq Slot \cup {None}
    /\ journal \in [req : 0..MaxRequests, previous : Slot, target : Slot,
                    phase : {"prepared", "switched", "blocked", "completed", "rolled back"}]
                   \cup {None}
    /\ lock \in {"free", "held", "left"}
    /\ run \in [Driver ->
           [at : {"off", "activate"} \cup Preparing \cup Leased,
            kind : {"update", "install", "resume"}, req : 0..MaxRequests, target : Slot,
            previous : Slot \cup {None}, slot : Slot, image : Image \cup {None},
            terminal : BOOLEAN, doomed : SUBSET Slot]]
    /\ helper \in [up : BOOLEAN, image : Image \cup {None}, req : 0..MaxRequests]
    /\ status \in [req : 0..MaxRequests, is : {"claimed", "completed", "failed", "ended"}]
    /\ coordinator \in
           [Request ->
            [at : {"begun", "waiting", "holding", "recreating"}, slot : Slot] \cup {None}]
    /\ issued \in 0..MaxRequests
    /\ mishaps \in 0..MaxMishaps

\* What runs, and what an activation came from and leads to, can be started from its own
\* slot and image, whoever cleans up, prepares a release again or dies.
EndsKept ==
    /\ active # None => Runnable(active)
    /\ journal # None => Runnable(journal.previous) /\ Runnable(journal.target)

\* So can the helper; and the installed projection names nothing that is gone.
HelperKept ==
    helper.image # None /\ active # None =>
        \E s \in Protected : Whole(s) /\ helper.image = slot[s].image
ProjectionKept == projected # None => Whole(projected)

\* An activation is begun by one process alone, and ends where its journal says.
OneUpdate == Cardinality({d \in Driver : run[d].kind = "update"}) <= 1
Agrees ==
    /\ lock = "held" <=> \E d \in Driver : run[d].kind = "update"
    /\ journal # None /\ journal.phase \in {"completed", "rolled back"} => active = Selected

SlotsKept == EndsKept /\ HelperKept /\ ProjectionKept /\ OneUpdate /\ Agrees

AllIdle ==
    /\ \A d \in Driver : run[d].at = "off"
    /\ \A q \in Request : coordinator[q] = None
    /\ helper.image # None => helper.up /\ helper.req = 0

\* Nothing is at work any more and the helper is up, or a rollback finds another image in
\* the helper's container than its release's, and an operator is asked for.
Settled ==
    AllIdle \/ (Open /\ journal.phase = "blocked" /\ ~RunsHelper(journal.previous))
=============================================================================

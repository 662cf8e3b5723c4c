--------------------------- MODULE RootActivation ---------------------------
(***************************************************************************)
(* The activation of another archive root.  The API's worker pauses the    *)
(* cameras that record, asks the host's helper to bind the new location    *)
(* and to recreate the containers, which kills the worker itself, takes up *)
(* after the restart what the pending file says, and brings the cameras    *)
(* back; or it has the previous location bound again.                      *)
(*                                                                         *)
(* Who owns what is spread over the pending file, the row of the storage   *)
(* operation, the helper's control files, .env with its backup, and the    *)
(* camera rows that users and the recorder change meanwhile.  Each file    *)
(* and each commit is a step of its own.                                   *)
(***************************************************************************)
EXTENDS Naturals, FiniteSets

CONSTANTS
    Root, First,      \* the archive roots, and the one that is active at the start
    Camera, None,
    Losses,           \* may a heartbeat of the worker fail, or the request's audit commit?
    Repeats,          \* may the helper die between its answer and the end of the request?
    ErrsAt,           \* the steps at which the worker may meet an unexpected exception
    MaxOps,           \* bound on activations
    MaxToggles,       \* bound on what users do to cameras and on recoveries they ask for
    MaxMishaps        \* bound on failures, timeouts and deaths

Op == 1..MaxOps

VARIABLES
    active,    \* the root of the active row
    config,    \* .env, its backup, and what /storage/archive is bound to
    files,     \* what the API and the helper write each other
    helper,    \* the host's helper
    pending,   \* archive-root-activation-pending.json
    last,      \* archive-root-activation-last.json
    rows,      \* the storage operation of each activation
    asked,     \* the request that has claimed its operation and not yet stored its state
    api,       \* is the API up, and its worker
    cams,      \* each camera: its row, what its users want, its writer
    count      \* runtime requests, toggles and mishaps so far

vars == <<active, config, files, helper, pending, last, rows, asked, api, cams, count>>

\* stale: .env is the copy that an earlier activation than the one that failed had left.
Config == [env : [root : Root, stale : BOOLEAN], bound : Root,
           bak : [root : Root, stale : BOOLEAN, from : Op] \cup {None}]

\* selection and request: the control files.  answer: storage-apply-status.json.
Selection == [path : Root, op : Op, req : Nat]
Files == [selection : Selection \cup {None},
          request : [path : Root, op : Op, req : Nat,
                     status : {"requested", "processing", "completed", "failed"}] \cup {None},
          answer : [path : Root, op : Op, req : Nat, sound : BOOLEAN,
                    status : {"requested", "applied", "active", "failed"}]
                   \cup {None}]

\* work: the request it read.
Helper == [at : {"idle", "check", "apply", "recreate", "verify", "done"},
           work : Selection \cup {None}]

Step == {"snapshot", "pausing", "stopping", "stopped", "asking", "applying", "restoring",
         "checking", "rollback", "recovery"}
Pending == [op : Op, prev : Root, target : Root, step : Step, snap : SUBSET Camera,
            paused : SUBSET Camera, req : Nat, back : Nat]
Last == [op : Op, status : {"completed", "failed"}, effective : Root]
Row == [status : {"none", "running", "completed", "failed", "partial", "blocked"},
        paused : SUBSET Camera, fenced : BOOLEAN]

\* at: what it has done beyond the pending file.  outer: holds the row's claim.
\* ids: the cameras it has found paused by the operation.
Worker == [op : Op, outer : BOOLEAN, ids : SUBSET Camera,
           at : {"run", "paused", "queued", "activated", "restored", "preserved",
                 "rolled", "ended", "given up"}]

-----------------------------------------------------------------------------
Mishap == count.mishaps < MaxMishaps /\ count' = [count EXCEPT !.mishaps = @ + 1]
Toggle == count.toggles < MaxToggles /\ count' = [count EXCEPT !.toggles = @ + 1]
Calm == UNCHANGED count

Begins(op, outer) == [up |-> TRUE, worker |-> [op |-> op, outer |-> outer, ids |-> {}, at |-> "run"]]

Init ==
    /\ active = First
    /\ config = [env |-> [root |-> First, stale |-> FALSE], bak |-> None, bound |-> First]
    /\ files = [selection |-> None, request |-> None, answer |-> None]
    /\ helper = [at |-> "idle", work |-> None]
    /\ pending = None /\ last = None /\ asked = None
    /\ rows = [o \in Op |-> [status |-> "none", paused |-> {}, fenced |-> FALSE]]
    /\ api = [up |-> TRUE, worker |-> None]
    /\ cams = [c \in Camera |-> [enabled |-> TRUE, wanted |-> TRUE, writer |-> "writing"]]
    /\ count = [reqs |-> 0, toggles |-> 0, mishaps |-> 0]

-----------------------------------------------------------------------------
(* The request.                                                            *)
-----------------------------------------------------------------------------
\* The endpoint claims the global operation.  A row that still runs refuses it, unless
\* its lease has expired, which takes the API that held it.
Claim(root) ==
    /\ api.up /\ asked = None /\ pending = None /\ root # active
    /\ api.worker = None
    /\ \E op \in Op :
        /\ rows[op].status = "none" /\ \A o \in 1..(op - 1) : rows[o].status # "none"
        /\ asked' = [op |-> op, target |-> root]
        /\ rows' = [rows EXCEPT ![op].status = "running"]
    /\ UNCHANGED <<active, config, files, helper, pending, last, api, cams, count>>

\* The cameras that record now are noted, the state stored and the worker started.
\* Its audit commit may fail after the state was stored.
Persist ==
    /\ api.up /\ asked # None
    /\ asked' = None
    /\ pending' = [op |-> asked.op, prev |-> active, target |-> asked.target,
                   step |-> "snapshot", paused |-> {}, req |-> 0, back |-> 0,
                   snap |-> {c \in Camera : cams[c].enabled /\ cams[c].writer = "writing"}]
    /\ \/ api' = Begins(asked.op, TRUE) /\ Calm /\ UNCHANGED rows
       \/ Losses /\ Mishap
          /\ rows' = [rows EXCEPT ![asked.op].status = "failed"] /\ UNCHANGED api
    /\ UNCHANGED <<active, config, files, helper, last, cams>>

\* A user asks for the recovery.  The earlier rollback request is kept.
Recover ==
    /\ api.up /\ pending # None /\ pending.step = "recovery" /\ api.worker = None
    /\ Toggle
    /\ pending' = [pending EXCEPT !.step = "rollback"]
    /\ api' = Begins(pending.op, FALSE)
    /\ UNCHANGED <<active, config, files, helper, last, rows, asked, cams>>

-----------------------------------------------------------------------------
(* The worker.                                                             *)
-----------------------------------------------------------------------------
Serving(at) == api.up /\ api.worker # None /\ api.worker.at = at
At(step) == Serving("run") /\ pending # None /\ pending.step = step
Turn(at) == api' = [api EXCEPT !.worker.at = at]
Op0 == api.worker.op

MarkRecovery ==
    /\ pending' = [pending EXCEPT !.step = "recovery"]
    /\ Turn("given up")

\* The cameras the row names come back, with the fence, in one commit.  A camera is one
\* of the row's as long as no user has disabled it since.
RestoreOperationCameras ==
    LET back == rows[Op0].paused IN
    /\ cams' = [c \in Camera |-> IF c \in back THEN [cams[c] EXCEPT !.enabled = TRUE]
                                               ELSE cams[c]]
    /\ rows' = [rows EXCEPT ![Op0].paused = {}, ![Op0].fenced = FALSE]

\* Only when the previous location is still the effective one.
FailBeforeTargetApply ==
    IF config.bound = pending.prev
    THEN RestoreOperationCameras /\ Turn("preserved") /\ UNCHANGED pending
    ELSE MarkRecovery /\ UNCHANGED <<cams, rows>>

\* Before anything is stopped, and again right before the helper is asked.
TargetPreflight ==
    /\ \E s \in {"snapshot", "stopped"} : At(s)
    /\ \/ /\ config.bound = pending.prev
          /\ pending' = [pending EXCEPT
                !.step = IF @ = "snapshot" THEN "pausing" ELSE "asking"]
          /\ Calm /\ UNCHANGED <<api, rows, cams>>
       \/ /\ IF config.bound = pending.prev THEN Mishap ELSE Calm
          /\ FailBeforeTargetApply
    /\ UNCHANGED <<active, config, files, helper, last, asked>>

\* Slip: which cameras were paused is told by the pending file only.
PausesUnowned ==
    LET now == {c \in pending.snap : cams[c].enabled} IN
    /\ At("pausing")
    /\ api' = [api EXCEPT !.worker.at = "paused", !.worker.ids = rows[Op0].paused \cup now]
    /\ cams' = [c \in Camera |-> IF c \in now THEN [cams[c] EXCEPT !.enabled = FALSE]
                                              ELSE cams[c]]
    /\ rows' = [rows EXCEPT ![Op0].paused = now, ![Op0].fenced = TRUE]
    /\ UNCHANGED <<active, config, files, helper, pending, last, asked, count>>

\* The cameras and the row that owns their pause change in one commit.
PauseOperationCameras ==
    LET now == {c \in pending.snap : cams[c].enabled} IN
    /\ At("pausing")
    /\ api' = [api EXCEPT !.worker.at = "paused", !.worker.ids = rows[Op0].paused \cup now]
    /\ cams' = [c \in Camera |-> IF c \in now THEN [cams[c] EXCEPT !.enabled = FALSE]
                                              ELSE cams[c]]
    /\ rows' = [rows EXCEPT ![Op0].paused = @ \cup now, ![Op0].fenced = TRUE]
    /\ UNCHANGED <<active, config, files, helper, pending, last, asked, count>>

Paused ==
    /\ Serving("paused") /\ Turn("run")
    /\ pending' = [pending EXCEPT !.step = "stopping", !.paused = api.worker.ids]
    /\ UNCHANGED <<active, config, files, helper, last, rows, asked, cams, count>>

WaitForRecordingsToStop ==
    /\ At("stopping")
    /\ \/ /\ \A c \in pending.paused : cams[c].writer # "writing"
          /\ pending' = [pending EXCEPT !.step = "stopped"]
          /\ Calm /\ UNCHANGED <<api, rows, cams>>
       \/ /\ \E c \in pending.paused : cams[c].writer = "writing"
          /\ IF \A c \in pending.paused : ~cams[c].enabled THEN Mishap ELSE Calm
          /\ FailBeforeTargetApply
    /\ UNCHANGED <<active, config, files, helper, last, asked>>

\* Selection, status and request are written together; whatever was there is gone.
QueueRuntimeActivation(path) ==
    LET new == [path |-> path, op |-> Op0, req |-> count.reqs + 1] IN
    /\ files' = [selection |-> new,
                 request |-> [path |-> path, op |-> Op0, req |-> new.req,
                              status |-> "requested"],
                 answer |-> [path |-> path, op |-> Op0, req |-> new.req, sound |-> TRUE,
                             status |-> "requested"]]
    /\ count' = [count EXCEPT !.reqs = @ + 1]
    /\ Turn("queued")

Ask ==
    /\ At("asking") /\ QueueRuntimeActivation(pending.target)
    /\ UNCHANGED <<active, config, helper, pending, last, rows, asked, cams>>

\* A rollback whose request is on record is not asked for again, except by the worker
\* of a start that finds it failed.
AskBack ==
    /\ \/ At("rollback") /\ pending.back = 0
       \/ At("recovery")
    /\ QueueRuntimeActivation(pending.prev)
    /\ pending' = [pending EXCEPT !.step = "rollback", !.back = 0]
    /\ UNCHANGED <<active, config, helper, last, rows, asked, cams>>

Asked ==
    /\ Serving("queued") /\ Turn("run")
    /\ pending' = IF pending.step = "asking"
                  THEN [pending EXCEPT !.step = "applying", !.req = count.reqs]
                  ELSE [pending EXCEPT !.back = count.reqs]
    /\ UNCHANGED <<active, config, files, helper, last, rows, asked, cams, count>>

\* The answer to a request of this operation; what has not come is waited for.
Answers(req, status) ==
    /\ files.answer # None /\ files.answer.op = Op0 /\ files.answer.req = req
    /\ files.answer.status = status

\* Slip: waits as long as the status is that of its own request.
WaitsOn(req) ==
    /\ ~Answers(req, "active") /\ ~Answers(req, "failed")
    /\ IF files.answer.req = req THEN Mishap ELSE Calm

\* A helper that works on a request, or has one to read, may be late; it may also have
\* nothing to do, having written the end of an earlier request over this one.
Expected(req) ==
    /\ files.answer.req = req
    /\ \/ files.request.req = req /\ files.request.status \in {"requested", "processing"}
       \/ helper.at # "idle"

\* The wait has a deadline.
TimesOut(req) ==
    /\ ~Answers(req, "active") /\ ~Answers(req, "failed")
    /\ IF Expected(req) THEN Mishap ELSE Calm

Verified(root) == files.answer.path = root /\ config.bound = root

SetActiveRoot(root, at) == active' = root /\ Turn(at)

\* An unsound failure is left to a recovery; a timeout, a failure with the target bound
\* and one of the verification have the previous location bound again.
WaitForHelper ==
    /\ At("applying")
    /\ \/ /\ Answers(pending.req, "active")
          /\ \/ /\ Verified(pending.target) /\ SetActiveRoot(pending.target, "activated")
                /\ Calm /\ UNCHANGED pending
             \/ /\ IF Verified(pending.target) THEN Mishap ELSE Calm
                /\ pending' = [pending EXCEPT !.step = "rollback"]
                /\ UNCHANGED <<active, api>>
          /\ UNCHANGED <<rows, cams>>
       \/ /\ Answers(pending.req, "failed") /\ Calm
          /\ IF ~files.answer.sound THEN MarkRecovery /\ UNCHANGED <<rows, cams>>
             ELSE IF config.bound = pending.target
             THEN /\ pending' = [pending EXCEPT !.step = "rollback"]
                  /\ UNCHANGED <<api, rows, cams>>
             ELSE FailBeforeTargetApply
          /\ UNCHANGED active
       \/ /\ TimesOut(pending.req)
          /\ pending' = [pending EXCEPT !.step = "rollback"]
          /\ UNCHANGED <<active, api, rows, cams>>
    /\ UNCHANGED <<config, files, helper, last, asked>>

WaitForRollback ==
    /\ At("rollback") /\ pending.back # 0
    /\ \/ /\ Answers(pending.back, "active")
          /\ \/ /\ Verified(pending.prev) /\ SetActiveRoot(pending.prev, "rolled")
                /\ Calm /\ UNCHANGED pending
             \/ /\ IF Verified(pending.prev) THEN Mishap ELSE Calm
                /\ MarkRecovery /\ UNCHANGED active
       \/ /\ Answers(pending.back, "failed") /\ Calm /\ MarkRecovery /\ UNCHANGED active
       \/ /\ TimesOut(pending.back) /\ MarkRecovery /\ UNCHANGED active
    /\ UNCHANGED <<config, files, helper, last, rows, asked, cams>>

Activated ==
    /\ Serving("activated") /\ Turn("run")
    /\ pending' = [pending EXCEPT !.step = "restoring"]
    /\ UNCHANGED <<active, config, files, helper, last, rows, asked, cams, count>>

Restore ==
    /\ At("restoring") /\ RestoreOperationCameras /\ Turn("restored")
    /\ UNCHANGED <<active, config, files, helper, pending, last, asked, count>>

Restored ==
    /\ Serving("restored") /\ Turn("run")
    /\ pending' = [pending EXCEPT !.step = "checking"]
    /\ UNCHANGED <<active, config, files, helper, last, rows, asked, cams, count>>

RestoreAfterRollback ==
    /\ Serving("rolled") /\ RestoreOperationCameras /\ Turn("preserved")
    /\ UNCHANGED <<active, config, files, helper, pending, last, asked, count>>

\* The last file is written before the pending file goes.
Terminalize(status) ==
    /\ last' = [op |-> Op0, status |-> status, effective |-> active]
    /\ pending' = None /\ Turn("ended")

\* All roots are readable, or one is not and the activation is told as a failure though
\* the new location stays.
VerifyAllConfiguredRoots ==
    /\ At("checking")
    /\ \/ Terminalize("completed") /\ Calm
       \/ Terminalize("failed") /\ Mishap
    /\ UNCHANGED <<active, config, files, helper, rows, asked, cams>>

Preserved ==
    /\ Serving("preserved") /\ Terminalize("failed")
    /\ UNCHANGED <<active, config, files, helper, rows, asked, cams, count>>

\* The row ends with the operation, if the worker holds it; then the worker is gone.
FinishOuter ==
    /\ (Serving("ended") \/ Serving("given up"))
    /\ rows' = IF ~api.worker.outer THEN rows
               ELSE [rows EXCEPT ![Op0].status =
                        IF api.worker.at = "given up" THEN "partial" ELSE last.status]
    /\ api' = [api EXCEPT !.worker = None]
    /\ UNCHANGED <<active, config, files, helper, pending, last, asked, cams, count>>

\* An exception nothing expects: once the target was applied, or a rollback has begun,
\* the operation is left to a recovery.
Err ==
    /\ Serving("run") /\ pending # None /\ pending.step \in ErrsAt /\ Mishap
    /\ IF pending.step \in {"restoring", "checking", "rollback"}
       THEN MarkRecovery /\ UNCHANGED <<rows, cams>>
       ELSE FailBeforeTargetApply
    /\ UNCHANGED <<active, config, files, helper, last, asked>>

\* A heartbeat fails: the worker leaves and changes nothing any more.
Lose ==
    /\ Losses /\ api.up /\ api.worker # None /\ pending # None /\ Mishap
    /\ api' = [api EXCEPT !.worker = None]
    /\ UNCHANGED <<active, config, files, helper, pending, last, rows, asked, cams>>

-----------------------------------------------------------------------------
(* The API's process.                                                      *)
-----------------------------------------------------------------------------
Down == [up |-> FALSE, worker |-> None]

Crash ==
    /\ api.up /\ Mishap
    /\ api' = Down /\ asked' = None
    /\ UNCHANGED <<active, config, files, helper, pending, last, rows, cams>>

\* A worker takes up what is pending, once the leases of the dead one are over.
Boot ==
    /\ ~api.up
    /\ api' = IF pending = None THEN [up |-> TRUE, worker |-> None]
              ELSE Begins(pending.op, rows[pending.op].status = "running")
    /\ UNCHANGED <<active, config, files, helper, pending, last, rows, asked, cams, count>>

-----------------------------------------------------------------------------
(* The helper.                                                             *)
-----------------------------------------------------------------------------
Request(status) ==
    files.request # None /\ files.request.status = status
RequestOf(work, status) ==
    [path |-> work.path, op |-> work.op, req |-> work.req, status |-> status]
AnswerOf(work, status, sound) ==
    [path |-> work.path, op |-> work.op, req |-> work.req, sound |-> sound, status |-> status]

RestoreEnvBackup(op) ==
    config' = IF config.bak = None THEN config
              ELSE [config EXCEPT !.env = [root |-> config.bak.root,
                                           stale |-> config.bak.stale \/ config.bak.from # op]]
EnvRestored == config.bak # None

\* The status of the request it works on is written over whatever the API asks meanwhile.
HelperFails(sound) ==
    /\ files' = [files EXCEPT !.request = RequestOf(helper.work, "failed"),
                              !.answer = AnswerOf(helper.work, "failed", sound)]
    /\ helper' = [at |-> "idle", work |-> None]

HelperReads ==
    /\ helper.at = "idle" /\ Request("requested")
    /\ helper' = [at |-> "check",
                  work |-> [path |-> files.request.path, op |-> files.request.op,
                            req |-> files.request.req]]
    /\ UNCHANGED <<active, config, files, pending, last, rows, asked, api, cams, count>>

\* A request an earlier run of the helper did not finish is begun again.
HelperResumes ==
    /\ helper.at = "idle" /\ Request("processing")
    /\ RestoreEnvBackup(files.request.op)
    /\ files' = [files EXCEPT !.request.status = "requested"]
    /\ UNCHANGED <<active, helper, pending, last, rows, asked, api, cams, count>>

HelperChecks ==
    /\ helper.at = "check"
    /\ \/ /\ files' = [files EXCEPT !.request = RequestOf(helper.work, "processing")]
          /\ helper' = [helper EXCEPT !.at = "apply"] /\ Calm
       \/ Mishap /\ HelperFails(TRUE)
    /\ UNCHANGED <<active, config, pending, last, rows, asked, api, cams>>

\* It reads the selection anew.  A failure before the copy of .env restores the copy
\* that an earlier activation had left.
StorageApply ==
    LET sel == files.selection
        apt == sel.path = helper.work.path
        copy == [root |-> config.env.root, stale |-> config.env.stale, from |-> sel.op]
    IN
    /\ helper.at = "apply"
    /\ \/ /\ apt /\ Calm
          /\ config' = [config EXCEPT !.env = [root |-> sel.path, stale |-> FALSE],
                                      !.bak = copy]
          /\ files' = [files EXCEPT !.answer = AnswerOf(sel, "applied", TRUE)]
          /\ helper' = [helper EXCEPT !.at = "recreate"]
       \/ /\ apt /\ Mishap
          /\ config' = [config EXCEPT !.bak = copy]
          /\ HelperFails(TRUE)
       \/ /\ IF apt THEN Mishap ELSE Calm
          /\ RestoreEnvBackup(helper.work.op) /\ HelperFails(EnvRestored)
    /\ UNCHANGED <<active, pending, last, rows, asked, api, cams>>

\* The containers are recreated, the API's and the recorder's; or not.  It takes the
\* helper seconds to get here: what asked for it has stored its request by then.
Recreate ==
    /\ helper.at = "recreate" /\ ~Serving("queued")
    /\ \/ /\ Calm
          /\ config' = [config EXCEPT !.bound = config.env.root]
          /\ api' = Down /\ asked' = None
          /\ cams' = [c \in Camera |-> [cams[c] EXCEPT !.writer = "none"]]
          /\ helper' = [helper EXCEPT !.at = "verify"]
          /\ UNCHANGED files
       \/ /\ Mishap /\ RestoreEnvBackup(helper.work.op) /\ HelperFails(EnvRestored)
          /\ UNCHANGED <<asked, api, cams>>
    /\ UNCHANGED <<active, pending, last, rows>>

\* Both containers show the marker of the selection, whatever was asked before.
VerifyStorageSelection ==
    /\ helper.at = "verify"
    /\ \/ /\ config.bound = files.selection.path /\ Calm
          /\ files' = [files EXCEPT !.answer = AnswerOf(files.selection, "active", TRUE)]
          /\ helper' = [helper EXCEPT !.at = "done"]
          /\ UNCHANGED config
       \/ /\ IF config.bound = files.selection.path THEN Mishap ELSE Calm
          /\ RestoreEnvBackup(helper.work.op) /\ HelperFails(EnvRestored)
    /\ UNCHANGED <<active, pending, last, rows, asked, api, cams>>

HelperDone ==
    /\ helper.at = "done"
    /\ files' = [files EXCEPT !.request = RequestOf(helper.work, "completed")]
    /\ helper' = [at |-> "idle", work |-> None]
    /\ UNCHANGED <<active, config, pending, last, rows, asked, api, cams, count>>

HelperDies ==
    /\ helper.at # "idle" /\ (helper.at = "done" => Repeats) /\ Mishap
    /\ helper' = [at |-> "idle", work |-> None]
    /\ UNCHANGED <<active, config, files, pending, last, rows, asked, api, cams>>

-----------------------------------------------------------------------------
(* The cameras.                                                            *)
-----------------------------------------------------------------------------
\* A disable by a user takes the camera from every operation that may restore it.
Disable(c) ==
    /\ api.up /\ cams[c].wanted /\ Toggle
    /\ cams' = [cams EXCEPT ![c].enabled = FALSE, ![c].wanted = FALSE]
    /\ rows' = [o \in Op |-> IF rows[o].status \in {"running", "partial"}
                             THEN [rows[o] EXCEPT !.paused = @ \ {c}] ELSE rows[o]]
    /\ UNCHANGED <<active, config, files, helper, pending, last, asked, api>>

Enable(c) ==
    /\ api.up /\ ~cams[c].wanted /\ Toggle
    /\ cams' = [cams EXCEPT ![c].enabled = TRUE, ![c].wanted = TRUE]
    /\ UNCHANGED <<active, config, files, helper, pending, last, rows, asked, api>>

RecordingStartAllowed == \A o \in Op : rows[o].status # "running" /\ ~rows[o].fenced

\* The recorder looks at the admission first and starts the writer after.
Admit(c) ==
    /\ cams[c].enabled /\ cams[c].writer = "none" /\ RecordingStartAllowed
    /\ cams' = [cams EXCEPT ![c].writer = "admitted"]
    /\ UNCHANGED <<active, config, files, helper, pending, last, rows, asked, api, count>>

Start(c) ==
    /\ cams[c].writer = "admitted"
    /\ cams' = [cams EXCEPT ![c].writer = "writing"]
    /\ UNCHANGED <<active, config, files, helper, pending, last, rows, asked, api, count>>

Stop(c) ==
    /\ ~cams[c].enabled /\ cams[c].writer = "writing"
    /\ cams' = [cams EXCEPT ![c].writer = "none"]
    /\ UNCHANGED <<active, config, files, helper, pending, last, rows, asked, api, count>>

-----------------------------------------------------------------------------
WorkerStep ==
    \/ TargetPreflight \/ PauseOperationCameras \/ Paused \/ WaitForRecordingsToStop
    \/ Ask \/ AskBack \/ Asked \/ WaitForHelper \/ WaitForRollback \/ Activated
    \/ Restore \/ Restored \/ RestoreAfterRollback \/ VerifyAllConfiguredRoots \/ Preserved
    \/ FinishOuter
HelperStep ==
    \/ HelperReads \/ HelperResumes \/ HelperChecks \/ StorageApply \/ Recreate
    \/ VerifyStorageSelection \/ HelperDone
RecorderStep(c) == Admit(c) \/ Start(c) \/ Stop(c)

Next ==
    \/ \E r \in Root : Claim(r)
    \/ Persist \/ Recover \/ WorkerStep \/ Err \/ Lose \/ Crash \/ Boot
    \/ HelperStep \/ HelperDies
    \/ \E c \in Camera : Disable(c) \/ Enable(c) \/ RecorderStep(c)

-----------------------------------------------------------------------------
TypeOK ==
    /\ active \in Root /\ config \in Config /\ files \in Files /\ helper \in Helper
    /\ pending \in Pending \cup {None} /\ last \in Last \cup {None}
    /\ rows \in [Op -> Row]
    /\ asked \in [op : Op, target : Root] \cup {None}
    /\ api \in [up : BOOLEAN, worker : Worker \cup {None}]
    /\ cams \in [Camera -> [enabled : BOOLEAN, wanted : BOOLEAN,
                            writer : {"none", "admitted", "writing"}]]

\* With nothing pending a camera is on exactly when its users want it on, whatever was
\* paused, crashed, taken up or rolled back; and only an operation that can still
\* restore it keeps a wanted camera off.
IntentKept ==
    \A c \in Camera :
        /\ cams[c].enabled => cams[c].wanted
        /\ ~cams[c].enabled /\ cams[c].wanted =>
              pending # None /\ c \in rows[pending.op].paused

\* While the helper changes what /storage/archive is and the row fences the recorder, no
\* camera that was paused has a writer.
Quiet ==
    (pending # None /\ helper.at \in {"apply", "recreate", "verify"}
     /\ rows[pending.op].fenced) =>
        \A c \in pending.paused : cams[c].writer = "none"

\* What an ended activation tells is what is bound, and what the next start of the
\* containers binds, unless .env is a copy that an earlier activation had left.
EndsTrue ==
    pending = None /\ last # None =>
        /\ last.effective = active /\ config.bound = active
        /\ config.env.root # active => config.env.stale

\* No row is left running but by a death between two steps that have no file between
\* them; and the fence of a row without a pending file is down.
RowsEnd ==
    /\ \A o \in Op : rows[o].fenced => pending # None /\ pending.op = o
    /\ pending # None /\ pending.step = "recovery" /\ api.up /\ api.worker = None =>
          rows[pending.op].status # "running"

Truthful == IntentKept /\ Quiet /\ EndsTrue /\ RowsEnd

\* The row of an operation that nobody will end: its API died after the claim, or after
\* the pending file went.
Orphaned == \E o \in Op : rows[o].status = "running" /\ ~(pending # None /\ pending.op = o)

\* Nothing is under way, or what is pending waits for a user to ask for its recovery; and
\* then the cameras their users want record, unless the recovery is needed first or a row
\* was orphaned.
Settled ==
    LET left == pending # None /\ pending.step = "recovery" /\ api.worker = None IN
    /\ pending = None \/ left
    /\ \A c \in Camera :
          cams[c].wanted => cams[c].writer = "writing" \/ Orphaned \/ left
=============================================================================

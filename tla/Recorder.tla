------------------------------ MODULE Recorder ------------------------------
(***************************************************************************)
(* The recorder (apps/recorder): one loop that starts, watches and stops   *)
(* the ffmpeg writer of a camera, and keeps the rows of its recording jobs *)
(* and segments.  One camera is modelled: the others share the loop, and   *)
(* only end or delay its passes.  A write to the database may fail at any  *)
(* place; the pass then ends and the next one finds what was left.         *)
(***************************************************************************)
EXTENDS Naturals, FiniteSets, Sequences

CONSTANTS
    MaxJobs,        \* ids of job rows
    MaxFiles,       \* segment files
    Batch,          \* SEGMENT_METADATA_BATCH_SIZE
    MaxChanges,     \* changes of the settings, the low disk flag and the fence
    MaxMishaps      \* how many kinds of mishaps one behaviour has, each of them once

VARIABLES
    setting,        \* the camera and the system settings, the fence of an activation
    pass,           \* where the loop is, and the settings it read
    job,            \* RecordingJob: the memory of the recorder
    writer,         \* what ails the ffmpeg process, and the local clock
    rows,           \* recording_jobs
    files,          \* the segment files, each with its recording_segments row
    era,            \* the first job id of this recorder instance, and its startup
    spent

vars == <<setting, pass, job, writer, rows, files, era, spent>>
data == <<rows, files, era>>

Reason == {"none", "disabled", "idle", "low", "gone", "stale", "config", "format", "unfinished",
           "shutdown"}
JobState == {"idle", "starting", "recording", "stopping", "restarting", "stopped", "disabled"}
JobId == 1 .. MaxJobs

Setting == [want : {"always", "idle", "disabled", "gone"}, cfg : Nat, format : Nat,
            now : BOOLEAN, asked : Nat, low : BOOLEAN, fence : BOOLEAN]

Signature(s) == <<s.cfg, s.format>>

NoJob == [state |-> "idle", proc |-> "none", id |-> 0, pending |-> 0, stopped |-> FALSE,
          retry |-> "none", sig |-> <<0, 0>>, base |-> 0, age |-> "none", samples |-> 0]

AsInstalled == [want |-> "always", cfg |-> 0, format |-> 0, now |-> FALSE, asked |-> 0,
                low |-> FALSE, fence |-> FALSE]

Init ==
    /\ setting = AsInstalled
    /\ pass = [at |-> "check", why |-> "none", run |-> TRUE, snap |-> AsInstalled]
    /\ job = NoJob
    /\ writer = [flaw |-> "none", back |-> FALSE]
    /\ rows = [j \in JobId |-> "none"]
    /\ files = <<>>
    /\ era = [first |-> 1, settled |-> TRUE]
    /\ spent = [changes |-> 0, mishaps |-> {}]

At(p) == pass.at = p
Goes(p) == pass' = [pass EXCEPT !.at = p]
Happens(kind) ==
    /\ kind \notin spent.mishaps /\ Cardinality(spent.mishaps) < MaxMishaps
    /\ spent' = [spent EXCEPT !.mishaps = @ \cup {kind}]

\* The database, the disk or the start of ffmpeg fails.
Fail == Happens("failure")

\* The pass is over; what a signal asked for comes before the next one.
Over(p) == pass' = [pass EXCEPT !.at = p, !.why = "none", !.snap = AsInstalled]
Ends == Over("check")

\* An exception ends the pass; nothing catches it after the loop.
Raises == Fail /\ Over(IF pass.why = "shutdown" THEN "off" ELSE "check")

-----------------------------------------------------------------------------
(* The rows of the segments.                                               *)

Mine(i) == files[i].job = job.id
Live(i) == job.proc = "alive" /\ i = Len(files) /\ i > job.base

\* discover_job_segments: files in the directory of the job that are not processed yet;
\* those of the baseline never are.
Found == {i \in DOMAIN files : Mine(i) /\ (i <= job.base \/ files[i].row \in {"none", "writing"})}

Before(i, j) == files[i].stamp < files[j].stamp
Newest == {i \in Found : \A j \in Found : ~Before(i, j)}

\* The oldest files and the last one: no more than a batch.
InBatch == Newest \cup {i \in Found : Cardinality({j \in Found : Before(j, i)}) < Batch - 1}
FirstOf(S) == {T \in SUBSET S : \A i \in T, j \in S : Before(j, i) => j \in T}

\* create_segment_metadata_if_needed
Created(f, S) ==
    [i \in DOMAIN f |->
        IF i \in S /\ i > job.base /\ f[i].row = "none"
        THEN [f[i] EXCEPT !.row = "writing", !.size = IF @ = "grown" THEN "read" ELSE @]
        ELSE f[i]]

\* update_writing_segment_progress
Progressed(f, S) ==
    [i \in DOMAIN f |->
        IF i \in S /\ i > job.base /\ f[i].row = "writing" /\ f[i].size = "grown"
        THEN [f[i] EXCEPT !.size = "read"] ELSE f[i]]

\* finalize_segment_path: an empty file is a failed segment.
Finalized(f, S) ==
    [i \in DOMAIN f |->
        IF i \in S /\ i > job.base /\ f[i].row = "writing"
        THEN [f[i] EXCEPT !.row = IF f[i].size = "empty" THEN "failed" ELSE "finalized"]
        ELSE f[i]]

\* Slip: the last file is taken to be complete as well.
SyncedAll == Finalized(Progressed(Created(files, InBatch), Newest), InBatch)

\* sync_segment_metadata_for_job
Synced == Finalized(Progressed(Created(files, InBatch), Newest), InBatch \ Newest)

\* The same, ended by a failure on the way, which is swallowed.
SyncedPartly ==
    {Created(files, S) : S \in FirstOf(InBatch)}
        \cup {Finalized(Progressed(Created(files, InBatch), Newest), S) : S \in FirstOf(InBatch \ Newest)}

Syncs(f) ==
    \/ f = (IF job.id = 0 THEN files ELSE Synced) /\ UNCHANGED spent
    \/ job.id # 0 /\ f \in SyncedPartly /\ Fail

\* finalize_segments_for_job: each file gets its row and its end.
FinalizedEach(S) == Finalized(Created(files, S), S)

Progress(f) == \E i \in DOMAIN f : f[i].size = "read" /\ files[i].size = "grown"
Age(f) == IF Progress(f) THEN "fresh" ELSE job.age

\* mark_segments_failed_for_job, after the rows were brought up to date.
AllFailed(f) ==
    [i \in DOMAIN f |-> IF f[i].job = job.id /\ f[i].row = "writing"
                        THEN [f[i] EXCEPT !.row = "failed"] ELSE f[i]]

-----------------------------------------------------------------------------
(* The rows of the jobs, and retries.                                      *)

\* The row that update_recording_job finds.
RowId == IF job.id # 0 THEN job.id ELSE job.pending

\* close_recording_job: the row is written first, then the id is forgotten.
ClosedRow(reason) == [j \in JobId |-> IF j = RowId /\ rows[j] # "none" THEN reason ELSE rows[j]]
Forgotten(r) == [r EXCEPT !.id = 0, !.pending = 0, !.base = 0]

\* schedule_retry: the memory first; what follows in the database may fail.
Retried(r) == [r EXCEPT !.state = "restarting", !.retry = "later"]
Retries(r) ==
    \/ job' = Retried(r) /\ Ends /\ UNCHANGED spent
    \/ job' = Retried(r) /\ Raises

\* check_children: a writer that ended by itself.
CheckNothing ==
    /\ At("check") /\ pass.run /\ job.proc # "exited"
    /\ Goes("confirm")
    /\ UNCHANGED <<setting, job, writer, spent>> /\ UNCHANGED data

CheckCrash ==
    /\ At("check") /\ pass.run /\ job.proc = "exited"
    /\ LET Gone == [job EXCEPT !.proc = "none", !.stopped = TRUE]
       IN  \/ /\ files' = IF job.id = 0 THEN files ELSE AllFailed(Synced)
              /\ job' = Retried(Gone)
              /\ \/ Goes("confirm") /\ UNCHANGED spent
                 \/ Raises
           \/ /\ Raises
              /\ files' \in {files} \cup SyncedPartly
              /\ UNCHANGED job
    /\ UNCHANGED <<setting, writer, rows, era>>

\* confirm_recording_startups
Confirm ==
    /\ At("confirm")
    /\ IF job.state \in {"starting", "recording"} /\ job.proc = "alive" /\ job.age = "fresh"
       THEN /\ job' = [job EXCEPT !.state = "recording"]
            /\ \/ Goes("sync") /\ UNCHANGED spent
               \/ Raises
       ELSE Goes("sync") /\ UNCHANGED <<job, spent>>
    /\ UNCHANGED <<setting, writer>> /\ UNCHANGED data

\* sync_cameras begins: the settings are read once; without the format it does nothing,
\* without the flag of a full disk it goes on.
ReadSettings ==
    /\ At("sync")
    /\ \/ pass' = [pass EXCEPT !.at = "decide", !.snap = setting] /\ UNCHANGED spent
       \/ pass' = [pass EXCEPT !.at = "decide", !.snap = [setting EXCEPT !.low = FALSE]] /\ Fail
       \/ Ends /\ Fail
    /\ UNCHANGED <<setting, job, writer>> /\ UNCHANGED data

-----------------------------------------------------------------------------
(* What a pass does with the camera.                                       *)

\* The reason not to record it, in the order of the tests.
Unwanted ==
    CASE pass.snap.want = "disabled" -> "disabled"
      [] pass.snap.want = "gone"     -> "gone"
      [] pass.snap.want = "always" /\ pass.snap.low -> "low"
      [] pass.snap.want = "idle"     -> "idle"
      [] OTHER -> "none"

StopFor(reason) == pass' = [pass EXCEPT !.at = "terminate", !.why = reason]

StopWriter ==
    /\ At("decide") /\ Unwanted # "none"
    /\ job.proc = "alive" \/ (Unwanted = "gone" /\ job # NoJob)
    /\ StopFor(Unwanted)
    /\ job' = IF Unwanted = "gone" THEN job ELSE [job EXCEPT !.retry = "none"]
    /\ UNCHANGED <<setting, writer, spent>> /\ UNCHANGED data

\* No live writer: the row is closed, also when one has just ended unnoticed.
TurnOff ==
    /\ At("decide") /\ Unwanted \notin {"none", "gone"} /\ job.proc # "alive"
    /\ LET Off == [job EXCEPT !.retry = "none",
                              !.state = IF Unwanted = "disabled" THEN "disabled" ELSE "idle"]
       IN  \/ /\ rows' = ClosedRow("turned_off") /\ job' = Forgotten(Off)
              /\ Ends /\ UNCHANGED spent
           \/ Raises /\ job' = Off /\ UNCHANGED rows
    /\ UNCHANGED <<setting, writer, files, era>>

\* The camera was removed and forgotten, or its retry is not due.
NothingToDo ==
    /\ At("decide")
    /\ \/ Unwanted = "gone" /\ job = NoJob
       \/ Unwanted = "none" /\ job.state = "restarting" /\ job.retry = "later"
    /\ Ends
    /\ UNCHANGED <<setting, job, writer, spent>> /\ UNCHANGED data

Proceeds == At("decide") /\ Unwanted = "none" /\ ~(job.state = "restarting" /\ job.retry = "later")

\* retention_ready: the directory of the camera cannot be read; its writer goes on.
ArchiveUnready ==
    /\ Proceeds
    /\ Fail /\ job' = Retried(job) /\ Ends
    /\ UNCHANGED <<setting, writer>> /\ UNCHANGED data

SyncWriter ==
    /\ Proceeds /\ job.proc = "alive"
    /\ \E f \in {files, Synced} \cup SyncedPartly :
           Syncs(f) /\ files' = f /\ job' = [job EXCEPT !.age = Age(f)]
    /\ Goes("stale")
    /\ UNCHANGED <<setting, writer, rows, era>>

\* Slip: the first sample without media starts the count, and none raises it.
SamplesOnce == IF job.age = "old" THEN 1 ELSE 0

\* handle_stale_current_segment: no media in two samples, or a segment that is overdue.
Samples == IF job.age = "old" THEN IF job.samples < 2 THEN job.samples + 1 ELSE 2 ELSE 0
Stale == Samples = 2 \/ writer.flaw = "unrotating"

CheckStale ==
    /\ At("stale")
    /\ IF job.proc # "alive" THEN Goes("config") /\ UNCHANGED job
       ELSE /\ job' = [job EXCEPT !.samples = Samples]
            /\ IF Stale THEN StopFor("stale") ELSE Goes("config")
    /\ UNCHANGED <<setting, writer, spent>> /\ UNCHANGED data

\* format_change_ready: at once, or with a segment that began after the request.
FormatReady ==
    pass.snap.now \/ \E i \in Newest : i > pass.snap.asked /\ i > job.base

CheckConfig ==
    /\ At("config")
    /\ LET want == Signature(pass.snap)
           formatOnly == job.sig[1] = want[1]
       IN  IF job.sig # want /\ job.proc = "alive"
           THEN IF formatOnly /\ ~FormatReady THEN Ends
                ELSE StopFor(IF job.sig[2] # want[2] THEN "format" ELSE "config")
           ELSE IF job.state = "restarting" /\ job.retry = "due" THEN Goes("start")
           ELSE Ends
    /\ UNCHANGED <<setting, job, writer, spent>> /\ UNCHANGED data

\* A writer that ended since the check is left to the next pass, unless a retry is due.
NoWriter ==
    /\ Proceeds /\ job.proc # "alive"
    /\ IF job.proc = "exited" /\ ~(job.state = "restarting" /\ job.retry = "due") THEN Ends
       ELSE Goes("start")
    /\ UNCHANGED <<setting, job, writer, spent>> /\ UNCHANGED data

-----------------------------------------------------------------------------
(* stop_camera.                                                            *)

Graceful == pass.why = "format"

\* A format change never kills the writer: after the timeout it is left alone.
Terminate ==
    /\ At("terminate")
    /\ \/ /\ job' = [job EXCEPT !.state = "stopping", !.proc = IF @ = "alive" THEN "exited" ELSE @]
          /\ writer' = [writer EXCEPT !.flaw = "none"]
          /\ Goes("finalize") /\ UNCHANGED spent
       \/ Raises /\ job' = [job EXCEPT !.state = "stopping"] /\ UNCHANGED writer
       \/ /\ Graceful /\ job.proc = "alive"
          /\ Fail /\ Ends /\ UNCHANGED <<job, writer>>
    /\ UNCHANGED setting /\ UNCHANGED data

\* A format change goes on whatever comes of the rows, and says so in its reason.
Unfinished == \E i \in DOMAIN files' : Mine(i) /\ files'[i].row \in {"writing", "failed", "stale"}

FinalizeAll ==
    /\ At("finalize")
    /\ \/ /\ files' = IF job.id = 0 THEN files ELSE FinalizedEach(Found)
          /\ pass' = [pass EXCEPT !.at = "close",
                                  !.why = IF Graceful /\ Unfinished THEN "unfinished" ELSE @]
          /\ UNCHANGED spent
       \/ /\ job.id # 0
          /\ files' \in {FinalizedEach(S) : S \in FirstOf(Found)}
          /\ IF Graceful THEN Fail /\ pass' = [pass EXCEPT !.at = "close", !.why = "unfinished"]
             ELSE Raises
    /\ UNCHANGED <<setting, job, writer, rows, era>>

Stopped ==
    [job EXCEPT !.proc = "none", !.stopped = TRUE, !.retry = "none", !.age = "none", !.samples = 0,
                !.state = IF pass.why \in {"disabled", "idle"} THEN pass.why ELSE "stopped"]

\* Before a retry the row stays open; a removed camera is forgotten; a changed one is
\* started again in the same pass.
CloseStopped ==
    /\ At("close")
    /\ CASE pass.why = "stale" ->
              \/ job' = Retried(Stopped) /\ Ends /\ UNCHANGED <<rows, spent>>
              \/ job' \in {Stopped, Retried(Stopped)} /\ Raises /\ UNCHANGED rows
         [] OTHER ->
              \/ /\ rows' = ClosedRow(IF pass.why = "unfinished" THEN pass.why ELSE "stopped")
                 /\ UNCHANGED spent
                 /\ job' = CASE pass.why = "gone" -> NoJob
                             [] pass.why \in {"config", "format", "unfinished"} ->
                                  [Forgotten(Stopped) EXCEPT !.sig = Signature(pass.snap)]
                             [] OTHER -> Forgotten(Stopped)
                 /\ CASE pass.why = "shutdown" -> Over("off")
                      [] pass.why \in {"config", "format", "unfinished"} -> Goes("start")
                      [] OTHER -> Ends
              \/ job' = Stopped /\ Raises /\ UNCHANGED rows
    /\ UNCHANGED <<setting, writer, files, era>>

-----------------------------------------------------------------------------
(* start_camera.                                                           *)

\* A writer that is still alive: its process is kept.
KeepWriter ==
    /\ At("start") /\ job.proc = "alive"
    /\ job' = [job EXCEPT !.state = "recording"]
    /\ \/ Ends /\ UNCHANGED spent
       \/ Raises
    /\ UNCHANGED <<setting, writer>> /\ UNCHANGED data

\* recording_start_allowed: no writer starts while the archive root is replaced.
Refused ==
    /\ At("start") /\ job.proc # "alive"
    /\ IF setting.fence THEN UNCHANGED spent ELSE Fail
    /\ job' = [job EXCEPT !.state = "idle"]
    /\ Ends
    /\ UNCHANGED <<setting, writer>> /\ UNCHANGED data

\* A row whose start failed is replaced; one that was stopped for a retry is kept.
Admitted ==
    /\ At("start") /\ job.proc # "alive" /\ ~setting.fence
    /\ LET Ready(r) == [r EXCEPT !.stopped = FALSE, !.age = "none", !.samples = 0]
           replaces == job.id # 0 /\ ~job.stopped
       IN  \/ /\ rows' = IF replaces THEN ClosedRow("replaced") ELSE rows
              /\ job' = Ready(IF replaces THEN Forgotten(job) ELSE job)
              /\ Goes("create") /\ UNCHANGED spent
           \/ replaces /\ Raises /\ UNCHANGED <<rows, job>>
    /\ UNCHANGED <<setting, writer, files, era>>

Unused(j) == rows[j] = "none" /\ j # job.pending
NextId == CHOOSE j \in JobId : Unused(j) /\ \A k \in JobId : k < j => ~Unused(k)

\* Slip: each attempt makes an id of its own.
IdAnew == NextId

\* create_recording_job: an id is made once and published after the commit; when the
\* commit or its reply fails it is pending, and the retry inserts it again.
IdToInsert == IF job.pending # 0 THEN job.pending ELSE NextId

CreateRow ==
    /\ At("create")
    /\ IF job.id # 0 THEN Goes("launch") /\ UNCHANGED <<job, rows, spent>>
       ELSE /\ job.pending # 0 \/ \E j \in JobId : Unused(j)
            /\ LET id == IdToInsert
                   Inserted == [rows EXCEPT ![id] = IF @ = "none" THEN "active" ELSE @]
               IN  \/ /\ rows' = Inserted
                      /\ job' = [job EXCEPT !.id = id, !.pending = 0]
                      /\ Goes("launch") /\ UNCHANGED spent
                   \/ /\ rows' \in {rows, Inserted}
                      /\ job' = Retried([job EXCEPT !.pending = id])
                      /\ Fail /\ Ends
    /\ UNCHANGED <<setting, writer, files, era>>

\* ffmpeg_cmd, the baseline, Popen.
Launch ==
    /\ At("launch")
    /\ job' = [job EXCEPT !.proc = "alive", !.state = "starting", !.stopped = FALSE,
                          !.base = Len(files), !.sig = Signature(pass.snap)]
    /\ writer' = [writer EXCEPT !.flaw = "none"]
    /\ Ends
    /\ UNCHANGED <<setting, spent>> /\ UNCHANGED data

\* handle_start_failure: before or after the state is set, with or without its writes.
LaunchFails ==
    /\ At("launch")
    /\ Fail /\ Ends
    /\ LET Tried == [job EXCEPT !.proc = "none"]
           Set == [Tried EXCEPT !.state = "starting", !.base = Len(files), !.sig = Signature(pass.snap)]
       IN  job' \in {Tried, Set, Retried(Tried), Retried(Set)}
    /\ UNCHANGED <<setting, writer>> /\ UNCHANGED data

-----------------------------------------------------------------------------
(* The process of the recorder.                                            *)

Signal ==
    /\ pass.run /\ pass.at # "off" /\ Happens("crash")
    /\ pass' = [pass EXCEPT !.run = FALSE]
    /\ UNCHANGED <<setting, job, writer>> /\ UNCHANGED data

\* After the loop every camera is stopped.
Shutdown ==
    /\ At("check") /\ ~pass.run
    /\ IF job = NoJob THEN Over("off") ELSE StopFor("shutdown")
    /\ UNCHANGED <<setting, job, writer, spent>> /\ UNCHANGED data

\* The container goes away, and ffmpeg with it.
Killed ==
    /\ pass.at # "off" /\ Happens("crash")
    /\ Over("off")
    /\ job' = [job EXCEPT !.proc = "none"]
    /\ UNCHANGED <<setting, writer>> /\ UNCHANGED data

Made == {j \in JobId : rows[j] # "none"}

\* mark_stale_writing_segments_on_startup, reconcile_previous_recorder_instances: what
\* earlier instances left open is settled, if the database answers.
Startup ==
    /\ At("off")
    /\ pass' = [pass EXCEPT !.at = "check", !.run = TRUE]
    /\ job' = NoJob
    /\ LET Aged(f) == [i \in DOMAIN f |->
                          IF f[i].row = "writing" THEN [f[i] EXCEPT !.row = "stale"] ELSE f[i]]
           Interrupted == [j \in JobId |-> IF rows[j] = "active" THEN "interrupted" ELSE rows[j]]
       IN  \/ /\ files' = Aged(files) /\ rows' = Interrupted
              /\ era' = [first |-> Cardinality(Made) + 1, settled |-> TRUE]
              /\ UNCHANGED spent
           \/ /\ Fail
              /\ files' \in {files, Aged(files)} /\ rows' \in {rows, Interrupted}
              /\ era' = [first |-> Cardinality(Made) + 1, settled |-> FALSE]
    /\ UNCHANGED <<setting, writer>>

-----------------------------------------------------------------------------
(* The users, the clock and ffmpeg.                                        *)

Changes(s) ==
    /\ spent.changes < MaxChanges /\ setting.want # "gone"
    /\ spent' = [spent EXCEPT !.changes = @ + 1]
    /\ s # setting /\ setting' = s
    /\ UNCHANGED <<pass, job, writer>> /\ UNCHANGED data

SaveCamera ==
    \/ \E w \in {"always", "idle", "disabled", "gone"} : Changes([setting EXCEPT !.want = w])
    \/ Changes([setting EXCEPT !.cfg = 1 - @])
SaveFormat ==
    \E n \in BOOLEAN :
        Changes([setting EXCEPT !.format = 1 - @, !.now = n, !.asked = Len(files)])
DiskFills == Changes([setting EXCEPT !.low = ~@])
RootActivated == Changes([setting EXCEPT !.fence = ~@])

RetryDue ==
    /\ job.retry = "later"
    /\ job' = [job EXCEPT !.retry = "due"]
    /\ UNCHANGED <<setting, pass, writer, spent>> /\ UNCHANGED data

Growing == job.proc = "alive" /\ writer.flaw # "stalled"

\* A segment begins; its name is the local time.
NewFile ==
    /\ Growing /\ Len(files) < MaxFiles /\ job.id # 0
    /\ \/ Len(files) = job.base
       \/ Len(files) > job.base /\ files[Len(files)].size # "empty" /\ writer.flaw # "unrotating"
    /\ files' = Append(files, [job |-> job.id, row |-> "none", size |-> "empty",
                               stamp |-> 2 * Len(files) + (IF writer.back THEN 0 ELSE 3)])
    /\ UNCHANGED <<setting, pass, job, writer, rows, era, spent>>

Grow ==
    /\ Growing /\ Len(files) > job.base
    /\ files[Len(files)].size # "grown"
    /\ files' = [files EXCEPT ![Len(files)].size = "grown"]
    /\ UNCHANGED <<setting, pass, job, writer, rows, era, spent>>

\* MEDIA_STALL_SECONDS without a byte.
Silence ==
    /\ job.proc = "alive" /\ job.age # "old"
    /\ writer.flaw = "stalled"
    /\ job' = [job EXCEPT !.age = "old"]
    /\ UNCHANGED <<setting, pass, writer, spent>> /\ UNCHANGED data

Ails ==
    /\ Happens("exit")
    /\ job.proc = "alive" /\ writer.flaw = "none"
    /\ \/ job' = [job EXCEPT !.proc = "exited"] /\ UNCHANGED writer
       \/ /\ UNCHANGED job
          /\ \/ writer' = [writer EXCEPT !.flaw = "stalled"]
             \/ Len(files) > job.base /\ writer' = [writer EXCEPT !.flaw = "unrotating"]
    /\ UNCHANGED <<setting, pass>> /\ UNCHANGED data

ClockSetBack ==
    /\ ~writer.back /\ Happens("shift")
    /\ writer' = [writer EXCEPT !.back = TRUE]
    /\ UNCHANGED <<setting, pass, job>> /\ UNCHANGED data

Loop ==
    \/ CheckNothing \/ CheckCrash \/ Confirm \/ ReadSettings
    \/ StopWriter \/ TurnOff \/ NothingToDo \/ ArchiveUnready \/ SyncWriter
    \/ CheckStale \/ CheckConfig \/ NoWriter
    \/ Terminate \/ FinalizeAll \/ CloseStopped
    \/ KeepWriter \/ Refused \/ Admitted \/ CreateRow \/ Launch \/ LaunchFails
    \/ Shutdown \/ Startup

Next ==
    \/ Loop
    \/ Signal \/ Killed
    \/ SaveCamera \/ SaveFormat \/ DiskFills \/ RootActivated
    \/ RetryDue \/ NewFile \/ Grow \/ Silence \/ Ails \/ ClockSetBack

Spec == Init /\ [][Next]_vars

\* The loop runs, its container is started again, and time passes.
Fairness ==
    /\ WF_vars(Loop) /\ WF_vars(RetryDue) /\ WF_vars(Silence)
    /\ WF_vars(NewFile) /\ WF_vars(Grow)
FairSpec == Spec /\ Fairness

-----------------------------------------------------------------------------
TypeOK ==
    /\ setting \in Setting /\ pass.snap \in Setting
    /\ pass.at \in {"check", "confirm", "sync", "decide", "stale", "config", "terminate",
                    "finalize", "close", "start", "create", "launch", "off"}
    /\ pass.why \in Reason
    /\ job.state \in JobState /\ job.proc \in {"none", "alive", "exited"}
    /\ {job.id, job.pending} \subseteq 0 .. MaxJobs
    /\ job.retry \in {"none", "later", "due"} /\ job.age \in {"none", "fresh", "old"}
    /\ rows \in [JobId -> {"none", "active", "stopped", "unfinished", "turned_off",
                        "replaced", "interrupted"}]
    /\ \A i \in DOMAIN files :
           /\ files[i].job \in JobId /\ files[i].size \in {"empty", "grown", "read"}
           /\ files[i].row \in {"none", "writing", "finalized", "failed", "stale"}

\* However the database failed, an instance keeps one job row open at most, the one it
\* knows; a running writer has its row, so no recording is without an owner.
JobsAccounted ==
    /\ \A j \in JobId : rows[j] = "active" /\ j >= era.first /\ ~At("off") => j = RowId
    /\ job.proc = "alive" => job.id # 0 /\ rows[job.id] = "active"

\* A segment row is never left "writing" by a job that is over, except when the writer
\* ended by itself in the very pass that turned the camera off or replaced the row, when
\* a format change went on without its rows, or at a start without the database.
NoneForgotten ==
    \A i \in DOMAIN files :
        files[i].row = "writing" =>
            \/ files[i].job = job.id \/ At("off")
            \/ rows[files[i].job] \in {"turned_off", "replaced", "unfinished"}
            \/ files[i].job < era.first /\ ~era.settled

\* The segment that ffmpeg is writing is not taken to be complete, unless the clock its
\* name is taken from was set back.
NeverCutShort ==
    \A i \in DOMAIN files : Live(i) /\ ~writer.back => files[i].row \in {"none", "writing"}

\* What the rows of the segments say is so, and comes to an end with the job.
SegmentsTruthful == NoneForgotten /\ NeverCutShort

\* A camera that is to be recorded has a writer, with its settings (a new format may
\* wait for the next segment) and neither silent nor unable to rotate; any other has none.
Wanted == setting.want = "always" /\ ~setting.low
Outdated ==
    \/ job.sig[1] # setting.cfg
    \/ job.sig[2] # setting.format /\ (setting.now \/ (Len(files) > setting.asked /\ Len(files) > job.base))
CameraServed ==
    IF Wanted THEN \/ job.proc = "alive" /\ writer.flaw = "none" /\ (Outdated => writer.back)
                   \/ job.proc # "alive" /\ setting.fence
    ELSE job.proc # "alive"

\* The rows of its complete segments are settled, as long as the files of earlier writers
\* of the same job do not fill the batch and the clock was not set back (the names then
\* hide which segment is the newest).
Owed(i) ==
    /\ files[i].row = "writing" /\ Mine(i) /\ ~Live(i) /\ ~writer.back
    /\ Cardinality({j \in Found : j <= job.base}) < Batch - 1

\* Whatever fails, ends, stalls or restarts within the bounds, the recorder comes to
\* serve the camera as its settings say, and to settle its segments.
AllServed == CameraServed /\ \A i \in DOMAIN files : ~Owed(i)
RecorderServes == []<>AllServed
=============================================================================

----------------------------- MODULE LiveEngine -----------------------------
(***************************************************************************)
(* Live streams started for viewers and stopped after them                 *)
(* (services/live_engine): the viewer registry and the table of streams    *)
(* under the manager's lock, one instance object per stream with a lock of *)
(* its own and at most one ffmpeg process, the thread that starts it, the  *)
(* cleanup passes of the worker and of status requests, and the            *)
(* reservations that limit concurrent transcodes.                          *)
(*                                                                         *)
(* A section under the manager's lock is one step.  The lock of an         *)
(* instance is held over several steps, by its start thread or by a        *)
(* cleanup pass that also restarts what failed; a viewer may come or leave *)
(* between any two of them.                                                *)
(***************************************************************************)
EXTENDS Naturals, FiniteSets

CONSTANTS
    Key,          \* streams: a camera and a role
    Viewer,       \* viewer sessions, each opened once
    KeyOf,        \* the stream each viewer asks for
    Instance,     \* instance objects, each created once
    Cleaner,      \* cleanup passes that may run at the same time
    Nobody,       \* no instance, no holder of a lock
    Limit,        \* live_max_concurrent_transcodes; 0 is no limit
    Polling,      \* is a playlist asked for while viewers may still come?
    MaxExits,     \* bound on ffmpeg processes that end by themselves or fail on a backend
    MaxStops      \* bound on requests to stop a stream and on deleted cameras

ASSUME KeyAssumption == KeyOf \in [Viewer -> Key]
ASSUME NobodyAssumption ==
    /\ Nobody \notin Instance \cup Cleaner \cup {"thread"}
    /\ "thread" \notin Cleaner
ASSUME BoundAssumption == {Limit, MaxExits, MaxStops} \subseteq Nat /\ Polling \in BOOLEAN

VARIABLES
    viewer,    \* the session of each viewer
    streams,   \* the instance of each stream
    inst,      \* the instance objects
    reserved,  \* the instance that reserved a transcode for each stream
    pass,      \* what each cleanup pass is doing
    deleted,   \* streams of deleted cameras
    spent      \* how much of each bound is used up

vars == <<viewer, streams, inst, reserved, pass, deleted, spent>>

-----------------------------------------------------------------------------
\* "admitted": the request read the camera row; "gone": its last heartbeat is
\* older than the viewer ttl.
ViewerState == {"out", "admitted", "in", "gone", "closed"}

\* start: how far the running call of start has come; thread: likewise the start
\* thread; halt: a call of stop waits for the lock; retry: next_retry_at.
Inst == [used : BOOLEAN, key : Key, managed : BOOLEAN, cancelled : BOOLEAN,
         proc : {"none", "copy", "transcode", "ended"},
         retry : {"none", "waiting", "due"}, source : BOOLEAN, idle : BOOLEAN,
         thread : {"none", "queued", "checked", "starting", "ending"},
         start : {"none", "probing", "copy", "transcode"},
         halt : BOOLEAN, lock : Cleaner \cup {Nobody, "thread"}]

Pass == [pc : {"off", "next", "counted", "locked", "stopping", "kept",
               "launch", "idle", "dropping"},
         todo : SUBSET Instance, at : Instance \cup {Nobody}, seen : BOOLEAN]
PassOff == [pc |-> "off", todo |-> {}, at |-> Nobody, seen |-> FALSE]

Watched(k) == \E v \in Viewer : KeyOf[v] = k /\ viewer[v] \in {"in", "gone"}
Up(i) == inst[i].proc \in {"copy", "transcode"}
Alive(i) == inst[i].thread # "none"
KeyOfInst(i) == inst[i].key
Free(i) == inst[i].lock = Nobody

Init ==
    /\ viewer = [v \in Viewer |-> "out"]
    /\ streams = [k \in Key |-> Nobody]
    /\ inst \in [Instance -> {[used |-> FALSE, key |-> k, managed |-> FALSE,
                               cancelled |-> FALSE, proc |-> "none", retry |-> "none",
                               source |-> FALSE, idle |-> FALSE, thread |-> "none",
                               start |-> "none", halt |-> FALSE, lock |-> Nobody]
                              : k \in Key}]
    /\ reserved = [k \in Key |-> Nobody]
    /\ pass = [c \in Cleaner |-> PassOff]
    /\ deleted = {}
    /\ spent = [exits |-> 0, stops |-> 0]

\* _reserve_transcode and _release_transcode.
MayReserve(i) ==
    LET k == KeyOfInst(i) IN
    /\ streams[k] = i
    /\ \/ reserved[k] = i
       \/ /\ reserved[k] = Nobody
          /\ Limit = 0 \/ Cardinality({l \in Key : reserved[l] # Nobody}) < Limit
\* Slip: nothing is given back.
Unreleased(i) == reserved
Released(i) ==
    [reserved EXCEPT ![KeyOfInst(i)] = IF @ = i THEN Nobody ELSE @]

\* _get_stream_locked: i is the registered instance or becomes it.
Registers(i, k) ==
    /\ streams' = [streams EXCEPT ![k] = i]
    /\ \/ streams[k] = i
       \/ streams[k] = Nobody /\ ~inst[i].used /\ inst[i].key = k

-----------------------------------------------------------------------------
(* Viewers.                                                                *)

Admit(v) ==
    /\ viewer[v] = "out"
    /\ KeyOf[v] \notin deleted
    /\ viewer' = [viewer EXCEPT ![v] = "admitted"]
    /\ UNCHANGED <<streams, inst, reserved, pass, deleted, spent>>

\* The instance after _launch_viewer_start, when it is registered and watched.
Launched(r) ==
    IF r.proc \in {"copy", "transcode"} \/ r.thread # "none" \/ r.retry = "waiting"
    THEN r
    ELSE [r EXCEPT !.cancelled = FALSE, !.source = TRUE, !.thread = "queued"]

\* open_viewer; the launch follows under the same re-entrant lock or soon after.
OpenViewer(v, i) ==
    /\ viewer[v] = "admitted"
    /\ Registers(i, KeyOf[v])
    /\ viewer' = [viewer EXCEPT ![v] = "in"]
    /\ inst' = [inst EXCEPT ![i] =
                 Launched([@ EXCEPT !.used = TRUE, !.managed = TRUE,
                                    !.cancelled = FALSE, !.idle = FALSE])]
    /\ UNCHANGED <<reserved, pass, deleted, spent>>

\* close_viewer: the last viewer cancels the start in flight.
CloseViewer(v) ==
    LET i == streams[KeyOf[v]]
        last == \A w \in Viewer \ {v} :
                   KeyOf[w] = KeyOf[v] => viewer[w] \notin {"in", "gone"}
    IN
    /\ viewer[v] = "in"
    /\ viewer' = [viewer EXCEPT ![v] = "closed"]
    /\ inst' = IF i = Nobody THEN inst
               ELSE [inst EXCEPT ![i].idle = FALSE, ![i].cancelled = @ \/ last]
    /\ UNCHANGED <<streams, reserved, pass, deleted, spent>>

\* The browser disappears without closing: touch_viewer is not called again.
LoseViewer(v) ==
    /\ viewer[v] = "in"
    /\ viewer' = [viewer EXCEPT ![v] = "gone"]
    /\ UNCHANGED <<streams, inst, reserved, pass, deleted, spent>>

\* touch_viewer.
TouchViewer(v) ==
    LET i == streams[KeyOf[v]] IN
    /\ viewer[v] = "in"
    /\ i # Nobody
    /\ inst[i].idle
    /\ inst' = [inst EXCEPT ![i].idle = FALSE]
    /\ UNCHANGED <<viewer, streams, reserved, pass, deleted, spent>>

\* get_playlist_file and get_segment_file create what is not registered.
PollPlaylist(k, i) ==
    /\ Polling \/ \A v \in Viewer : KeyOf[v] = k => viewer[v] = "closed"
    /\ k \notin deleted
    /\ streams[k] = Nobody
    /\ Registers(i, k)
    /\ inst' = [inst EXCEPT ![i].used = TRUE]
    /\ UNCHANGED <<viewer, reserved, pass, deleted, spent>>

Unwatch(k) ==
    [v \in Viewer |-> IF KeyOf[v] = k /\ viewer[v] \in {"in", "gone"}
                      THEN "closed" ELSE viewer[v]]

\* stop_stream, also for all streams and for a deleted camera; stop itself
\* waits for the lock of the instance.
StopStream(k) ==
    LET i == streams[k] IN
    /\ i # Nobody
    /\ ~inst[i].halt
    /\ spent.stops < MaxStops
    /\ spent' = [spent EXCEPT !.stops = @ + 1]
    /\ viewer' = Unwatch(k)
    /\ inst' = [inst EXCEPT ![i].cancelled = TRUE, ![i].halt = TRUE]
    /\ UNCHANGED <<streams, reserved, pass, deleted>>

DeleteCamera(k) ==
    /\ k \notin deleted
    /\ spent.stops < MaxStops
    /\ spent' = [spent EXCEPT !.stops = @ + 1]
    /\ deleted' = deleted \cup {k}
    /\ UNCHANGED <<viewer, streams, inst, reserved, pass>>

-----------------------------------------------------------------------------
(* The instance.                                                           *)

\* Slip: the process is asked to end, and no more.
Terminated(r) == [r EXCEPT !.retry = "none"]

\* stop, under the lock: the process is gone when it returns.
Stopped(r) == [r EXCEPT !.proc = "none"]

Halt(i) ==
    /\ inst[i].halt
    /\ Free(i)
    /\ inst' = [inst EXCEPT ![i] = [Stopped(@) EXCEPT !.halt = FALSE]]
    /\ reserved' = Released(i)
    /\ UNCHANGED <<viewer, streams, pass, deleted, spent>>

\* _schedule_retry_locked.
Scheduled(r) ==
    IF r.retry # "none" \/ r.cancelled THEN r ELSE [r EXCEPT !.retry = "waiting"]

\* The beginning of start: what a call finds already decided, or the probe.
Begun(r) ==
    IF (r.managed /\ r.cancelled) \/ r.proc \in {"copy", "transcode"}
    THEN {r}
    ELSE LET begun == [r EXCEPT !.proc = "none", !.retry = "none", !.idle = FALSE]
         IN {begun, [begun EXCEPT !.start = "probing", !.source = TRUE]}

\* _choose_mode after the probe of the source, the reservation and the checks for a
\* viewer who left meanwhile.
ChooseMode(i) ==
    LET r == inst[i] IN
    /\ r.start = "probing"
    /\ \/ /\ r.managed /\ r.cancelled
          /\ inst' = [inst EXCEPT ![i].start = "none"]
          /\ UNCHANGED reserved
       \/ /\ ~(r.managed /\ r.cancelled)
          /\ \/ /\ inst' = [inst EXCEPT ![i] = [Scheduled(@) EXCEPT !.start = "none"]]
                /\ UNCHANGED reserved
             \/ /\ inst' = [inst EXCEPT ![i].start = "copy"]
                /\ UNCHANGED reserved
             \/ /\ MayReserve(i)
                /\ inst' = [inst EXCEPT ![i].start = "transcode"]
                /\ reserved' = [reserved EXCEPT ![r.key] = i]
             \/ /\ ~MayReserve(i)
                /\ inst' = [inst EXCEPT ![i].start = "none"]
                /\ UNCHANGED reserved
    /\ UNCHANGED <<viewer, streams, pass, deleted, spent>>

\* subprocess.Popen, or its failure; after one with hardware another backend is tried,
\* each of them once.
Spawn(i) ==
    LET r == inst[i] IN
    /\ r.start \in {"copy", "transcode"}
    /\ \/ /\ inst' = [inst EXCEPT ![i].proc = r.start, ![i].start = "none",
                                  ![i].retry = "none"]
          /\ UNCHANGED <<reserved, spent>>
       \/ /\ r.start = "transcode" /\ ~(r.managed /\ r.cancelled)
          /\ spent.exits < MaxExits
          /\ spent' = [spent EXCEPT !.exits = @ + 1]
          /\ inst' = [inst EXCEPT ![i].start = "probing"]
          /\ reserved' = Released(i)
       \/ /\ inst' = [inst EXCEPT ![i].start = "none"]
          /\ reserved' = Released(i)
          /\ UNCHANGED spent
    /\ UNCHANGED <<viewer, streams, pass, deleted>>

FfmpegEnds(i) ==
    /\ Up(i)
    /\ spent.exits < MaxExits
    /\ spent' = [spent EXCEPT !.exits = @ + 1]
    /\ inst' = [inst EXCEPT ![i].proc = "ended"]
    /\ UNCHANGED <<viewer, streams, reserved, pass, deleted>>

RetryDue(i) ==
    /\ inst[i].retry = "waiting"
    /\ inst' = [inst EXCEPT ![i].retry = "due"]
    /\ UNCHANGED <<viewer, streams, reserved, pass, deleted, spent>>

\* last_access is older than the ttl; a pass compares it with the time it began at.
BecomesIdle(i) ==
    /\ \A c \in Cleaner : pass[c].pc = "off"
    /\ inst[i].used
    /\ ~inst[i].idle
    /\ \E k \in Key : streams[k] = i
    /\ inst' = [inst EXCEPT ![i].idle = TRUE]
    /\ UNCHANGED <<viewer, streams, reserved, pass, deleted, spent>>

-----------------------------------------------------------------------------
(* The start thread: run in _launch_viewer_start.                          *)

\* Still registered and watched, and the camera not deleted since.
ThreadCheck(i) ==
    LET k == KeyOfInst(i) IN
    /\ inst[i].thread = "queued"
    /\ IF streams[k] = i /\ Watched(k)
       THEN IF k \in deleted
            THEN /\ viewer' = Unwatch(k)
                 /\ inst' = [inst EXCEPT ![i].thread = "ending",
                                         ![i].cancelled = TRUE, ![i].halt = TRUE]
            ELSE /\ inst' = [inst EXCEPT ![i].thread = "checked"]
                 /\ UNCHANGED viewer
       ELSE /\ inst' = [inst EXCEPT ![i].thread = "ending"]
            /\ UNCHANGED viewer
    /\ UNCHANGED <<streams, reserved, pass, deleted, spent>>

ThreadStart(i) ==
    /\ inst[i].thread = "checked"
    /\ Free(i)
    /\ \E r \in Begun(inst[i]) :
           inst' = [inst EXCEPT ![i] = [r EXCEPT !.thread = "starting", !.lock = "thread"]]
    /\ reserved' = IF inst[i].proc = "ended" THEN Released(i) ELSE reserved
    /\ UNCHANGED <<viewer, streams, pass, deleted, spent>>

\* start returned, or raised, which schedules a retry.
ThreadStarted(i) ==
    /\ inst[i].thread = "starting"
    /\ inst[i].start = "none"
    /\ \E raised \in BOOLEAN :
           inst' = [inst EXCEPT ![i] =
                     [(IF raised /\ ~Up(i) THEN Scheduled(@) ELSE @)
                        EXCEPT !.thread = "ending", !.lock = Nobody]]
    /\ UNCHANGED <<viewer, streams, reserved, pass, deleted, spent>>

\* finally: a start cancelled meanwhile is undone.
ThreadEnds(i) ==
    /\ inst[i].thread = "ending"
    /\ inst[i].cancelled => Free(i)
    /\ inst' = [inst EXCEPT ![i] =
                 [(IF @.cancelled THEN Stopped(@) ELSE @) EXCEPT !.thread = "none"]]
    /\ reserved' = IF inst[i].cancelled THEN Released(i) ELSE reserved
    /\ UNCHANGED <<viewer, streams, pass, deleted, spent>>

-----------------------------------------------------------------------------
(* A cleanup pass.                                                         *)

At(c) == pass[c].at
PassTo(c, pc) == pass' = [pass EXCEPT ![c].pc = pc]

\* Viewers without heartbeats expire; the instances are listed.
CleanStart(c) ==
    /\ pass[c].pc = "off"
    /\ viewer' = [v \in Viewer |-> IF viewer[v] = "gone" THEN "closed" ELSE viewer[v]]
    /\ pass' = [pass EXCEPT ![c] =
                 [PassOff EXCEPT !.pc = "next", !.todo = {streams[k] : k \in Key} \ {Nobody}]]
    /\ UNCHANGED <<streams, inst, reserved, deleted, spent>>

CleanCount(c, i) ==
    /\ pass[c].pc = "next"
    /\ i \in pass[c].todo
    /\ pass' = [pass EXCEPT ![c] = [pc |-> "counted", todo |-> @.todo \ {i}, at |-> i,
                                    seen |-> Watched(KeyOfInst(i))]]
    /\ UNCHANGED <<viewer, streams, inst, reserved, deleted, spent>>

\* acquire(blocking=False).
CleanSkip(c) ==
    /\ pass[c].pc = "counted"
    /\ ~Free(At(c))
    /\ PassTo(c, "next")
    /\ UNCHANGED <<viewer, streams, inst, reserved, deleted, spent>>

CleanLock(c) ==
    LET i == At(c)
        unwatched == inst[i].managed /\ ~pass[c].seen
    IN
    /\ pass[c].pc = "counted"
    /\ Free(i)
    /\ inst' = [inst EXCEPT ![i].lock = c, ![i].cancelled = @ \/ unwatched]
    /\ PassTo(c, IF unwatched THEN "stopping" ELSE "locked")
    /\ UNCHANGED <<viewer, streams, reserved, deleted, spent>>

\* The stream without viewers is stopped.  One who came meanwhile gets a retry;
\* otherwise the stream is dropped, unless its thread still runs.
StopUnwatched(c) ==
    LET i == At(c)
        k == KeyOfInst(i)
        stopped == [Stopped(inst[i]) EXCEPT !.lock = Nobody]
    IN
    /\ pass[c].pc = "stopping"
    /\ inst' = [inst EXCEPT ![i] =
                 IF Watched(k) THEN Scheduled([stopped EXCEPT !.cancelled = FALSE])
                 ELSE stopped]
    /\ streams' = IF ~Watched(k) /\ ~Alive(i) THEN [streams EXCEPT ![k] = Nobody] ELSE streams
    /\ reserved' = Released(i)
    /\ PassTo(c, "next")
    /\ UNCHANGED <<viewer, deleted, spent>>

\* maintain_startup: a process that ended, stalled, failed or makes no progress is
\* replaced by one of another mode, or stopped with or without a retry.
Maintain(c) ==
    LET i == At(c)
        r == inst[i]
        stopped == Stopped(r)
    IN
    /\ pass[c].pc = "locked"
    /\ \/ /\ ~(r.managed /\ r.cancelled)
          /\ r.proc # "none"
          /\ \E new \in {stopped : x \in {r.proc} \ {"ended"}} \cup {Scheduled(stopped)}
                        \cup Begun(stopped) :
                 inst' = [inst EXCEPT ![i] = new]
          /\ reserved' = Released(i)
       \/ /\ (r.managed /\ r.cancelled) \/ r.proc # "ended"
          /\ UNCHANGED <<inst, reserved>>
    /\ PassTo(c, "kept")
    /\ UNCHANGED <<viewer, streams, deleted, spent>>

\* Slip: nothing is scheduled for a stream whose start failed without a retry.
KeptFailed(c) ==
    LET i == At(c)
        wanting == pass[c].seen /\ ~Up(i)
    IN
    /\ pass[c].pc = "kept"
    /\ inst[i].start = "none"
    /\ inst' = [inst EXCEPT ![i].lock = Nobody]
    /\ PassTo(c, IF wanting /\ inst[i].retry = "due" /\ inst[i].source THEN "launch"
                 ELSE IF pass[c].seen THEN "next" ELSE "idle")
    /\ UNCHANGED <<viewer, streams, reserved, deleted, spent>>

\* A watched stream that neither runs nor starts gets a retry, and is launched once
\* the retry is due.
CleanKept(c) ==
    LET i == At(c)
        r == inst[i]
        wanting == pass[c].seen /\ ~Up(i)
    IN
    /\ pass[c].pc = "kept"
    /\ r.start = "none"
    /\ inst' = [inst EXCEPT ![i] =
                 [(IF wanting /\ r.thread = "none" /\ r.retry = "none"
                   THEN Scheduled([r EXCEPT !.cancelled = FALSE]) ELSE r)
                    EXCEPT !.lock = Nobody]]
    /\ PassTo(c, IF wanting /\ r.retry = "due" /\ r.source THEN "launch"
                 ELSE IF pass[c].seen THEN "next" ELSE "idle")
    /\ UNCHANGED <<viewer, streams, reserved, deleted, spent>>

\* _launch_viewer_start.
CleanLaunch(c) ==
    LET i == At(c)
        k == KeyOfInst(i)
    IN
    /\ pass[c].pc = "launch"
    /\ inst' = IF streams[k] = i /\ Watched(k)
               THEN [inst EXCEPT ![i] = Launched(@)] ELSE inst
    /\ PassTo(c, "next")
    /\ UNCHANGED <<viewer, streams, reserved, deleted, spent>>

\* A stream no viewer manages is dropped when nobody has asked for it for a while.  It
\* has no process to halt: only viewers start one.
CleanIdle(c) ==
    LET i == At(c) IN
    /\ pass[c].pc = "idle"
    /\ PassTo(c, IF inst[i].idle /\ ~Up(i) THEN "dropping" ELSE "next")
    /\ UNCHANGED <<viewer, streams, inst, reserved, deleted, spent>>

CleanDrop(c) ==
    /\ pass[c].pc = "dropping"
    /\ streams' = [streams EXCEPT ![KeyOfInst(At(c))] = Nobody]
    /\ PassTo(c, "next")
    /\ UNCHANGED <<viewer, inst, reserved, deleted, spent>>

CleanEnd(c) ==
    /\ pass[c].pc = "next"
    /\ pass[c].todo = {}
    /\ pass' = [pass EXCEPT ![c] = PassOff]
    /\ UNCHANGED <<viewer, streams, inst, reserved, deleted, spent>>

Clean(c) ==
    \/ CleanStart(c) \/ CleanSkip(c) \/ CleanLock(c) \/ StopUnwatched(c) \/ Maintain(c)
    \/ CleanKept(c) \/ CleanLaunch(c) \/ CleanIdle(c) \/ CleanDrop(c)
    \/ CleanEnd(c) \/ \E i \in Instance : CleanCount(c, i)

-----------------------------------------------------------------------------
Thread(i) == ThreadCheck(i) \/ ThreadStart(i) \/ ThreadStarted(i) \/ ThreadEnds(i)
Starting(i) == ChooseMode(i) \/ Spawn(i)

Next ==
    \/ \E v \in Viewer :
           \/ Admit(v) \/ CloseViewer(v) \/ LoseViewer(v) \/ TouchViewer(v)
           \/ \E i \in Instance : OpenViewer(v, i)
    \/ \E k \in Key :
           StopStream(k) \/ DeleteCamera(k) \/ \E i \in Instance : PollPlaylist(k, i)
    \/ \E i \in Instance :
           Thread(i) \/ Starting(i) \/ Halt(i) \/ FfmpegEnds(i) \/ RetryDue(i) \/ BecomesIdle(i)
    \/ \E c \in Cleaner : Clean(c)

Spec == Init /\ [][Next]_vars

\* Threads run, probes and waits time out, retries come due and the cleanup worker
\* wakes up every few seconds.
Fairness ==
    /\ \A i \in Instance :
           /\ WF_vars(ThreadCheck(i)) /\ SF_vars(ThreadStart(i))
           /\ WF_vars(ThreadStarted(i)) /\ SF_vars(ThreadEnds(i))
           /\ WF_vars(Starting(i)) /\ SF_vars(Halt(i)) /\ WF_vars(RetryDue(i))
    /\ \A c \in Cleaner : WF_vars(Clean(c))

FairSpec == Spec /\ Fairness

-----------------------------------------------------------------------------
TypeOK ==
    /\ viewer \in [Viewer -> ViewerState]
    /\ streams \in [Key -> Instance \cup {Nobody}]
    /\ inst \in [Instance -> Inst]
    /\ reserved \in [Key -> Instance \cup {Nobody}]
    /\ pass \in [Cleaner -> Pass]
    /\ deleted \subseteq Key
    /\ spent \in [exits : 0 .. MaxExits, stops : 0 .. MaxStops]

\* An ffmpeg process belongs to a registered stream, or to an instance that a start
\* thread or a cleanup pass still has in hand: none is left that nobody stops.
NoOrphan ==
    \A i \in Instance :
        Up(i) => streams[KeyOfInst(i)] = i \/ inst[i].thread # "none"

\* A transcoding process holds the reservation of its stream, so that never more than
\* the limit run, whatever was replaced, stopped or dropped meanwhile; and nothing
\* else holds one: capacity does not leak.
ReservationsExact ==
    /\ Limit = 0 \/ Cardinality({i \in Instance : inst[i].proc = "transcode"}) <= Limit
    /\ \A i \in Instance : inst[i].proc = "transcode" => reserved[KeyOfInst(i)] = i
    /\ \A k \in Key : reserved[k] # Nobody =>
           "transcode" \in {inst[reserved[k]].proc, inst[reserved[k]].start}
           \/ inst[reserved[k]].proc = "ended"

\* A watched stream stays cancelled only while the pass that stops it has still to look
\* for viewers who came meanwhile (manager.py:254).
CancelledUnwatched ==
    \A k \in Key :
        LET i == streams[k] IN
        Watched(k) /\ i # Nobody /\ inst[i].cancelled =>
            \E c \in Cleaner : pass[c].pc = "stopping" /\ At(c) = i

\* While it is watched and its camera exists, a stream runs or is started anew, again
\* and again.
Attended(k) ==
    LET i == streams[k] IN i # Nobody /\ (Up(i) \/ inst[i].thread = "starting")
ViewersAttended ==
    \A k \in Key : Watched(k) ~> Attended(k) \/ ~Watched(k) \/ k \in deleted

\* The process of a stream nobody watches is stopped.
UnwatchedStops ==
    \A i \in Instance : Up(i) /\ ~Watched(KeyOfInst(i)) ~> ~Up(i) \/ Watched(KeyOfInst(i))

\* In every reachable state the tables of the engine agree with the processes of the
\* host and with the viewers, between the steps of any threads.
EngineConsistent == TypeOK /\ NoOrphan /\ ReservationsExact /\ CancelledUnwatched

=============================================================================

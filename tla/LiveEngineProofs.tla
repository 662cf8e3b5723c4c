--------------------------- MODULE LiveEngineProofs ---------------------------
(***************************************************************************)
(* Theorems about the live engine: the types and EngineConsistent, for any *)
(* number of streams, viewers and instances and any limit, with one pass   *)
(* at a time and no playlist asked for while viewers may still come.       *)
(*                                                                         *)
(* EngineConsistent is not inductive: that no process is left behind rests *)
(* on who has an instance in hand.  What does anything is registered, and  *)
(* only the pass that has it in hand drops it (InstanceOK, PassOK); start  *)
(* runs under the lock of the instance and a transcode is reserved before  *)
(* it is started (ReservationOK).                                          *)
(***************************************************************************)
EXTENDS LiveEngine, FiniteSetTheorems, TLAPS

-----------------------------------------------------------------------------
\* The steps of a pass that hold the lock of its instance.
Locking == {"locked", "stopping", "kept"}

Registered(i) == streams[inst[i].key] = i
Quiet(i) == inst[i].proc = "none" /\ inst[i].thread = "none" /\ inst[i].start = "none"

\* Only an instance a viewer opened does anything, and while it does it is the registered
\* one; start runs under the lock, in place of the process, and a transcode is reserved
\* before there is one.
InstanceOK(i) ==
    LET r == inst[i] IN
    /\ ~r.used => ~r.managed /\ ~r.cancelled
    /\ ~r.managed => Quiet(i)
    /\ ~Quiet(i) => Registered(i)
    /\ r.lock = "thread" <=> r.thread = "starting"
    /\ r.lock \in Cleaner => pass[r.lock].at = i /\ pass[r.lock].pc \in Locking
    /\ r.start # "none" =>
          /\ r.proc = "none"
          /\ r.lock = "thread" \/ (r.lock \in Cleaner /\ pass[r.lock].pc = "kept")
    /\ "transcode" \in {r.proc, r.start} => reserved[r.key] = i

\* A registered instance is that of its stream; one no viewer opened will not be opened.
StreamOK(k) ==
    LET i == streams[k] IN
    i # Nobody =>
        /\ inst[i].used /\ inst[i].key = k
        /\ ~inst[i].managed => \A v \in Viewer : KeyOf[v] = k => viewer[v] = "closed"

\* A reservation is that of a process, or of one that ended and was not replaced yet.
ReservationOK(k) ==
    LET i == reserved[k] IN
    i # Nobody =>
        /\ inst[i].key = k
        /\ "transcode" \in {inst[i].proc, inst[i].start} \/ inst[i].proc = "ended"

\* What a pass has listed and has at hand is still registered: nobody else drops it.
PassOK(c) ==
    LET i == pass[c].at IN
    /\ \A j \in pass[c].todo : Registered(j)
    /\ pass[c].pc \notin {"off", "next"} => i \in Instance /\ Registered(i) /\ i \notin pass[c].todo
    /\ pass[c].pc \in Locking => inst[i].lock = c
    /\ \/ pass[c].pc \in {"idle", "dropping"}
       \/ pass[c].pc \in {"locked", "kept"} /\ ~pass[c].seen
       => ~inst[i].managed

\* CancelledUnwatched, of one stream.
CancelledOK(k) ==
    LET i == streams[k] IN
    Watched(k) /\ i # Nobody /\ inst[i].cancelled =>
        \E c \in Cleaner : pass[c].pc = "stopping" /\ pass[c].at = i

Reserving == {k \in Key : reserved[k] # Nobody}
WithinLimit == Limit = 0 \/ Cardinality(Reserving) <= Limit

EngineInvariant ==
    /\ TypeOK
    /\ \A i \in Instance : InstanceOK(i)
    /\ \A k \in Key : StreamOK(k) /\ ReservationOK(k)
    /\ \A c \in Cleaner : PassOK(c)
    /\ WithinLimit
    /\ \A k \in Key : CancelledOK(k)

\* What the theorems assume of the host: one pass at a time, playlists as the model
\* of Polling has them, finitely many streams.
OnePass == \A c, d \in Cleaner : c = d
Hypotheses == ~Polling /\ OnePass /\ IsFiniteSet(Key)

-----------------------------------------------------------------------------
(* The functions on the record of an instance.                             *)

LEMMA LaunchedRecord ==
    ASSUME NEW r \in Inst
    PROVE  /\ Launched(r) \in Inst
           /\ Launched(r) = r \/ (r.thread = "none" /\ Launched(r).thread = "queued"
                                  /\ Launched(r).cancelled = FALSE)
           /\ \A f \in {"used", "key", "managed", "proc", "idle", "start", "halt", "lock"} :
                  Launched(r)[f] = r[f]
           /\ Launched(r).cancelled => r.cancelled
  <1>1. CASE r.proc \in {"copy", "transcode"} \/ r.thread # "none" \/ r.retry = "waiting"
    BY <1>1 DEF Launched
  <1>2. CASE ~(r.proc \in {"copy", "transcode"} \/ r.thread # "none" \/ r.retry = "waiting")
    <2>1. Launched(r) = [r EXCEPT !.cancelled = FALSE, !.source = TRUE, !.thread = "queued"]
      BY <1>2 DEF Launched
    <2> QED BY <1>2, <2>1 DEF Inst
  <1> QED BY <1>1, <1>2

LEMMA ScheduledRecord ==
    ASSUME NEW r \in Inst
    PROVE  /\ Scheduled(r) \in Inst
           /\ \A f \in {"used", "key", "managed", "cancelled", "proc", "source", "idle",
                        "thread", "start", "halt", "lock"} : Scheduled(r)[f] = r[f]
  BY DEF Scheduled, Inst

LEMMA StoppedRecord ==
    ASSUME NEW r \in Inst
    PROVE  /\ Stopped(r) \in Inst
           /\ Stopped(r).proc = "none"
           /\ \A f \in {"used", "key", "managed", "cancelled", "retry", "source", "idle",
                        "thread", "start", "halt", "lock"} : Stopped(r)[f] = r[f]
  BY DEF Stopped, Inst

\* A call of start leaves a process that runs, and probes only without one.
LEMMA BegunRecord ==
    ASSUME NEW r \in Inst, NEW b \in Begun(r), r.start = "none"
    PROVE  /\ b \in Inst
           /\ \A f \in {"used", "key", "managed", "cancelled", "thread", "halt", "lock"} :
                  b[f] = r[f]
           /\ \/ b = r /\ ((r.managed /\ r.cancelled) \/ r.proc \in {"copy", "transcode"})
              \/ b.proc = "none" /\ b.start \in {"none", "probing"}
                 /\ r.proc \in {"none", "ended"}
  <1> DEFINE begun == [r EXCEPT !.proc = "none", !.retry = "none", !.idle = FALSE]
             decided == (r.managed /\ r.cancelled) \/ r.proc \in {"copy", "transcode"}
  <1>1. CASE decided
    <2>1. b = r BY <1>1 DEF Begun
    <2> QED BY <1>1, <2>1
  <1>2. CASE ~decided
    <2>1. b \in {begun, [begun EXCEPT !.start = "probing", !.source = TRUE]}
      BY <1>2 DEF Begun
    <2>2. b = begun \/ b = [begun EXCEPT !.start = "probing", !.source = TRUE] BY <2>1
    <2>3. r.proc \in {"none", "ended"} BY <1>2 DEF Inst
    <2> QED BY <2>2, <2>3 DEF Inst
  <1> QED BY <1>1, <1>2

LEMMA CancelledRecord ==
    ASSUME NEW r \in Inst, NEW x \in BOOLEAN, NEW s, s = [r EXCEPT !.cancelled = x]
    PROVE  /\ s \in Inst /\ s.cancelled = x
           /\ \A f \in {"used", "key", "managed", "proc", "retry", "source", "idle", "thread",
                        "start", "halt", "lock"} : s[f] = r[f]
  BY DEF Inst

LEMMA HaltingRecord ==
    ASSUME NEW r \in Inst, NEW s, s = [r EXCEPT !.halt = TRUE]
    PROVE  /\ s \in Inst
           /\ \A f \in {"used", "key", "managed", "cancelled", "proc", "retry", "source",
                        "idle", "thread", "start", "lock"} : s[f] = r[f]
  BY DEF Inst

-----------------------------------------------------------------------------
(* What a step at one instance may disturb.                                *)

\* What concerns another stream, another instance and what no pass has in hand stays as
\* it was.
LEMMA Frame ==
    ASSUME EngineInvariant, TypeOK',
           NEW i \in Instance, NEW k \in Key, k = inst[i].key,
           inst'[i].key = k,
           \A j \in Instance : j # i => inst'[j] = inst[j],
           \A l \in Key : l # k => streams'[l] = streams[l] /\ reserved'[l] = reserved[l],
           streams'[k] # streams[k] => streams[k] \in {i, Nobody},
           reserved'[k] # reserved[k] => reserved[k] \in {i, Nobody},
           \A v \in Viewer : KeyOf[v] # k => viewer'[v] \in {viewer[v], "closed"},
           \A c \in Cleaner : pass'[c] # pass[c] =>
                                  pass[c].at = i \/ pass[c].pc \notin Locking,
           InstanceOK(i)', StreamOK(k)', ReservationOK(k)', CancelledOK(k)',
           \A c \in Cleaner : PassOK(c)',
           WithinLimit'
    PROVE  EngineInvariant'
  <1> USE NobodyAssumption
  <1> inst \in [Instance -> Inst] /\ streams \in [Key -> Instance \cup {Nobody}]
      /\ reserved \in [Key -> Instance \cup {Nobody}]
      /\ \A j \in Instance : inst[j].key \in Key
    BY DEF EngineInvariant, TypeOK, Inst
  <1>1. ASSUME NEW j \in Instance, j # i PROVE InstanceOK(j)'
    <2>1. InstanceOK(j) BY DEF EngineInvariant
    <2>2. inst'[j] = inst[j] BY <1>1
    <2>3. Registered(j) => Registered(j)' BY <1>1, <2>2 DEF Registered
    <2>4. reserved[inst[j].key] = j => reserved'[inst[j].key] = j BY <1>1
    <2>5. inst[j].lock \in Cleaner => pass'[inst[j].lock] = pass[inst[j].lock]
      BY <2>1, <1>1 DEF InstanceOK
    <2> QED BY <2>1, <2>2, <2>3, <2>4, <2>5 DEF InstanceOK, Quiet
  <1>2. ASSUME NEW l \in Key, l # k
        PROVE  StreamOK(l)' /\ ReservationOK(l)' /\ CancelledOK(l)'
    <2>1. StreamOK(l) /\ ReservationOK(l) /\ CancelledOK(l) BY DEF EngineInvariant
    <2>2. streams'[l] = streams[l] /\ reserved'[l] = reserved[l] BY <1>2
    <2>3. streams[l] # Nobody => streams[l] # i /\ inst'[streams[l]] = inst[streams[l]]
      BY <2>1, <1>2 DEF StreamOK
    <2>4. reserved[l] # Nobody => inst'[reserved[l]] = inst[reserved[l]]
      BY <2>1, <1>2 DEF ReservationOK
    <2>5. \A v \in Viewer : KeyOf[v] = l => viewer'[v] \in {viewer[v], "closed"} BY <1>2
    <2>6. StreamOK(l)' BY <2>1, <2>2, <2>3, <2>5 DEF StreamOK
    <2>7. ReservationOK(l)' BY <2>1, <2>2, <2>4 DEF ReservationOK
    <2>8. Watched(l)' => Watched(l) BY <2>5 DEF Watched
    <2>9. ASSUME Watched(l)', streams[l] # Nobody, inst[streams[l]].cancelled
          PROVE  \E c \in Cleaner : pass'[c].pc = "stopping" /\ pass'[c].at = streams[l]
      <3>1. PICK c \in Cleaner : pass[c].pc = "stopping" /\ pass[c].at = streams[l]
        BY <2>1, <2>8, <2>9 DEF CancelledOK
      <3>2. pass'[c] = pass[c] BY <3>1, <2>3, <2>9 DEF Locking
      <3> QED BY <3>1, <3>2
    <2>10. CancelledOK(l)' BY <2>2, <2>3, <2>9 DEF CancelledOK
    <2> QED BY <2>6, <2>7, <2>10
  <1> QED BY <1>1, <1>2 DEF EngineInvariant

\* Giving a reservation back never exceeds the limit.
LEMMA LimitKept ==
    ASSUME EngineInvariant, Hypotheses, Reserving' \subseteq Reserving
    PROVE  WithinLimit'
  <1>1. IsFiniteSet(Reserving) BY FS_Subset DEF Hypotheses, Reserving
  <1>2. IsFiniteSet(Reserving') /\ Cardinality(Reserving') <= Cardinality(Reserving)
    BY <1>1, FS_Subset
  <1>3. Cardinality(Reserving) \in Nat /\ Cardinality(Reserving') \in Nat /\ Limit \in Nat
    BY <1>1, <1>2, FS_CardinalityType, BoundAssumption
  <1>4. Limit = 0 \/ Cardinality(Reserving) <= Limit BY DEF EngineInvariant, WithinLimit
  <1> QED BY <1>2, <1>3, <1>4 DEF WithinLimit

LEMMA ReleasedReservations ==
    ASSUME TypeOK, NEW i \in Instance, reserved' = Released(i)
    PROVE  /\ reserved' \in [Key -> Instance \cup {Nobody}]
           /\ \A l \in Key : l # inst[i].key => reserved'[l] = reserved[l]
           /\ reserved'[inst[i].key] # i
           /\ reserved'[inst[i].key] # reserved[inst[i].key] =>
                  reserved[inst[i].key] = i /\ reserved'[inst[i].key] = Nobody
           /\ Reserving' \subseteq Reserving
  <1> inst[i].key \in Key /\ reserved \in [Key -> Instance \cup {Nobody}]
    BY DEF TypeOK, Inst
  <1> QED BY NobodyAssumption DEF Released, KeyOfInst, Reserving

\* A transcode is reserved only below the limit.
LEMMA ReservedReservations ==
    ASSUME EngineInvariant, Hypotheses, NEW i \in Instance, MayReserve(i),
           reserved' = [reserved EXCEPT ![inst[i].key] = i]
    PROVE  /\ reserved' \in [Key -> Instance \cup {Nobody}]
           /\ \A l \in Key : l # inst[i].key => reserved'[l] = reserved[l]
           /\ reserved'[inst[i].key] = i
           /\ reserved[inst[i].key] \in {i, Nobody}
           /\ WithinLimit'
  <1> DEFINE k == inst[i].key
  <1> k \in Key /\ reserved \in [Key -> Instance \cup {Nobody}]
    BY DEF EngineInvariant, TypeOK, Inst
  <1> i # Nobody BY NobodyAssumption
  <1>1. reserved[k] \in {i, Nobody} BY DEF MayReserve, KeyOfInst
  <1>2. CASE reserved[k] = i
    <2>1. Reserving' = Reserving BY <1>2 DEF Reserving
    <2> QED BY <1>1, <2>1, LimitKept
  <1>3. CASE reserved[k] = Nobody
    <2>1. Reserving' = Reserving \cup {k} /\ k \notin Reserving BY <1>3 DEF Reserving
    <2>2. IsFiniteSet(Reserving) BY FS_Subset DEF Hypotheses, Reserving
    <2>3. Cardinality(Reserving') = Cardinality(Reserving) + 1 BY <2>1, <2>2, FS_AddElement
    <2>4. Limit = 0 \/ Cardinality(Reserving) < Limit
      BY <1>3 DEF MayReserve, KeyOfInst, Reserving
    <2>5. Cardinality(Reserving) \in Nat /\ Limit \in Nat
      BY <2>2, FS_CardinalityType, BoundAssumption
    <2>6. WithinLimit' BY <2>3, <2>4, <2>5 DEF WithinLimit
    <2> QED BY <1>1, <2>6
  <1> QED BY <1>1, <1>2, <1>3

\* A step of the host or of a thread at one instance.
LEMMA InstanceStep ==
    ASSUME EngineInvariant, Hypotheses, NEW i \in Instance, NEW r \in Inst,
           inst' = [inst EXCEPT ![i] = r],
           r.key = inst[i].key, r.used = inst[i].used, r.managed = inst[i].managed,
           r.cancelled => inst[i].cancelled,
           inst[i].lock \in Cleaner \/ r.lock \in Cleaner => r.lock = inst[i].lock,
           UNCHANGED <<viewer, streams, pass, deleted>>,
           spent' \in [exits : 0 .. MaxExits, stops : 0 .. MaxStops],
           \/ reserved' = reserved
           \/ reserved' = Released(i)
           \/ MayReserve(i) /\ reserved' = [reserved EXCEPT ![inst[i].key] = i],
           reserved'[inst[i].key] = i =>
               "transcode" \in {r.proc, r.start} \/ r.proc = "ended",
           InstanceOK(i)'
    PROVE  EngineInvariant'
  <1> inst \in [Instance -> Inst] /\ streams \in [Key -> Instance \cup {Nobody}]
    BY DEF EngineInvariant, TypeOK
  <1> PICK k \in Key : k = inst[i].key BY DEF Inst
  <1>1. inst' \in [Instance -> Inst] /\ inst'[i] = r
        /\ \A j \in Instance : j # i => inst'[j] = inst[j]
    OBVIOUS
  <1>2. /\ reserved' \in [Key -> Instance \cup {Nobody}]
        /\ \A l \in Key : l # k => reserved'[l] = reserved[l]
        /\ reserved'[k] # reserved[k] => reserved[k] \in {i, Nobody}
        /\ reserved'[k] # reserved[k] => reserved'[k] \in {i, Nobody}
        /\ WithinLimit'
    <2>1. CASE reserved' = reserved
      <3>1. Reserving' = Reserving BY <2>1 DEF Reserving
      <3> QED BY <2>1, <3>1, LimitKept DEF EngineInvariant, TypeOK
    <2>2. CASE reserved' = Released(i)
      BY <2>2, ReleasedReservations, LimitKept DEF EngineInvariant
    <2>3. CASE MayReserve(i) /\ reserved' = [reserved EXCEPT ![k] = i]
      BY <2>3, ReservedReservations
    <2> QED BY <2>1, <2>2, <2>3
  <1>3. TypeOK' BY <1>1, <1>2 DEF EngineInvariant, TypeOK
  <1>4. StreamOK(k) /\ ReservationOK(k) /\ CancelledOK(k) BY DEF EngineInvariant
  <1>5. StreamOK(k)' BY <1>1, <1>4 DEF StreamOK
  <1>6. CancelledOK(k)' BY <1>1, <1>4 DEF CancelledOK, Watched
  <1>7. ReservationOK(k)' BY <1>1, <1>2, <1>4 DEF ReservationOK
  <1>8. ASSUME NEW c \in Cleaner PROVE PassOK(c)'
    <2>1. PassOK(c) BY DEF EngineInvariant
    <2>2. \A j \in Instance : Registered(j)' = Registered(j) BY <1>1 DEF Registered
    <2>3. pass[c].todo \subseteq Instance BY DEF EngineInvariant, TypeOK, Pass
    <2>4. pass[c].at \in Instance =>
              /\ inst[pass[c].at].lock = c => inst'[pass[c].at].lock = c
              /\ inst'[pass[c].at].managed = inst[pass[c].at].managed
      BY <1>1
    <2>5. pass[c].pc \in Locking \cup {"idle", "dropping"} => pass[c].at \in Instance
      BY <2>1 DEF PassOK, Locking
    <2> QED BY <2>1, <2>2, <2>3, <2>4, <2>5 DEF PassOK, Locking
  <1> QED BY <1>1, <1>2, <1>3, <1>5, <1>6, <1>7, <1>8, Frame

-----------------------------------------------------------------------------
(* The instances: their threads and their processes.                       *)

\* The facts every step at an instance starts from.
LEMMA AtInstance ==
    ASSUME EngineInvariant, NEW i \in Instance
    PROVE  /\ inst[i] \in Inst /\ inst \in [Instance -> Inst]
           /\ inst[i].key \in Key /\ inst[i].managed \in BOOLEAN
           /\ inst[i].cancelled \in BOOLEAN /\ inst[i].lock \in Cleaner \cup {Nobody, "thread"}
           /\ inst[i].proc \in {"none", "copy", "transcode", "ended"}
           /\ reserved[inst[i].key] = i =>
                  "transcode" \in {inst[i].proc, inst[i].start} \/ inst[i].proc = "ended"
           /\ InstanceOK(i)
           /\ spent \in [exits : 0 .. MaxExits, stops : 0 .. MaxStops]
           /\ i # Nobody
  <1>1. inst \in [Instance -> Inst] /\ spent \in [exits : 0 .. MaxExits, stops : 0 .. MaxStops]
    BY DEF EngineInvariant, TypeOK
  <1>2. inst[i] \in Inst BY <1>1
  <1>3. inst[i].key \in Key BY <1>2 DEF Inst
  <1>4. ReservationOK(inst[i].key) /\ InstanceOK(i) BY <1>3 DEF EngineInvariant
  <1>5. i # Nobody BY NobodyAssumption
  <1> QED BY <1>1, <1>2, <1>3, <1>4, <1>5 DEF ReservationOK, Inst

LEMMA HaltStep ==
    ASSUME EngineInvariant, Hypotheses, NEW i \in Instance, Halt(i)
    PROVE  EngineInvariant'
  <1> DEFINE s == Stopped(inst[i])
             r == [s EXCEPT !.halt = FALSE]
  <1>1. /\ r \in Inst /\ r.proc = "none"
        /\ \A f \in {"used", "key", "managed", "cancelled", "thread", "start", "lock"} :
               r[f] = inst[i][f]
    <2>1. /\ s \in Inst /\ s.proc = "none"
          /\ \A f \in {"used", "key", "managed", "cancelled", "thread", "start", "lock"} :
                 s[f] = inst[i][f]
      BY AtInstance, StoppedRecord
    <2> HIDE DEF s
    <2> QED BY <2>1 DEF Inst
  <1>2. inst' = [inst EXCEPT ![i] = r] BY DEF Halt
  <1>3. inst'[i] = r BY <1>2, AtInstance
  <1>4. inst[i].start = "none" BY AtInstance, NobodyAssumption DEF Halt, Free, InstanceOK
  <1>5. TypeOK BY DEF EngineInvariant
  <1>6. reserved'[inst[i].key] # i BY <1>5, ReleasedReservations DEF Halt
  <1>7. UNCHANGED <<viewer, streams, pass, deleted, spent>> /\ reserved' = Released(i)
    BY DEF Halt
  <1> HIDE DEF r
  <1>8. InstanceOK(i)'
    BY <1>1, <1>3, <1>4, <1>7, AtInstance DEF InstanceOK, Quiet, Registered
  <1> QED BY <1>1, <1>2, <1>6, <1>7, <1>8, AtInstance, InstanceStep

LEMMA FfmpegEndsStep ==
    ASSUME EngineInvariant, Hypotheses, NEW i \in Instance, FfmpegEnds(i)
    PROVE  EngineInvariant'
  <1> DEFINE r == [inst[i] EXCEPT !.proc = "ended"]
  <1>1. /\ r \in Inst /\ r.proc = "ended"
        /\ \A f \in {"used", "key", "managed", "cancelled", "thread", "start", "lock"} :
               r[f] = inst[i][f]
    BY AtInstance DEF Inst
  <1>2. inst' = [inst EXCEPT ![i] = r] BY DEF FfmpegEnds
  <1>3. inst'[i] = r BY <1>2, AtInstance
  <1>4. inst[i].start = "none" /\ inst[i].proc # "none"
    BY AtInstance DEF FfmpegEnds, Up, InstanceOK
  <1>5. UNCHANGED <<viewer, streams, pass, deleted, reserved>>
        /\ spent' \in [exits : 0 .. MaxExits, stops : 0 .. MaxStops]
    BY AtInstance, BoundAssumption DEF FfmpegEnds
  <1> HIDE DEF r
  <1>6. InstanceOK(i)'
    BY <1>1, <1>3, <1>4, <1>5, AtInstance DEF InstanceOK, Quiet, Registered
  <1> QED BY <1>1, <1>2, <1>5, <1>6, AtInstance, InstanceStep

\* A retry that comes due, a last access that grows old and a heartbeat.
LEMMA TimerStep ==
    ASSUME EngineInvariant, Hypotheses, NEW i \in Instance, NEW r \in Inst,
           \A f \in {"used", "key", "managed", "cancelled", "thread", "proc", "start", "lock"} :
               r[f] = inst[i][f],
           inst' = [inst EXCEPT ![i] = r],
           UNCHANGED <<viewer, streams, reserved, pass, deleted, spent>>
    PROVE  EngineInvariant'
  <1>1. inst'[i] = r BY AtInstance
  <1>2. InstanceOK(i)' BY <1>1, AtInstance DEF InstanceOK, Quiet, Registered
  <1> QED BY <1>2, AtInstance, InstanceStep

LEMMA RetryDueStep ==
    ASSUME EngineInvariant, Hypotheses, NEW i \in Instance, RetryDue(i)
    PROVE  EngineInvariant'
  <1> DEFINE r == [inst[i] EXCEPT !.retry = "due"]
  <1>1. r \in Inst BY AtInstance DEF Inst
  <1> QED BY <1>1, AtInstance, TimerStep DEF RetryDue, Inst

LEMMA BecomesIdleStep ==
    ASSUME EngineInvariant, Hypotheses, NEW i \in Instance, BecomesIdle(i)
    PROVE  EngineInvariant'
  <1> DEFINE r == [inst[i] EXCEPT !.idle = TRUE]
  <1>1. r \in Inst BY AtInstance DEF Inst
  <1> QED BY <1>1, AtInstance, TimerStep DEF BecomesIdle, Inst

LEMMA TouchViewerStep ==
    ASSUME EngineInvariant, Hypotheses, NEW v \in Viewer, TouchViewer(v)
    PROVE  EngineInvariant'
  <1> DEFINE i == streams[KeyOf[v]]
             r == [inst[i] EXCEPT !.idle = FALSE]
  <1>1. i \in Instance BY KeyAssumption DEF TouchViewer, EngineInvariant, TypeOK
  <1>2. r \in Inst BY <1>1, AtInstance DEF Inst
  <1>3. \A f \in {"used", "key", "managed", "cancelled", "thread", "proc", "start", "lock"} :
               r[f] = inst[i][f]
    BY <1>1, AtInstance DEF Inst
  <1>4. inst' = [inst EXCEPT ![i] = r]
        /\ UNCHANGED <<viewer, streams, reserved, pass, deleted, spent>>
    BY DEF TouchViewer
  <1> HIDE DEF r, i
  <1> QED BY <1>1, <1>2, <1>3, <1>4, TimerStep

\* Stopping a process gives its reservation back, and nothing was starting in its place.
LEMMA ThreadStartStep ==
    ASSUME EngineInvariant, Hypotheses, NEW i \in Instance, ThreadStart(i)
    PROVE  EngineInvariant'
  <1>1. inst[i].start = "none" BY AtInstance, NobodyAssumption DEF ThreadStart, Free, InstanceOK
  <1>2. PICK b \in Begun(inst[i]) :
            inst' = [inst EXCEPT ![i] = [b EXCEPT !.thread = "starting", !.lock = "thread"]]
    BY DEF ThreadStart
  <1> DEFINE r == [b EXCEPT !.thread = "starting", !.lock = "thread"]
  <1>3. /\ b \in Inst
        /\ \A f \in {"used", "key", "managed", "cancelled"} : b[f] = inst[i][f]
        /\ \/ b = inst[i]
           \/ b.proc = "none" /\ b.start \in {"none", "probing"}
              /\ inst[i].proc \in {"none", "ended"}
    BY <1>1, AtInstance, BegunRecord
  <1>4. /\ r \in Inst /\ r.proc = b.proc /\ r.start = b.start
        /\ r.thread = "starting" /\ r.lock = "thread"
        /\ \A f \in {"used", "key", "managed", "cancelled"} : r[f] = inst[i][f]
    BY <1>3 DEF Inst
  <1>5. inst'[i] = r BY <1>2, AtInstance
  <1>6. /\ inst[i].thread = "checked" /\ inst[i].lock = Nobody
        /\ UNCHANGED <<viewer, streams, pass, deleted, spent>>
        /\ reserved' = IF inst[i].proc = "ended" THEN Released(i) ELSE reserved
    BY DEF ThreadStart, Free
  <1>7. inst[i].managed /\ Registered(i) BY <1>6, AtInstance DEF InstanceOK, Quiet
  <1>8. TypeOK BY DEF EngineInvariant
  <1>9. reserved' = reserved \/ reserved' = Released(i) BY <1>6
  <1>10. reserved' = reserved \/ inst[i].proc = "ended" BY <1>6
  <1>11. reserved'[inst[i].key] = i => "transcode" \in {r.proc, r.start} \/ r.proc = "ended"
    <2>1. SUFFICES ASSUME reserved'[inst[i].key] = i
                   PROVE  "transcode" \in {r.proc, r.start} \/ r.proc = "ended"
      OBVIOUS
    <2>2. inst[i].proc # "ended" /\ reserved[inst[i].key] = i
      BY <2>1, <1>6, <1>8, ReleasedReservations
    <2>3. inst[i].proc = "transcode" BY <2>2, <1>1, AtInstance
    <2> QED BY <2>3, <1>3, <1>4
  <1>12. inst[i].proc = "transcode" => reserved' = reserved /\ reserved[inst[i].key] = i
    BY <1>10, AtInstance DEF InstanceOK
  <1> HIDE DEF r
  <1>13. InstanceOK(i)'
    <2>1. r.start # "none" => r.proc = "none" BY <1>1, <1>3, <1>4
    <2>2. "transcode" \in {r.proc, r.start} => reserved'[r.key] = i
      BY <1>1, <1>3, <1>4, <1>12
    <2>3. Registered(i)' BY <1>4, <1>5, <1>6, <1>7 DEF Registered
    <2>4. (~r.used => ~r.managed /\ ~r.cancelled) /\ r.managed
      BY <1>4, <1>7, AtInstance DEF InstanceOK
    <2>5. r.lock \notin Cleaner BY <1>4, NobodyAssumption
    <2> QED BY <1>4, <1>5, <2>1, <2>2, <2>3, <2>4, <2>5 DEF InstanceOK
  <1>14. inst[i].lock \notin Cleaner /\ r.lock \notin Cleaner
    BY <1>4, <1>6, NobodyAssumption
  <1>15. inst' = [inst EXCEPT ![i] = r] BY <1>2 DEF r
  <1> QED BY <1>4, <1>6, <1>9, <1>11, <1>13, <1>14, <1>15, AtInstance, InstanceStep

LEMMA ThreadStartedStep ==
    ASSUME EngineInvariant, Hypotheses, NEW i \in Instance, ThreadStarted(i)
    PROVE  EngineInvariant'
  <1>1. PICK raised \in BOOLEAN :
            inst' = [inst EXCEPT ![i] =
                     [(IF raised /\ ~Up(i) THEN Scheduled(@) ELSE @)
                        EXCEPT !.thread = "ending", !.lock = Nobody]]
    BY DEF ThreadStarted
  <1> DEFINE s == IF raised /\ ~Up(i) THEN Scheduled(inst[i]) ELSE inst[i]
             r == [s EXCEPT !.thread = "ending", !.lock = Nobody]
  <1>2. /\ s \in Inst
        /\ \A f \in {"used", "key", "managed", "cancelled", "proc", "start"} : s[f] = inst[i][f]
    BY AtInstance, ScheduledRecord
  <1>3. inst' = [inst EXCEPT ![i] = r] BY <1>1
  <1> HIDE DEF s
  <1>4. /\ r \in Inst /\ r.thread = "ending" /\ r.lock = Nobody
        /\ \A f \in {"used", "key", "managed", "cancelled", "proc", "start"} : r[f] = inst[i][f]
    BY <1>2 DEF Inst
  <1>5. inst'[i] = r BY <1>3, AtInstance
  <1>6. /\ inst[i].thread = "starting" /\ inst[i].start = "none"
        /\ UNCHANGED <<viewer, streams, reserved, pass, deleted, spent>>
    BY DEF ThreadStarted
  <1>7. inst[i].lock = "thread" BY <1>6, AtInstance DEF InstanceOK
  <1> HIDE DEF r
  <1>8. InstanceOK(i)'
    BY <1>4, <1>5, <1>6, AtInstance, NobodyAssumption DEF InstanceOK, Quiet, Registered
  <1> QED BY <1>3, <1>4, <1>6, <1>7, <1>8, AtInstance, NobodyAssumption, InstanceStep

LEMMA ThreadEndsStep ==
    ASSUME EngineInvariant, Hypotheses, NEW i \in Instance, ThreadEnds(i)
    PROVE  EngineInvariant'
  <1> DEFINE s == IF inst[i].cancelled THEN Stopped(inst[i]) ELSE inst[i]
             r == [s EXCEPT !.thread = "none"]
  <1>1. /\ s \in Inst
        /\ s.proc = IF inst[i].cancelled THEN "none" ELSE inst[i].proc
        /\ \A f \in {"used", "key", "managed", "cancelled", "start", "lock"} : s[f] = inst[i][f]
    BY AtInstance, StoppedRecord
  <1>2. inst' = [inst EXCEPT ![i] = r] BY DEF ThreadEnds
  <1> HIDE DEF s
  <1>3. /\ r \in Inst /\ r.thread = "none" /\ r.proc = s.proc
        /\ \A f \in {"used", "key", "managed", "cancelled", "start", "lock"} : r[f] = inst[i][f]
    BY <1>1 DEF Inst
  <1>4. inst'[i] = r BY <1>2, AtInstance
  <1>5. /\ inst[i].thread = "ending" /\ (inst[i].cancelled => inst[i].lock = Nobody)
        /\ reserved' = IF inst[i].cancelled THEN Released(i) ELSE reserved
        /\ UNCHANGED <<viewer, streams, pass, deleted, spent>>
    BY DEF ThreadEnds, Free
  <1>6. TypeOK BY DEF EngineInvariant
  <1>7. inst[i].cancelled => inst[i].start = "none"
    BY <1>5, AtInstance, NobodyAssumption DEF InstanceOK
  <1>8. inst[i].cancelled => reserved'[inst[i].key] # i BY <1>5, <1>6, ReleasedReservations
  <1> HIDE DEF r
  <1>9. InstanceOK(i)'
    <2>1. CASE inst[i].cancelled
      BY <1>1, <1>3, <1>4, <1>5, <1>7, <2>1, AtInstance DEF InstanceOK, Quiet, Registered
    <2>2. CASE ~inst[i].cancelled
      BY <1>1, <1>3, <1>4, <1>5, <2>2, AtInstance DEF InstanceOK, Quiet, Registered
    <2> QED BY <2>1, <2>2
  <1>10. reserved'[inst[i].key] = i => "transcode" \in {r.proc, r.start} \/ r.proc = "ended"
    BY <1>1, <1>3, <1>5, <1>8, AtInstance
  <1>11. reserved' = reserved \/ reserved' = Released(i) BY <1>5
  <1> QED BY <1>2, <1>3, <1>5, <1>9, <1>10, <1>11, AtInstance, InstanceStep

LEMMA ChooseModeStep ==
    ASSUME EngineInvariant, Hypotheses, NEW i \in Instance, ChooseMode(i)
    PROVE  EngineInvariant'
  <1>1. PICK r \in Inst :
            /\ inst' = [inst EXCEPT ![i] = r]
            /\ r.start \in {"none", "copy", "transcode"}
            /\ \A f \in {"used", "key", "managed", "cancelled", "proc", "thread", "lock"} :
                   r[f] = inst[i][f]
            /\ \/ reserved' = reserved /\ r.start # "transcode"
               \/ /\ MayReserve(i) /\ r.start = "transcode"
                  /\ reserved' = [reserved EXCEPT ![inst[i].key] = i]
    <2> DEFINE Chosen(m) == [inst[i] EXCEPT !.start = m]
               delayed == [Scheduled(inst[i]) EXCEPT !.start = "none"]
    <2>1. ASSUME NEW m \in {"none", "copy", "transcode"}
          PROVE  /\ Chosen(m) \in Inst /\ Chosen(m).start = m
                 /\ \A f \in {"used", "key", "managed", "cancelled", "proc", "thread", "lock"} :
                        Chosen(m)[f] = inst[i][f]
      BY AtInstance DEF Inst
    <2>2. /\ delayed \in Inst /\ delayed.start = "none"
          /\ \A f \in {"used", "key", "managed", "cancelled", "proc", "thread", "lock"} :
                 delayed[f] = inst[i][f]
      <3> DEFINE s == Scheduled(inst[i])
      <3>1. /\ s \in Inst
            /\ \A f \in {"used", "key", "managed", "cancelled", "proc", "thread", "lock"} :
                   s[f] = inst[i][f]
        BY AtInstance, ScheduledRecord
      <3> HIDE DEF s
      <3> QED BY <3>1 DEF Inst, s
    <2>3. \/ inst' = [inst EXCEPT ![i] = Chosen("none")] /\ reserved' = reserved
          \/ inst' = [inst EXCEPT ![i] = delayed] /\ reserved' = reserved
          \/ inst' = [inst EXCEPT ![i] = Chosen("copy")] /\ reserved' = reserved
          \/ /\ inst' = [inst EXCEPT ![i] = Chosen("transcode")]
             /\ MayReserve(i) /\ reserved' = [reserved EXCEPT ![inst[i].key] = i]
      BY DEF ChooseMode
    <2> HIDE DEF Chosen, delayed
    <2> QED BY <2>1, <2>2, <2>3
  <1>2. inst'[i] = r BY <1>1, AtInstance
  <1>3. inst[i].start = "probing" /\ UNCHANGED <<viewer, streams, pass, deleted, spent>>
    BY DEF ChooseMode
  <1>4. /\ inst[i].proc = "none" /\ Registered(i)
        /\ inst[i].lock = "thread" \/ (inst[i].lock \in Cleaner /\ pass[inst[i].lock].pc = "kept")
    BY <1>3, AtInstance DEF InstanceOK, Quiet
  <1>5. reserved'[inst[i].key] = i => "transcode" \in {r.proc, r.start} \/ r.proc = "ended"
    BY <1>1, <1>3, <1>4, AtInstance
  <1>6. r.start = "transcode" => reserved'[r.key] = i
    BY <1>1, AtInstance DEF EngineInvariant, TypeOK
  <1>7. InstanceOK(i)'
    BY <1>1, <1>2, <1>3, <1>4, <1>6, AtInstance DEF InstanceOK, Quiet, Registered
  <1>8. /\ r.key = inst[i].key /\ r.used = inst[i].used /\ r.managed = inst[i].managed
        /\ r.cancelled = inst[i].cancelled /\ r.lock = inst[i].lock
    BY <1>1
  <1>9. \/ reserved' = reserved
        \/ MayReserve(i) /\ reserved' = [reserved EXCEPT ![inst[i].key] = i]
    BY <1>1
  <1> QED BY <1>1, <1>3, <1>5, <1>7, <1>8, <1>9, AtInstance, InstanceStep

LEMMA SpawnStep ==
    ASSUME EngineInvariant, Hypotheses, NEW i \in Instance, Spawn(i)
    PROVE  EngineInvariant'
  <1>1. PICK r \in Inst :
            /\ inst' = [inst EXCEPT ![i] = r]
            /\ \A f \in {"used", "key", "managed", "cancelled", "thread", "lock"} :
                   r[f] = inst[i][f]
            /\ \/ r.proc = inst[i].start /\ r.start = "none" /\ reserved' = reserved
               \/ /\ r.proc = inst[i].proc /\ r.start \in {"none", "probing"}
                  /\ reserved' = Released(i)
    <2> DEFINE spawned == [inst[i] EXCEPT !.proc = inst[i].start, !.start = "none",
                                          !.retry = "none"]
               Failed(m) == [inst[i] EXCEPT !.start = m]
    <2>1. /\ spawned \in Inst /\ spawned.proc = inst[i].start /\ spawned.start = "none"
          /\ \A f \in {"used", "key", "managed", "cancelled", "thread", "lock"} :
                 spawned[f] = inst[i][f]
      <3> DEFINE m == inst[i].start
                 p == [inst[i] EXCEPT !.proc = m]
                 q == [p EXCEPT !.start = "none"]
      <3>1. inst[i] \in Inst /\ m \in {"copy", "transcode"} BY AtInstance DEF Spawn
      <3>2. spawned = [q EXCEPT !.retry = "none"] BY <3>1
      <3> HIDE DEF m
      <3>3. /\ p \in Inst /\ p.proc = m
            /\ \A f \in {"used", "key", "managed", "cancelled", "thread", "lock"} :
                   p[f] = inst[i][f]
        BY <3>1 DEF Inst
      <3> HIDE DEF p
      <3>4. /\ q \in Inst /\ q.proc = m /\ q.start = "none"
            /\ \A f \in {"used", "key", "managed", "cancelled", "thread", "lock"} :
                   q[f] = p[f]
        BY <3>3 DEF Inst
      <3> HIDE DEF q, spawned
      <3>5. /\ spawned \in Inst /\ spawned.proc = m /\ spawned.start = "none"
            /\ \A f \in {"used", "key", "managed", "cancelled", "thread", "lock"} :
                   spawned[f] = q[f]
        BY <3>2, <3>4 DEF Inst
      <3> QED BY <3>3, <3>4, <3>5 DEF m
    <2>2. ASSUME NEW m \in {"none", "probing"}
          PROVE  /\ Failed(m) \in Inst /\ Failed(m).start = m
                 /\ \A f \in {"used", "key", "managed", "cancelled", "thread", "lock", "proc"} :
                        Failed(m)[f] = inst[i][f]
      BY AtInstance DEF Inst
    <2>3. \/ inst' = [inst EXCEPT ![i] = spawned] /\ reserved' = reserved
          \/ inst' = [inst EXCEPT ![i] = Failed("probing")] /\ reserved' = Released(i)
          \/ inst' = [inst EXCEPT ![i] = Failed("none")] /\ reserved' = Released(i)
      BY AtInstance DEF Spawn
    <2> HIDE DEF spawned, Failed
    <2> QED BY <2>1, <2>2, <2>3
  <1>2. inst'[i] = r BY <1>1, AtInstance
  <1>3. /\ inst[i].start \in {"copy", "transcode"}
        /\ UNCHANGED <<viewer, streams, pass, deleted>>
        /\ spent' \in [exits : 0 .. MaxExits, stops : 0 .. MaxStops]
    BY AtInstance, BoundAssumption DEF Spawn
  <1>4. /\ inst[i].proc = "none" /\ Registered(i)
        /\ inst[i].lock = "thread" \/ (inst[i].lock \in Cleaner /\ pass[inst[i].lock].pc = "kept")
    BY <1>3, AtInstance DEF InstanceOK, Quiet
  <1>5. TypeOK BY DEF EngineInvariant
  <1>6. /\ r.key = inst[i].key /\ r.used = inst[i].used /\ r.managed = inst[i].managed
        /\ r.cancelled = inst[i].cancelled /\ r.lock = inst[i].lock /\ r.thread = inst[i].thread
    BY <1>1
  <1>7. CASE r.proc = inst[i].start /\ r.start = "none" /\ reserved' = reserved
    <2>1. inst[i].start = "transcode" => reserved[inst[i].key] = i BY AtInstance DEF InstanceOK
    <2>2. InstanceOK(i)'
      BY <1>2, <1>3, <1>4, <1>6, <1>7, <2>1, AtInstance DEF InstanceOK, Quiet, Registered
    <2>3. reserved'[inst[i].key] = i => "transcode" \in {r.proc, r.start} \/ r.proc = "ended"
      BY <1>4, <1>7, AtInstance
    <2> QED BY <1>1, <1>3, <1>6, <1>7, <2>2, <2>3, AtInstance, InstanceStep
  <1>8. CASE /\ r.proc = inst[i].proc /\ r.start \in {"none", "probing"}
             /\ reserved' = Released(i)
    <2>1. InstanceOK(i)'
      BY <1>2, <1>3, <1>4, <1>6, <1>8, AtInstance DEF InstanceOK, Quiet, Registered
    <2>2. reserved'[inst[i].key] # i BY <1>5, <1>8, ReleasedReservations
    <2> QED BY <1>1, <1>3, <1>6, <1>8, <2>1, <2>2, AtInstance, InstanceStep
  <1> QED BY <1>1, <1>7, <1>8


-----------------------------------------------------------------------------
(* The viewers.                                                            *)

LEMMA ViewerStep ==
    ASSUME EngineInvariant,
           UNCHANGED <<streams, inst, reserved, pass>>,
           viewer' \in [Viewer -> ViewerState], deleted' \subseteq Key,
           spent' \in [exits : 0 .. MaxExits, stops : 0 .. MaxStops],
           \A v \in Viewer : /\ viewer[v] = "closed" => viewer'[v] = "closed"
                             /\ viewer'[v] \in {"in", "gone"} => viewer[v] \in {"in", "gone"}
    PROVE  EngineInvariant'
  <1>1. TypeOK' BY DEF EngineInvariant, TypeOK
  <1>2. \A i \in Instance : InstanceOK(i)'
    BY DEF EngineInvariant, InstanceOK, Quiet, Registered
  <1>3. \A k \in Key : StreamOK(k)' /\ ReservationOK(k)'
    BY DEF EngineInvariant, StreamOK, ReservationOK
  <1>4. \A c \in Cleaner : PassOK(c)' BY DEF EngineInvariant, PassOK, Registered
  <1>5. WithinLimit' BY DEF EngineInvariant, WithinLimit, Reserving
  <1>6. \A k \in Key : CancelledOK(k)' BY DEF EngineInvariant, CancelledOK, Watched
  <1> QED BY <1>1, <1>2, <1>3, <1>4, <1>5, <1>6 DEF EngineInvariant

\* Viewers leave, and a start that nobody waits for any more is cancelled.
LEMMA CancelStep ==
    ASSUME EngineInvariant, Hypotheses, NEW i \in Instance, NEW r \in Inst,
           inst' = [inst EXCEPT ![i] = r],
           \A f \in {"used", "key", "managed", "proc", "start", "lock"} : r[f] = inst[i][f],
           \/ r.thread = inst[i].thread
           \/ inst[i].thread = "queued" /\ r.thread \in {"checked", "ending"},
           NEW k \in Key, k = inst[i].key,
           r.cancelled => inst[i].cancelled \/ (inst[i].used /\ ~Watched(k)'),
           UNCHANGED <<streams, reserved, pass>>,
           viewer' \in [Viewer -> ViewerState], deleted' \subseteq Key,
           spent' \in [exits : 0 .. MaxExits, stops : 0 .. MaxStops],
           \A v \in Viewer : viewer'[v] \in {viewer[v], "closed"}
    PROVE  EngineInvariant'
  <1>1. inst' \in [Instance -> Inst] /\ inst'[i] = r
        /\ \A j \in Instance : j # i => inst'[j] = inst[j]
    BY AtInstance
  <1>2. TypeOK' BY <1>1 DEF EngineInvariant, TypeOK
  <1>3. StreamOK(k) /\ ReservationOK(k) /\ CancelledOK(k) BY <1>1 DEF EngineInvariant
  <1>4. streams[k] \in Instance \cup {Nobody} /\ reserved[k] \in Instance \cup {Nobody}
    BY <1>1 DEF EngineInvariant, TypeOK
  <1>5. StreamOK(k)' BY <1>1, <1>3, <1>4 DEF StreamOK
  <1>6. CancelledOK(k)' BY <1>1, <1>3, <1>4 DEF CancelledOK, Watched
  <1>7. ReservationOK(k)' BY <1>1, <1>3, <1>4 DEF ReservationOK
  <1>8. InstanceOK(i)'
    BY <1>1, AtInstance DEF InstanceOK, Quiet, Registered
  <1>9. ASSUME NEW c \in Cleaner PROVE PassOK(c)'
    <2>1. PassOK(c) BY DEF EngineInvariant
    <2>2. \A j \in Instance : Registered(j)' = Registered(j) BY <1>1 DEF Registered
    <2>3. pass[c].todo \subseteq Instance BY DEF EngineInvariant, TypeOK, Pass
    <2>4. pass[c].at \in Instance =>
              /\ inst'[pass[c].at].lock = inst[pass[c].at].lock
              /\ inst'[pass[c].at].managed = inst[pass[c].at].managed
      BY <1>1
    <2>5. pass[c].pc \in Locking \cup {"idle", "dropping"} => pass[c].at \in Instance
      BY <2>1 DEF PassOK, Locking
    <2> QED BY <2>1, <2>2, <2>3, <2>4, <2>5 DEF PassOK, Locking
  <1>10. WithinLimit'
    <2>1. Reserving' = Reserving BY DEF Reserving
    <2> QED BY <2>1, LimitKept
  <1> QED BY <1>1, <1>2, <1>5, <1>6, <1>7, <1>8, <1>9, <1>10, Frame

LEMMA AdmitStep ==
    ASSUME EngineInvariant, NEW v \in Viewer, Admit(v) \/ LoseViewer(v)
    PROVE  EngineInvariant'
  BY ViewerStep DEF EngineInvariant, TypeOK, ViewerState, Admit, LoseViewer

LEMMA DeleteCameraStep ==
    ASSUME EngineInvariant, NEW k \in Key, DeleteCamera(k)
    PROVE  EngineInvariant'
  BY ViewerStep, BoundAssumption DEF EngineInvariant, TypeOK, ViewerState, DeleteCamera

\* Nobody watches a stream whose viewers were dismissed.
LEMMA UnwatchedViewers ==
    ASSUME TypeOK, NEW k \in Key, viewer' = Unwatch(k)
    PROVE  /\ viewer' \in [Viewer -> ViewerState]
           /\ \A v \in Viewer : viewer'[v] \in {viewer[v], "closed"}
           /\ ~Watched(k)'
  BY DEF TypeOK, ViewerState, Unwatch, Watched

LEMMA CloseViewerStep ==
    ASSUME EngineInvariant, Hypotheses, NEW v \in Viewer, CloseViewer(v)
    PROVE  EngineInvariant'
  <1> DEFINE i == streams[KeyOf[v]]
             last == \A w \in Viewer \ {v} :
                         KeyOf[w] = KeyOf[v] => viewer[w] \notin {"in", "gone"}
             r == [inst[i] EXCEPT !.idle = FALSE, !.cancelled = inst[i].cancelled \/ last]
  <1>1. viewer' \in [Viewer -> ViewerState] /\ KeyOf[v] \in Key
        /\ viewer' = [viewer EXCEPT ![v] = "closed"]
    BY KeyAssumption DEF EngineInvariant, TypeOK, ViewerState, CloseViewer
  <1>2. \A w \in Viewer : viewer'[w] \in {viewer[w], "closed"} BY <1>1
  <1>3. deleted' \subseteq Key /\ spent' \in [exits : 0 .. MaxExits, stops : 0 .. MaxStops]
        /\ UNCHANGED <<streams, reserved, pass>>
    BY DEF EngineInvariant, TypeOK, CloseViewer
  <1>4. CASE i = Nobody
    <2>1. inst' = inst BY <1>4 DEF CloseViewer
    <2> QED BY <1>1, <1>2, <1>3, <2>1, ViewerStep
  <1>5. CASE i # Nobody
    <2>1. StreamOK(KeyOf[v]) /\ i \in Instance
      BY <1>1, <1>5 DEF EngineInvariant, TypeOK
    <2>2. inst[i].used /\ inst[i].key = KeyOf[v] BY <2>1, <1>5 DEF StreamOK
    <2>3. inst' = [inst EXCEPT ![i] = r] BY <1>5, <2>1, AtInstance DEF CloseViewer
    <2> DEFINE g == inst[i].cancelled \/ last
    <2>4. g \in BOOLEAN /\ r = [inst[i] EXCEPT !.idle = FALSE, !.cancelled = g]
      OBVIOUS
    <2>5. g => inst[i].cancelled \/ ~Watched(KeyOf[v])' BY <1>1 DEF Watched
    <2> HIDE DEF i, g
    <2>6. /\ r \in Inst /\ r.cancelled = g
          /\ \A f \in {"used", "key", "managed", "proc", "start", "lock", "thread"} :
                 r[f] = inst[i][f]
      <3> DEFINE p == [inst[i] EXCEPT !.idle = FALSE]
      <3>1. /\ p \in Inst
            /\ \A f \in {"used", "key", "managed", "proc", "start", "lock", "thread"} :
                   p[f] = inst[i][f]
        BY <2>1, AtInstance DEF Inst
      <3>2. r = [p EXCEPT !.cancelled = g] BY <2>4
      <3> HIDE DEF p, r
      <3>3. g \in BOOLEAN BY <2>4
      <3>4. /\ r \in Inst /\ r.cancelled = g
            /\ \A f \in {"used", "key", "managed", "proc", "start", "lock", "thread"} :
                   r[f] = p[f]
        BY <3>1, <3>2, <3>3, CancelledRecord
      <3> QED BY <3>1, <3>4
    <2> HIDE DEF r
    <2> QED BY <1>1, <1>2, <1>3, <2>1, <2>2, <2>3, <2>5, <2>6, CancelStep
  <1> QED BY <1>4, <1>5

LEMMA StopStreamStep ==
    ASSUME EngineInvariant, Hypotheses, NEW k \in Key, StopStream(k)
    PROVE  EngineInvariant'
  <1> DEFINE i == streams[k]
             r == [inst[i] EXCEPT !.cancelled = TRUE, !.halt = TRUE]
  <1>1. StreamOK(k) /\ i \in Instance /\ TypeOK
    BY DEF StopStream, EngineInvariant, TypeOK
  <1>2. inst[i].used /\ inst[i].key = k BY <1>1, AtInstance DEF StreamOK
  <1>3. inst' = [inst EXCEPT ![i] = r] BY <1>1, AtInstance DEF StopStream
  <1>4. /\ r \in Inst
        /\ \A f \in {"used", "key", "managed", "proc", "start", "lock", "thread"} :
               r[f] = inst[i][f]
    <2> DEFINE p == [inst[i] EXCEPT !.cancelled = TRUE]
    <2>1. /\ p \in Inst
          /\ \A f \in {"used", "key", "managed", "proc", "start", "lock", "thread"} :
                 p[f] = inst[i][f]
      <3> DEFINE yes == TRUE
      <3>1. inst[i] \in Inst BY <1>1, AtInstance
      <3>2. yes \in BOOLEAN OBVIOUS
      <3>3. p = [inst[i] EXCEPT !.cancelled = yes] OBVIOUS
      <3> HIDE DEF p, yes
      <3> QED BY <3>1, <3>2, <3>3, CancelledRecord
    <2>2. r = [p EXCEPT !.halt = TRUE] OBVIOUS
    <2> HIDE DEF p, r
    <2> QED BY <2>1, <2>2, HaltingRecord
  <1>5. /\ deleted' \subseteq Key /\ UNCHANGED <<streams, reserved, pass>>
        /\ spent' \in [exits : 0 .. MaxExits, stops : 0 .. MaxStops] /\ viewer' = Unwatch(k)
    BY BoundAssumption DEF EngineInvariant, TypeOK, StopStream
  <1>6. ~Watched(k)' BY <1>1, <1>5, UnwatchedViewers
  <1> HIDE DEF i, r
  <1> QED BY <1>1, <1>2, <1>3, <1>4, <1>5, <1>6, UnwatchedViewers, CancelStep

LEMMA ThreadCheckStep ==
    ASSUME EngineInvariant, Hypotheses, NEW i \in Instance, ThreadCheck(i)
    PROVE  EngineInvariant'
  <1> PICK k \in Key : k = inst[i].key BY AtInstance
  <1> DEFINE Goes(t) == [inst[i] EXCEPT !.thread = t]
             r == [inst[i] EXCEPT !.thread = "ending", !.cancelled = TRUE, !.halt = TRUE]
  <1>1. inst[i].thread = "queued" /\ UNCHANGED <<streams, reserved, pass, deleted, spent>>
    BY DEF ThreadCheck
  <1>2. deleted' \subseteq Key /\ spent' \in [exits : 0 .. MaxExits, stops : 0 .. MaxStops]
        /\ viewer \in [Viewer -> ViewerState] /\ TypeOK
    BY <1>1 DEF EngineInvariant, TypeOK
  <1>3. ASSUME NEW t \in {"checked", "ending"}, viewer' = viewer,
               inst' = [inst EXCEPT ![i] = Goes(t)]
        PROVE  EngineInvariant'
    <2>1. /\ Goes(t) \in Inst /\ Goes(t).thread = t
          /\ \A f \in {"used", "key", "managed", "proc", "start", "lock", "cancelled"} :
                 Goes(t)[f] = inst[i][f]
      BY AtInstance DEF Inst
    <2> HIDE DEF Goes
    <2> QED BY <1>1, <1>2, <1>3, <2>1, CancelStep
  <1>4. ASSUME viewer' = Unwatch(k), inst' = [inst EXCEPT ![i] = r], streams[k] = i
        PROVE  EngineInvariant'
    <2>1. /\ r \in Inst /\ r.thread = "ending"
          /\ \A f \in {"used", "key", "managed", "proc", "start", "lock"} :
                 r[f] = inst[i][f]
      <3> DEFINE p == [inst[i] EXCEPT !.thread = "ending"]
                 q == [p EXCEPT !.cancelled = TRUE]
      <3>1. /\ p \in Inst /\ p.thread = "ending"
            /\ \A f \in {"used", "key", "managed", "proc", "start", "lock"} :
                   p[f] = inst[i][f]
        BY AtInstance DEF Inst
      <3>2. r = [q EXCEPT !.halt = TRUE] OBVIOUS
      <3> HIDE DEF p
      <3>3. /\ q \in Inst /\ q.thread = "ending"
            /\ \A f \in {"used", "key", "managed", "proc", "start", "lock"} :
                   q[f] = inst[i][f]
        <4> DEFINE yes == TRUE
        <4>1. yes \in BOOLEAN OBVIOUS
        <4>2. q = [p EXCEPT !.cancelled = yes] OBVIOUS
        <4> HIDE DEF q, yes
        <4> QED BY <3>1, <4>1, <4>2, CancelledRecord
      <3> HIDE DEF q, r
      <3> QED BY <3>2, <3>3, HaltingRecord
    <2>2. StreamOK(k) BY DEF EngineInvariant
    <2>3. inst[i].used BY <1>4, <2>2, AtInstance DEF StreamOK
    <2>4. ~Watched(k)' BY <1>2, <1>4, UnwatchedViewers
    <2> HIDE DEF r
    <2> QED BY <1>1, <1>2, <1>4, <2>1, <2>2, <2>3, <2>4, UnwatchedViewers, CancelStep
  <1>5. \/ viewer' = viewer /\ inst' = [inst EXCEPT ![i] = Goes("checked")]
        \/ viewer' = viewer /\ inst' = [inst EXCEPT ![i] = Goes("ending")]
        \/ viewer' = Unwatch(k) /\ inst' = [inst EXCEPT ![i] = r] /\ streams[k] = i
    BY AtInstance DEF ThreadCheck, KeyOfInst
  <1> QED BY <1>3, <1>4, <1>5

\* The stream of a viewer who comes, or of a playlist, is registered if it is not.
LEMMA RegistersEffect ==
    ASSUME EngineInvariant, NEW i \in Instance, NEW k \in Key, Registers(i, k)
    PROVE  /\ streams' \in [Key -> Instance \cup {Nobody}] /\ streams'[k] = i
           /\ \A l \in Key : l # k => streams'[l] = streams[l]
           /\ streams[k] \in {i, Nobody} /\ inst[i].key = k
           /\ streams[k] = i \/ ~inst[i].used
           /\ \A j \in Instance : Registered(j) => streams'[inst[j].key] = j
  <1>1. StreamOK(k) BY DEF EngineInvariant
  <1>2. streams \in [Key -> Instance \cup {Nobody}] /\ \A j \in Instance : inst[j].key \in Key
    BY DEF EngineInvariant, TypeOK, Inst
  <1>3. i # Nobody BY NobodyAssumption
  <1> QED BY <1>1, <1>2, <1>3, NobodyAssumption DEF Registers, StreamOK, Registered

\* What a pass has listed is still what it was after a registration.
LEMMA RegistersPass ==
    ASSUME EngineInvariant, NEW i \in Instance, NEW k \in Key, Registers(i, k),
           pass' = pass, NEW c \in Cleaner,
           \A j \in Instance : /\ inst'[j].key = inst[j].key /\ inst'[j].lock = inst[j].lock
                               /\ (Registered(j) /\ ~inst[j].managed => ~inst'[j].managed)
    PROVE  PassOK(c)'
  <1>1. PassOK(c) /\ pass[c].todo \subseteq Instance BY DEF EngineInvariant, TypeOK, Pass
  <1>2. \A j \in Instance : Registered(j) => Registered(j)'
    BY RegistersEffect DEF Registered
  <1>3. /\ pass[c].pc \notin {"off", "next"} =>
               pass[c].at \in Instance /\ Registered(pass[c].at)
        /\ pass[c].pc \in Locking \cup {"idle", "dropping"} =>
               pass[c].pc \notin {"off", "next"}
    BY <1>1 DEF PassOK, Locking
  <1> QED BY <1>1, <1>2, <1>3 DEF PassOK, Locking

LEMMA OpenViewerStep ==
    ASSUME EngineInvariant, Hypotheses, NEW v \in Viewer, NEW i \in Instance,
           OpenViewer(v, i)
    PROVE  EngineInvariant'
  <1> PICK k \in Key : k = KeyOf[v] BY KeyAssumption
  <1> DEFINE o == [inst[i] EXCEPT !.used = TRUE, !.managed = TRUE, !.cancelled = FALSE,
                                  !.idle = FALSE]
             r == Launched(o)
  <1>1. /\ viewer[v] = "admitted" /\ Registers(i, k)
        /\ viewer' = [viewer EXCEPT ![v] = "in"]
        /\ inst' = [inst EXCEPT ![i] = r]
        /\ UNCHANGED <<reserved, pass, deleted, spent>>
    BY DEF OpenViewer
  <1>2. /\ o \in Inst /\ o.used /\ o.managed /\ ~o.cancelled
        /\ \A f \in {"key", "proc", "thread", "start", "lock"} : o[f] = inst[i][f]
    <2> DEFINE p == [inst[i] EXCEPT !.used = TRUE]
               q == [p EXCEPT !.managed = TRUE]
               s == [q EXCEPT !.cancelled = FALSE]
    <2>1. /\ p \in Inst /\ p.used
          /\ \A f \in {"key", "proc", "thread", "start", "lock"} : p[f] = inst[i][f]
      <3>1. inst[i] \in Inst BY AtInstance
      <3> QED BY <3>1 DEF Inst
    <2>2. o = [s EXCEPT !.idle = FALSE] OBVIOUS
    <2> HIDE DEF p
    <2>3. /\ q \in Inst /\ q.used /\ q.managed
          /\ \A f \in {"key", "proc", "thread", "start", "lock"} : q[f] = p[f]
      BY <2>1 DEF Inst
    <2> HIDE DEF q
    <2>4. /\ s \in Inst /\ s.used /\ s.managed /\ ~s.cancelled
          /\ \A f \in {"key", "proc", "thread", "start", "lock"} : s[f] = q[f]
      BY <2>3 DEF Inst
    <2> HIDE DEF s, o
    <2>5. /\ o \in Inst /\ o.used /\ o.managed /\ ~o.cancelled
          /\ \A f \in {"key", "proc", "thread", "start", "lock"} : o[f] = s[f]
      BY <2>2, <2>4 DEF Inst
    <2> QED BY <2>1, <2>3, <2>4, <2>5
  <1> HIDE DEF o
  <1>3. /\ r \in Inst /\ r.used /\ r.managed /\ ~r.cancelled
        /\ \A f \in {"key", "proc", "start", "lock"} : r[f] = inst[i][f]
        /\ r.thread = inst[i].thread \/ (inst[i].thread = "none" /\ r.thread = "queued")
    <2>1. r \in Inst /\ \A f \in {"used", "key", "managed", "proc", "start", "lock"} : r[f] = o[f]
      <3>1. o \in Inst BY <1>2
      <3>2. r \in Inst BY <3>1, LaunchedRecord
      <3>3. \A f \in {"used", "key", "managed", "proc", "idle", "start", "halt", "lock"} : r[f] = o[f]
        BY <3>1, LaunchedRecord
      <3> QED BY <3>2, <3>3
    <2>2. r.cancelled => o.cancelled BY <1>2, LaunchedRecord
    <2>3. r = o \/ (o.thread = "none" /\ r.thread = "queued") BY <1>2, LaunchedRecord
    <2> HIDE DEF r
    <2>4. r.used /\ r.managed BY <1>2, <2>1
    <2>5. ~r.cancelled BY <1>2, <2>2
    <2>6. r.thread = inst[i].thread \/ (inst[i].thread = "none" /\ r.thread = "queued")
      BY <1>2, <2>3
    <2>7. \A f \in {"key", "proc", "start", "lock"} : r[f] = inst[i][f] BY <1>2, <2>1
    <2> QED BY <2>1, <2>4, <2>5, <2>6, <2>7
  <1> HIDE DEF r
  <1>4. /\ inst' \in [Instance -> Inst] /\ inst'[i] = r
        /\ \A j \in Instance : j # i => inst'[j] = inst[j]
    BY <1>1, <1>3, AtInstance
  <1>5. /\ streams' \in [Key -> Instance \cup {Nobody}] /\ streams'[k] = i
        /\ \A l \in Key : l # k => streams'[l] = streams[l]
        /\ streams[k] \in {i, Nobody} /\ inst[i].key = k
    BY <1>1, RegistersEffect
  <1>6. viewer \in [Viewer -> ViewerState] BY DEF EngineInvariant, TypeOK
  <1>7. TypeOK' BY <1>1, <1>4, <1>5, <1>6 DEF EngineInvariant, TypeOK, ViewerState
  <1>8. InstanceOK(i)'
    BY <1>1, <1>3, <1>4, <1>5, AtInstance DEF InstanceOK, Quiet, Registered
  <1>9. StreamOK(k)' /\ CancelledOK(k)'
    BY <1>3, <1>4, <1>5 DEF StreamOK, CancelledOK
  <1>10. ReservationOK(k)'
    <2>1. ReservationOK(k) /\ reserved[k] \in Instance \cup {Nobody}
      BY DEF EngineInvariant, TypeOK
    <2> QED BY <2>1, <1>1, <1>3, <1>4 DEF ReservationOK
  <1>11. Registered(i) => inst[i].managed
    <2>1. StreamOK(k) /\ KeyOf[v] = k BY DEF EngineInvariant
    <2>2. i # Nobody /\ viewer[v] # "closed" BY <1>1, NobodyAssumption
    <2> QED BY <1>5, <2>1, <2>2 DEF StreamOK, Registered
  <1>12. \A j \in Instance : /\ inst'[j].key = inst[j].key /\ inst'[j].lock = inst[j].lock
                             /\ (Registered(j) /\ ~inst[j].managed => ~inst'[j].managed)
    BY <1>3, <1>4, <1>11
  <1>13. \A c \in Cleaner : PassOK(c)' BY <1>1, <1>12, RegistersPass
  <1>14. WithinLimit'
    <2>1. Reserving' = Reserving BY <1>1 DEF Reserving
    <2> QED BY <2>1, LimitKept
  <1>15. \A w \in Viewer : KeyOf[w] # k => viewer'[w] \in {viewer[w], "closed"}
    BY <1>1, <1>6
  <1> QED BY <1>1, <1>3, <1>4, <1>5, <1>7, <1>8, <1>9, <1>10, <1>13, <1>14, <1>15, Frame

LEMMA PollPlaylistStep ==
    ASSUME EngineInvariant, Hypotheses, NEW k \in Key, NEW i \in Instance,
           PollPlaylist(k, i)
    PROVE  EngineInvariant'
  <1> DEFINE r == [inst[i] EXCEPT !.used = TRUE]
  <1>1. /\ \A v \in Viewer : KeyOf[v] = k => viewer[v] = "closed"
        /\ streams[k] = Nobody /\ Registers(i, k)
        /\ inst' = [inst EXCEPT ![i] = r]
        /\ UNCHANGED <<viewer, reserved, pass, deleted, spent>>
    BY DEF PollPlaylist, Hypotheses
  <1>2. /\ r \in Inst /\ r.used
        /\ \A f \in {"key", "managed", "cancelled", "proc", "start", "thread", "lock"} :
               r[f] = inst[i][f]
    <2>1. inst[i] \in Inst BY AtInstance
    <2> QED BY <2>1 DEF Inst
  <1> HIDE DEF r
  <1>3. /\ inst' \in [Instance -> Inst] /\ inst'[i] = r
        /\ \A j \in Instance : j # i => inst'[j] = inst[j]
    BY <1>1, <1>2, AtInstance
  <1>4. /\ streams' \in [Key -> Instance \cup {Nobody}] /\ streams'[k] = i
        /\ \A l \in Key : l # k => streams'[l] = streams[l]
        /\ streams[k] \in {i, Nobody} /\ inst[i].key = k
        /\ ~inst[i].used
    BY <1>1, RegistersEffect, NobodyAssumption
  <1>5. TypeOK' BY <1>1, <1>3, <1>4 DEF EngineInvariant, TypeOK
  <1>6. InstanceOK(i)'
    BY <1>1, <1>2, <1>3, <1>4, AtInstance DEF InstanceOK, Quiet, Registered
  <1>7. StreamOK(k)' BY <1>1, <1>2, <1>3, <1>4 DEF StreamOK
  <1>8. CancelledOK(k)' BY <1>1 DEF CancelledOK, Watched
  <1>9. ReservationOK(k)'
    <2>1. ReservationOK(k) /\ reserved[k] \in Instance \cup {Nobody}
      BY DEF EngineInvariant, TypeOK
    <2> QED BY <2>1, <1>1, <1>2, <1>3 DEF ReservationOK
  <1>10. \A j \in Instance : /\ inst'[j].key = inst[j].key /\ inst'[j].lock = inst[j].lock
                             /\ (Registered(j) /\ ~inst[j].managed => ~inst'[j].managed)
    BY <1>2, <1>3
  <1>11. \A c \in Cleaner : PassOK(c)' BY <1>1, <1>10, RegistersPass
  <1>12. WithinLimit'
    <2>1. Reserving' = Reserving BY <1>1 DEF Reserving
    <2> QED BY <2>1, LimitKept
  <1> QED BY <1>1, <1>2, <1>3, <1>4, <1>5, <1>6, <1>7, <1>8, <1>9, <1>11, <1>12, Frame

-----------------------------------------------------------------------------
(* The cleanup pass.                                                       *)

\* A pass that has no instance locked goes on: to the next one, or to its end.
LEMMA TurnStep ==
    ASSUME EngineInvariant, Hypotheses, NEW c \in Cleaner, NEW p \in Pass,
           pass[c].pc \notin Locking, p.pc \notin Locking,
           pass' = [pass EXCEPT ![c] = p],
           UNCHANGED <<streams, inst, reserved, deleted, spent>>,
           viewer' \in [Viewer -> ViewerState],
           \A v \in Viewer : viewer'[v] \in {viewer[v], "closed"},
           PassOK(c)'
    PROVE  EngineInvariant'
  <1>1. pass' \in [Cleaner -> Pass] /\ \A d \in Cleaner : d = c
    BY DEF EngineInvariant, TypeOK, Hypotheses, OnePass
  <1>2. TypeOK' BY <1>1 DEF EngineInvariant, TypeOK
  <1>3. ASSUME NEW i \in Instance PROVE InstanceOK(i)'
    <2>1. InstanceOK(i) BY DEF EngineInvariant
    <2>2. inst[i].lock \notin Cleaner BY <1>1, <2>1 DEF InstanceOK
    <2> QED BY <2>1, <2>2 DEF InstanceOK, Quiet, Registered
  <1>4. ASSUME NEW k \in Key PROVE StreamOK(k)' /\ ReservationOK(k)' /\ CancelledOK(k)'
    <2>1. StreamOK(k) /\ ReservationOK(k) /\ CancelledOK(k) BY DEF EngineInvariant
    <2>2. StreamOK(k)' /\ ReservationOK(k)' BY <2>1 DEF StreamOK, ReservationOK
    <2>3. Watched(k)' => Watched(k) BY DEF Watched
    <2>4. \A d \in Cleaner : pass[d].pc # "stopping" BY <1>1 DEF Locking
    <2>5. CancelledOK(k)' BY <2>1, <2>3, <2>4 DEF CancelledOK
    <2> QED BY <2>2, <2>5
  <1>5. \A d \in Cleaner : PassOK(d)' BY <1>1
  <1>6. WithinLimit' BY DEF EngineInvariant, WithinLimit, Reserving
  <1> QED BY <1>2, <1>3, <1>4, <1>5, <1>6 DEF EngineInvariant

LEMMA CleanStartStep ==
    ASSUME EngineInvariant, Hypotheses, NEW c \in Cleaner, CleanStart(c)
    PROVE  EngineInvariant'
  <1> DEFINE listed == {streams[k] : k \in Key} \ {Nobody}
             p == [PassOff EXCEPT !.pc = "next", !.todo = listed]
  <1>1. streams \in [Key -> Instance \cup {Nobody}] /\ pass \in [Cleaner -> Pass]
        /\ viewer \in [Viewer -> ViewerState]
    BY DEF EngineInvariant, TypeOK
  <1>2. listed \subseteq Instance BY <1>1
  <1>3. p \in Pass /\ p.pc = "next" /\ p.todo = listed
    <2> DEFINE q == [PassOff EXCEPT !.pc = "next"]
    <2>1. q \in Pass /\ q.pc = "next" BY DEF PassOff, Pass
    <2>2. p = [q EXCEPT !.todo = listed] OBVIOUS
    <2> HIDE DEF q, p, listed
    <2> QED BY <1>2, <2>1, <2>2 DEF Pass
  <1>5. /\ pass[c].pc = "off" /\ pass' = [pass EXCEPT ![c] = p]
        /\ viewer' = [v \in Viewer |-> IF viewer[v] = "gone" THEN "closed" ELSE viewer[v]]
        /\ UNCHANGED <<streams, inst, reserved, deleted, spent>>
    BY DEF CleanStart
  <1>6. viewer' \in [Viewer -> ViewerState]
        /\ \A v \in Viewer : viewer'[v] \in {viewer[v], "closed"}
    BY <1>1, <1>5 DEF ViewerState
  <1>7. \A k \in Key : streams[k] # Nobody => inst[streams[k]].key = k
    BY DEF EngineInvariant, StreamOK
  <1>8. \A i \in p.todo : Registered(i)' BY <1>3, <1>5, <1>7 DEF Registered
  <1>9. pass'[c] = p /\ p.pc = "next" BY <1>1, <1>3, <1>5
  <1> HIDE DEF p
  <1>10. PassOK(c)' BY <1>8, <1>9 DEF PassOK, Locking
  <1> QED BY <1>3, <1>5, <1>6, <1>9, <1>10, TurnStep DEF Locking

LEMMA CleanEndStep ==
    ASSUME EngineInvariant, Hypotheses, NEW c \in Cleaner, CleanEnd(c)
    PROVE  EngineInvariant'
  <1>1. PassOff \in Pass /\ PassOff.pc = "off" /\ PassOff.todo = {} BY DEF PassOff, Pass
  <1>2. /\ pass[c].pc = "next" /\ pass' = [pass EXCEPT ![c] = PassOff]
        /\ UNCHANGED <<viewer, streams, inst, reserved, deleted, spent>>
    BY DEF CleanEnd
  <1>3. pass \in [Cleaner -> Pass] /\ viewer \in [Viewer -> ViewerState]
    BY DEF EngineInvariant, TypeOK
  <1>4. PassOK(c)' BY <1>1, <1>2, <1>3 DEF PassOK, Locking
  <1> QED BY <1>1, <1>2, <1>3, <1>4, TurnStep DEF Locking

LEMMA CleanCountStep ==
    ASSUME EngineInvariant, Hypotheses, NEW c \in Cleaner, NEW i \in Instance,
           CleanCount(c, i)
    PROVE  EngineInvariant'
  <1> DEFINE p == [pc |-> "counted", todo |-> pass[c].todo \ {i}, at |-> i,
                   seen |-> Watched(KeyOfInst(i))]
  <1>1. pass \in [Cleaner -> Pass] /\ viewer \in [Viewer -> ViewerState] /\ PassOK(c)
    BY DEF EngineInvariant, TypeOK
  <1>2. Watched(KeyOfInst(i)) \in BOOLEAN BY DEF Watched
  <1>3. p \in Pass BY <1>1, <1>2 DEF Pass
  <1>4. /\ pass[c].pc = "next" /\ i \in pass[c].todo /\ pass' = [pass EXCEPT ![c] = p]
        /\ UNCHANGED <<viewer, streams, inst, reserved, deleted, spent>>
    BY <1>1 DEF CleanCount
  <1>5. pass'[c] = p BY <1>1, <1>4
  <1>6. PassOK(c)' BY <1>1, <1>4, <1>5 DEF PassOK, Registered, Locking
  <1>7. p.pc = "counted" OBVIOUS
  <1> HIDE DEF p
  <1> QED BY <1>1, <1>3, <1>4, <1>6, <1>7, TurnStep DEF Locking

\* CleanSkip and CleanIdle: nothing but where the pass stands.
LEMMA PassToStep ==
    ASSUME EngineInvariant, Hypotheses, NEW c \in Cleaner, CleanSkip(c) \/ CleanIdle(c)
    PROVE  EngineInvariant'
  <1>1. pass \in [Cleaner -> Pass] /\ viewer \in [Viewer -> ViewerState] /\ PassOK(c)
    BY DEF EngineInvariant, TypeOK
  <1>2. PICK pc \in {"next", "dropping"} :
            /\ PassTo(c, pc) /\ pass[c].pc \in {"counted", "idle"}
            /\ pc = "dropping" => pass[c].pc = "idle"
            /\ UNCHANGED <<viewer, streams, inst, reserved, deleted, spent>>
    BY DEF CleanSkip, CleanIdle
  <1> DEFINE p == [pass[c] EXCEPT !.pc = pc]
  <1>3. /\ p \in Pass /\ p.pc = pc /\ p.todo = pass[c].todo /\ p.at = pass[c].at
        /\ p.seen = pass[c].seen
    BY <1>1 DEF Pass
  <1>4. pass' = [pass EXCEPT ![c] = p] /\ pass'[c] = p BY <1>1, <1>2 DEF PassTo
  <1> HIDE DEF p
  <1>5. PassOK(c)' BY <1>1, <1>2, <1>3, <1>4 DEF PassOK, Registered, Locking
  <1> QED BY <1>1, <1>2, <1>3, <1>4, <1>5, TurnStep DEF Locking

\* A step at the instance the pass has in hand, which may also be dropped.
LEMMA WorkStep ==
    ASSUME EngineInvariant, Hypotheses, NEW c \in Cleaner, NEW i \in Instance,
           i = pass[c].at, pass[c].pc \notin {"off", "next"},
           NEW r \in Inst, inst' = [inst EXCEPT ![i] = r],
           r.key = inst[i].key, r.used = inst[i].used, r.managed = inst[i].managed,
           NEW pc \in {"next", "locked", "stopping", "kept", "launch", "idle"},
           PassTo(c, pc),
           UNCHANGED <<viewer, deleted, spent>>,
           \/ streams' = streams
           \/ streams' = [streams EXCEPT ![inst[i].key] = Nobody] /\ pc = "next",
           reserved' = reserved \/ reserved' = Released(i),
           reserved'[inst[i].key] = i =>
               "transcode" \in {r.proc, r.start} \/ r.proc = "ended",
           r.cancelled /\ Watched(inst[i].key) =>
               pc = "stopping" \/ (inst[i].cancelled /\ pass[c].pc # "stopping"),
           pc \in Locking => r.lock = c,
           pc = "idle" \/ (pc \in {"locked", "kept"} /\ ~pass[c].seen) => ~r.managed,
           InstanceOK(i)'
    PROVE  EngineInvariant'
  <1>1. /\ inst \in [Instance -> Inst] /\ streams \in [Key -> Instance \cup {Nobody}]
        /\ pass \in [Cleaner -> Pass] /\ reserved \in [Key -> Instance \cup {Nobody}]
        /\ \A d \in Cleaner : d = c
    BY DEF EngineInvariant, TypeOK, Hypotheses, OnePass
  <1>2. PICK k \in Key : k = inst[i].key BY <1>1 DEF Inst
  <1>3. StreamOK(k) /\ ReservationOK(k) /\ CancelledOK(k) /\ PassOK(c)
    BY DEF EngineInvariant
  <1>4. streams[k] = i /\ i \notin pass[c].todo BY <1>2, <1>3 DEF PassOK, Registered
  <1>5. inst' \in [Instance -> Inst] /\ inst'[i] = r
        /\ \A j \in Instance : j # i => inst'[j] = inst[j]
    BY <1>1
  <1>6. /\ streams' \in [Key -> Instance \cup {Nobody}] /\ streams'[k] \in {i, Nobody}
        /\ \A l \in Key : l # k => streams'[l] = streams[l]
    BY <1>1, <1>2, <1>4
  <1>7. /\ reserved' \in [Key -> Instance \cup {Nobody}]
        /\ \A l \in Key : l # k => reserved'[l] = reserved[l]
        /\ reserved'[k] # reserved[k] => reserved[k] = i /\ reserved'[k] = Nobody
        /\ Reserving' \subseteq Reserving
    <2>1. CASE reserved' = reserved BY <1>1, <2>1 DEF Reserving
    <2>2. CASE reserved' = Released(i)
      BY <1>2, <2>2, ReleasedReservations DEF EngineInvariant
    <2> QED BY <2>1, <2>2
  <1>8. /\ pass' \in [Cleaner -> Pass] /\ pass'[c].pc = pc /\ pass'[c].todo = pass[c].todo
        /\ pass'[c].at = i /\ pass'[c].seen = pass[c].seen
    BY <1>1 DEF PassTo, Pass
  <1>9. TypeOK' BY <1>5, <1>6, <1>7, <1>8 DEF EngineInvariant, TypeOK
  <1>10. StreamOK(k)' BY <1>2, <1>3, <1>4, <1>5, <1>6 DEF StreamOK
  <1>11. ReservationOK(k)'
    <2>1. CASE reserved'[k] = i BY <1>2, <1>5, <2>1 DEF ReservationOK
    <2>2. CASE reserved'[k] # i /\ reserved'[k] # Nobody
      <3>1. reserved'[k] = reserved[k] /\ reserved[k] \in Instance BY <1>1, <1>7, <2>2
      <3> QED BY <1>3, <1>5, <2>2, <3>1 DEF ReservationOK
    <2>3. CASE reserved'[k] = Nobody BY <2>3 DEF ReservationOK
    <2> QED BY <2>1, <2>2, <2>3
  <1>12. CancelledOK(k)'
    <2>1. SUFFICES ASSUME Watched(k), streams'[k] = i, r.cancelled
                   PROVE  pass'[c].pc = "stopping"
      BY <1>5, <1>6, <1>8 DEF CancelledOK, Watched
    <2>2. CASE pc = "stopping" BY <2>2, <1>8
    <2>3. CASE inst[i].cancelled /\ pass[c].pc # "stopping"
      BY <2>1, <2>3, <1>1, <1>3, <1>4, NobodyAssumption DEF CancelledOK
    <2> QED BY <1>2, <2>1, <2>2, <2>3
  <1>13. PassOK(c)'
    <2>1. ASSUME NEW j \in pass[c].todo PROVE Registered(j)'
      <3>1. j \in Instance /\ Registered(j) /\ j # i
        BY <1>1, <1>3, <1>4, <2>1 DEF PassOK, Pass
      <3>2. inst'[j] = inst[j] /\ inst[j].key \in Key /\ inst[j].key # k
        BY <1>1, <1>4, <1>5, <3>1 DEF Registered, Inst
      <3> QED BY <1>6, <3>1, <3>2 DEF Registered
    <2>2. pc # "next" => Registered(i)' BY <1>2, <1>4, <1>5 DEF Registered
    <2> QED BY <1>4, <1>5, <1>8, <2>1, <2>2 DEF PassOK, Locking
  <1>14. \A d \in Cleaner : PassOK(d)' BY <1>1, <1>13
  <1>15. \A d \in Cleaner : pass'[d] # pass[d] => pass[d].at = i BY <1>1
  <1>16. WithinLimit' BY <1>7, LimitKept
  <1>17. \A v \in Viewer : viewer'[v] = viewer[v] OBVIOUS
  <1> QED BY <1>2, <1>4, <1>5, <1>6, <1>7, <1>9, <1>10, <1>11, <1>12, <1>14, <1>15, <1>16,
             <1>17, Frame

LEMMA CleanLockStep ==
    ASSUME EngineInvariant, Hypotheses, NEW c \in Cleaner, CleanLock(c)
    PROVE  EngineInvariant'
  <1> pass[c].pc = "counted" BY DEF CleanLock
  <1> PassOK(c) BY DEF EngineInvariant
  <1> PICK i \in Instance : i = pass[c].at BY DEF PassOK
  <1> DEFINE unwatched == inst[i].managed /\ ~pass[c].seen
             p == [inst[i] EXCEPT !.lock = c]
             g == inst[i].cancelled \/ unwatched
             r == [p EXCEPT !.cancelled = g]
             pc == IF unwatched THEN "stopping" ELSE "locked"
  <1>1. /\ pass[c].pc = "counted" /\ inst[i].lock = Nobody /\ PassTo(c, pc)
        /\ UNCHANGED <<viewer, streams, reserved, deleted, spent>>
    BY DEF CleanLock, Free, At
  <1>3. i \in Instance /\ Registered(i) BY DEF PassOK
  <1>4. inst' = [inst EXCEPT ![i] = r] BY <1>3, AtInstance DEF CleanLock, At
  <1>5. inst[i] \in Inst BY <1>3, AtInstance
  <1>6. /\ p \in Inst /\ p.lock = c
        /\ \A f \in {"used", "key", "managed", "cancelled", "proc", "thread", "start"} :
               p[f] = inst[i][f]
    BY <1>5 DEF Inst
  <1>7. g \in BOOLEAN OBVIOUS
  <1>8. pc \in {"locked", "stopping"} /\ (unwatched <=> pc = "stopping") OBVIOUS
  <1> HIDE DEF p, g
  <1>9. /\ r \in Inst /\ r.lock = c /\ r.cancelled = g
        /\ \A f \in {"used", "key", "managed", "proc", "thread", "start"} : r[f] = inst[i][f]
    <2> HIDE DEF r
    <2>1. r = [p EXCEPT !.cancelled = g] BY DEF r
    <2>2. /\ r \in Inst /\ r.cancelled = g
          /\ \A f \in {"used", "key", "managed", "proc", "thread", "start", "lock"} : r[f] = p[f]
      BY <1>6, <1>7, <2>1, CancelledRecord
    <2> QED BY <1>6, <2>2
  <1> HIDE DEF r, pc
  <1>10. pass'[c].pc = pc /\ pass'[c].at = i
    <2>1. pass \in [Cleaner -> Pass] BY DEF EngineInvariant, TypeOK
    <2> QED BY <1>1, <2>1 DEF PassTo, Pass
  <1>11. inst'[i] = r BY <1>3, <1>4, AtInstance
  <1>12. InstanceOK(i)
    BY <1>3, AtInstance
  <1>13. (g => inst[i].cancelled \/ unwatched) /\ (unwatched => inst[i].managed) BY DEF g
  <1> HIDE DEF unwatched
  <1>14. InstanceOK(i)'
    <2>1. inst[i].start = "none" /\ inst[i].thread # "starting"
      BY <1>1, <1>12, NobodyAssumption DEF InstanceOK
    <2>2. ~r.used => ~r.managed /\ ~r.cancelled BY <1>9, <1>12, <1>13 DEF InstanceOK
    <2>3. Quiet(i)' = Quiet(i) /\ Registered(i)' = Registered(i)
      BY <1>1, <1>9, <1>11 DEF Quiet, Registered
    <2>4. r.lock \in Cleaner => pass'[r.lock].at = i /\ pass'[r.lock].pc \in Locking
      BY <1>8, <1>9, <1>10 DEF Locking
    <2>5. ~(r.lock = "thread") /\ r.thread # "starting" /\ r.start = "none"
      BY <1>9, <2>1, NobodyAssumption
    <2>6. r.proc = "transcode" => reserved'[r.key] = i BY <1>1, <1>9, <1>12 DEF InstanceOK
    <2>7. ~r.managed => Quiet(i) BY <1>9, <1>12 DEF InstanceOK
    <2> QED BY <1>3, <1>11, <2>2, <2>3, <2>4, <2>5, <2>6, <2>7 DEF InstanceOK
  <1>15. reserved'[inst[i].key] = i => "transcode" \in {r.proc, r.start} \/ r.proc = "ended"
    BY <1>1, <1>3, <1>9, AtInstance
  <1>16. r.cancelled => pc = "stopping" \/ (inst[i].cancelled /\ pass[c].pc # "stopping")
    BY <1>1, <1>8, <1>9, <1>13
  <1>17. pc \in {"locked", "kept"} /\ ~pass[c].seen => ~r.managed
    BY <1>8, <1>9 DEF unwatched
  <1> QED BY <1>1, <1>3, <1>4, <1>8, <1>9, <1>14, <1>15, <1>16, <1>17, WorkStep

\* What the lock of an instance says while a pass has it.
LEMMA AtLocked ==
    ASSUME EngineInvariant, Hypotheses, NEW c \in Cleaner, pass[c].pc \in Locking
    PROVE  /\ pass[c].at \in Instance /\ Registered(pass[c].at)
           /\ inst[pass[c].at].lock = c /\ inst[pass[c].at].thread # "starting"
           /\ pass[c].pc # "kept" => inst[pass[c].at].start = "none"
  <1>1. PassOK(c) BY DEF EngineInvariant
  <1>2. pass[c].at \in Instance /\ Registered(pass[c].at) /\ inst[pass[c].at].lock = c
    BY <1>1 DEF PassOK, Locking
  <1>3. InstanceOK(pass[c].at) BY <1>2 DEF EngineInvariant
  <1> QED BY <1>2, <1>3, NobodyAssumption DEF InstanceOK

LEMMA StopUnwatchedStep ==
    ASSUME EngineInvariant, Hypotheses, NEW c \in Cleaner, StopUnwatched(c)
    PROVE  EngineInvariant'
  <1> pass[c].pc = "stopping" BY DEF StopUnwatched
  <1> PICK i \in Instance : i = pass[c].at BY AtLocked DEF Locking
  <1> DEFINE s == Stopped(inst[i])
             t == [s EXCEPT !.lock = Nobody]
             u == [t EXCEPT !.cancelled = FALSE]
             r == IF Watched(inst[i].key) THEN Scheduled(u) ELSE t
  <1>1. /\ pass[c].pc = "stopping" /\ PassTo(c, "next") /\ reserved' = Released(i)
        /\ inst' = [inst EXCEPT ![i] = r]
        /\ \/ streams' = streams
           \/ /\ streams' = [streams EXCEPT ![inst[i].key] = Nobody]
              /\ inst[i].thread = "none" /\ ~Watched(inst[i].key)
        /\ UNCHANGED <<viewer, deleted, spent>>
    BY DEF StopUnwatched, At, KeyOfInst, Alive
  <1>2. i \in Instance /\ Registered(i) /\ inst[i].lock = c /\ inst[i].thread # "starting"
        /\ inst[i].start = "none"
    BY <1>1, AtLocked DEF Locking
  <1>3. inst[i] \in Inst /\ InstanceOK(i) /\ inst \in [Instance -> Inst] BY <1>2, AtInstance
  <1>4. /\ s \in Inst /\ s.proc = "none"
        /\ \A f \in {"used", "key", "managed", "cancelled", "thread", "start"} :
               s[f] = inst[i][f]
    BY <1>3, StoppedRecord
  <1> HIDE DEF s
  <1>5. /\ t \in Inst /\ t.lock = Nobody
        /\ \A f \in {"used", "key", "managed", "cancelled", "proc", "thread", "start"} : t[f] = s[f]
    BY <1>4 DEF Inst
  <1> HIDE DEF t
  <1>6. /\ u \in Inst /\ u.cancelled = FALSE
        /\ \A f \in {"used", "key", "managed", "proc", "thread", "start", "lock"} : u[f] = t[f]
    BY <1>5 DEF Inst
  <1> HIDE DEF u
  <1>7. /\ r \in Inst /\ r.lock = Nobody /\ r.proc = "none"
        /\ \A f \in {"used", "key", "managed", "thread", "start"} : r[f] = inst[i][f]
        /\ r.cancelled => inst[i].cancelled
        /\ Watched(inst[i].key) => ~r.cancelled
    <2>1. CASE Watched(inst[i].key)
      <3>1. r = Scheduled(u) BY <2>1
      <3> DEFINE q == Scheduled(u)
      <3>2. /\ q \in Inst
            /\ \A f \in {"used", "key", "managed", "cancelled", "proc", "thread", "start", "lock"} :
                   q[f] = u[f]
        BY <1>6, ScheduledRecord
      <3> HIDE DEF q, r
      <3>3. r = q BY <3>1 DEF q
      <3> QED BY <1>4, <1>5, <1>6, <3>2, <3>3, <2>1
    <2>2. CASE ~Watched(inst[i].key)
      <3>1. r = t BY <2>2
      <3> HIDE DEF r
      <3> QED BY <1>4, <1>5, <3>1, <2>2
    <2> QED BY <2>1, <2>2
  <1> HIDE DEF r
  <1>8. inst'[i] = r BY <1>1, <1>2, <1>3
  <1>9. TypeOK BY DEF EngineInvariant
  <1>10. reserved'[inst[i].key] # i BY <1>1, <1>2, <1>9, ReleasedReservations
  <1>11. InstanceOK(i)'
    <2>1. ~r.used => ~r.managed /\ ~r.cancelled BY <1>3, <1>7 DEF InstanceOK
    <2>2. ~r.managed => r.thread = "none" BY <1>3, <1>7 DEF InstanceOK, Quiet
    <2>3. r.thread # "none" => streams'[r.key] = i BY <1>1, <1>2, <1>7 DEF Registered
    <2> QED BY <1>2, <1>7, <1>8, <2>1, <2>2, <2>3, NobodyAssumption
            DEF InstanceOK, Quiet, Registered
  <1>12. r.cancelled /\ Watched(inst[i].key) => FALSE BY <1>7
  <1> QED BY <1>1, <1>2, <1>7, <1>10, <1>11, <1>12, WorkStep DEF Locking

LEMMA MaintainStep ==
    ASSUME EngineInvariant, Hypotheses, NEW c \in Cleaner, Maintain(c)
    PROVE  EngineInvariant'
  <1> pass[c].pc = "locked" BY DEF Maintain
  <1> PICK i \in Instance : i = pass[c].at BY AtLocked DEF Locking
  <1>1. /\ Registered(i) /\ inst[i].lock = c /\ inst[i].thread # "starting"
        /\ inst[i].start = "none"
    BY AtLocked DEF Locking
  <1>2. inst[i] \in Inst /\ InstanceOK(i) /\ inst \in [Instance -> Inst] BY AtInstance
  <1>3. PassOK(c) /\ TypeOK BY DEF EngineInvariant
  <1>4. PassTo(c, "kept") /\ UNCHANGED <<viewer, streams, deleted, spent>> BY DEF Maintain
  <1>5. pass'[c].pc = "kept" /\ pass'[c].at = i BY <1>3, <1>4 DEF PassTo, TypeOK, Pass
  <1>6. ~pass[c].seen => ~inst[i].managed BY <1>3 DEF PassOK
  <1>7. PICK r \in Inst :
            /\ inst' = [inst EXCEPT ![i] = r]
            /\ \A f \in {"used", "key", "managed", "cancelled", "thread", "lock"} :
                   r[f] = inst[i][f]
            /\ \/ r = inst[i] /\ reserved' = reserved
               \/ /\ r.proc = "none" /\ r.start \in {"none", "probing"}
                  /\ inst[i].proc # "none" /\ reserved' = Released(i)
    <2>1. CASE UNCHANGED <<inst, reserved>>
      <3>1. inst' = [inst EXCEPT ![i] = inst[i]] BY <1>2, <2>1
      <3> QED BY <1>2, <2>1, <3>1
    <2>2. CASE ~UNCHANGED <<inst, reserved>>
      <3> DEFINE s == Stopped(inst[i])
      <3>1. PICK r \in {s : x \in {inst[i].proc} \ {"ended"}} \cup {Scheduled(s)} \cup Begun(s) :
                inst' = [inst EXCEPT ![i] = r]
        BY <2>2 DEF Maintain, At
      <3>2. inst[i].proc # "none" /\ reserved' = Released(i) BY <2>2 DEF Maintain, At
      <3>3. /\ s \in Inst /\ s.proc = "none" /\ s.start = "none"
            /\ \A f \in {"used", "key", "managed", "cancelled", "thread", "lock"} :
                   s[f] = inst[i][f]
        BY <1>1, <1>2, StoppedRecord
      <3> HIDE DEF s
      <3>4. /\ r \in Inst /\ r.proc = "none" /\ r.start \in {"none", "probing"}
            /\ \A f \in {"used", "key", "managed", "cancelled", "thread", "lock"} :
                   r[f] = s[f]
        <4>1. CASE r = s BY <3>3, <4>1
        <4>2. CASE r = Scheduled(s)
          <5> DEFINE q == Scheduled(s)
          <5>1. /\ q \in Inst
                /\ \A f \in {"used", "key", "managed", "cancelled", "proc", "thread", "start",
                             "lock"} : q[f] = s[f]
            BY <3>3, ScheduledRecord
          <5> HIDE DEF q
          <5> QED BY <3>3, <4>2, <5>1 DEF q
        <4>3. CASE r \in Begun(s) BY <3>3, <4>3, BegunRecord
        <4> QED BY <3>1, <4>1, <4>2, <4>3
      <3> QED BY <3>1, <3>2, <3>3, <3>4
    <2> QED BY <2>1, <2>2
  <1>8. inst'[i] = r BY <1>2, <1>7
  <1>9. reserved' = Released(i) => reserved'[inst[i].key] # i
    BY <1>3, ReleasedReservations
  <1>10. InstanceOK(i)'
    <2>1. CASE r = inst[i] /\ reserved' = reserved
      BY <1>1, <1>2, <1>4, <1>5, <1>8, <2>1 DEF InstanceOK, Quiet, Registered, Locking
    <2>2. CASE /\ r.proc = "none" /\ r.start \in {"none", "probing"}
               /\ inst[i].proc # "none" /\ reserved' = Released(i)
      <3>1. inst[i].managed BY <1>2, <2>2 DEF InstanceOK, Quiet
      <3> QED BY <1>1, <1>2, <1>4, <1>5, <1>7, <1>8, <2>2, <3>1
              DEF InstanceOK, Quiet, Registered, Locking
    <2> QED BY <1>7, <2>1, <2>2
  <1>11. reserved'[inst[i].key] = i => "transcode" \in {r.proc, r.start} \/ r.proc = "ended"
    BY <1>7, <1>9, AtInstance
  <1>12. /\ r.key = inst[i].key /\ r.used = inst[i].used /\ r.managed = inst[i].managed
         /\ r.cancelled = inst[i].cancelled /\ r.lock = c
         /\ reserved' = reserved \/ reserved' = Released(i)
    BY <1>1, <1>7
  <1> QED BY <1>4, <1>6, <1>7, <1>10, <1>11, <1>12, WorkStep DEF Locking

LEMMA CleanKeptStep ==
    ASSUME EngineInvariant, Hypotheses, NEW c \in Cleaner, CleanKept(c)
    PROVE  EngineInvariant'
  <1> pass[c].pc = "kept" BY DEF CleanKept
  <1> PICK i \in Instance : i = pass[c].at BY AtLocked DEF Locking
  <1> DEFINE fails == /\ pass[c].seen /\ ~Up(i)
                      /\ inst[i].thread = "none" /\ inst[i].retry = "none"
             q == [inst[i] EXCEPT !.cancelled = FALSE]
             s == IF fails THEN Scheduled(q) ELSE inst[i]
             r == [s EXCEPT !.lock = Nobody]
             pc == IF pass[c].seen /\ ~Up(i) /\ inst[i].retry = "due" /\ inst[i].source
                   THEN "launch" ELSE IF pass[c].seen THEN "next" ELSE "idle"
  <1>1. /\ Registered(i) /\ inst[i].lock = c /\ inst[i].thread # "starting"
    BY AtLocked DEF Locking
  <1>2. inst[i] \in Inst /\ InstanceOK(i) /\ inst \in [Instance -> Inst] BY AtInstance
  <1>3. PassOK(c) BY DEF EngineInvariant
  <1>4. /\ inst[i].start = "none" /\ PassTo(c, pc) /\ inst' = [inst EXCEPT ![i] = r]
        /\ UNCHANGED <<viewer, streams, reserved, deleted, spent>>
    BY DEF CleanKept, At
  <1>5. pc \in {"launch", "next", "idle"} /\ (pc = "idle" => ~pass[c].seen) OBVIOUS
  <1> HIDE DEF pc
  <1>6. /\ q \in Inst /\ q.cancelled = FALSE
        /\ \A f \in {"used", "key", "managed", "proc", "thread", "start"} : q[f] = inst[i][f]
    BY <1>2 DEF Inst
  <1> HIDE DEF q
  <1>7. /\ s \in Inst /\ (s.cancelled => inst[i].cancelled)
        /\ \A f \in {"used", "key", "managed", "proc", "thread", "start"} : s[f] = inst[i][f]
    <2>1. CASE fails
      <3> DEFINE t == Scheduled(q)
      <3>1. /\ t \in Inst
            /\ \A f \in {"used", "key", "managed", "cancelled", "proc", "thread", "start"} :
                   t[f] = q[f]
        BY <1>6, ScheduledRecord
      <3>2. s = t BY <2>1
      <3> HIDE DEF s, t
      <3> QED BY <1>6, <3>1, <3>2
    <2>2. CASE ~fails
      <3>1. s = inst[i] BY <2>2
      <3> HIDE DEF s
      <3> QED BY <1>2, <3>1
    <2> QED BY <2>1, <2>2
  <1> HIDE DEF s
  <1>8. /\ r \in Inst /\ r.lock = Nobody /\ r.cancelled = s.cancelled
        /\ \A f \in {"used", "key", "managed", "proc", "thread", "start"} : r[f] = s[f]
    BY <1>7 DEF Inst
  <1> HIDE DEF r
  <1>9. /\ \A f \in {"used", "key", "managed", "proc", "thread", "start"} : r[f] = inst[i][f]
        /\ r.cancelled => inst[i].cancelled
    BY <1>7, <1>8
  <1>10. inst'[i] = r BY <1>2, <1>4
  <1>11. InstanceOK(i)'
    <2>1. Quiet(i)' = Quiet(i) /\ Registered(i)' = Registered(i)
      BY <1>4, <1>9, <1>10 DEF Quiet, Registered
    <2>2. ~r.used => ~r.managed /\ ~r.cancelled BY <1>2, <1>9 DEF InstanceOK
    <2> QED BY <1>1, <1>2, <1>4, <1>8, <1>9, <1>10, <2>1, <2>2, NobodyAssumption
            DEF InstanceOK
  <1>12. reserved'[inst[i].key] = i => "transcode" \in {r.proc, r.start} \/ r.proc = "ended"
    BY <1>4, <1>9, AtInstance
  <1>13. pc = "idle" => ~r.managed BY <1>3, <1>5, <1>9 DEF PassOK
  <1> QED BY <1>4, <1>5, <1>8, <1>9, <1>11, <1>12, <1>13, WorkStep DEF Locking

LEMMA CleanLaunchStep ==
    ASSUME EngineInvariant, Hypotheses, NEW c \in Cleaner, CleanLaunch(c)
    PROVE  EngineInvariant'
  <1> pass[c].pc = "launch" BY DEF CleanLaunch
  <1> PassOK(c) BY DEF EngineInvariant
  <1> PICK i \in Instance : i = pass[c].at BY DEF PassOK
  <1> DEFINE q == Launched(inst[i])
             r == IF streams[inst[i].key] = i /\ Watched(inst[i].key) THEN q ELSE inst[i]
  <1>1. inst[i] \in Inst /\ InstanceOK(i) /\ inst \in [Instance -> Inst] BY AtInstance
  <1>2. /\ PassTo(c, "next") /\ UNCHANGED <<viewer, streams, reserved, deleted, spent>>
        /\ inst' = [inst EXCEPT ![i] = r]
    BY <1>1 DEF CleanLaunch, At, KeyOfInst
  <1>3. /\ q \in Inst
        /\ \A f \in {"used", "key", "managed", "proc", "start", "lock"} : q[f] = inst[i][f]
        /\ q.cancelled => inst[i].cancelled
        /\ q = inst[i] \/ (inst[i].thread = "none" /\ q.thread = "queued")
    <2>1. q \in Inst BY <1>1, LaunchedRecord
    <2>2. \A f \in {"used", "key", "managed", "proc", "idle", "start", "halt", "lock"} :
              q[f] = inst[i][f]
      BY <1>1, LaunchedRecord
    <2>3. q.cancelled => inst[i].cancelled BY <1>1, LaunchedRecord
    <2>4. q = inst[i] \/ (inst[i].thread = "none" /\ q.thread = "queued")
      BY <1>1, LaunchedRecord
    <2> QED BY <2>1, <2>2, <2>3, <2>4
  <1> HIDE DEF q
  <1>4. CASE r = inst[i]
    <2>1. inst' = inst BY <1>1, <1>2, <1>4
    <2>2. InstanceOK(i)'
      <3>1. inst[i].lock \notin Cleaner
        BY <1>1 DEF InstanceOK, Hypotheses, OnePass, Locking
      <3> QED BY <1>1, <1>2, <2>1, <3>1 DEF InstanceOK, Quiet, Registered
    <2>3. reserved'[inst[i].key] = i =>
              "transcode" \in {r.proc, r.start} \/ r.proc = "ended"
      BY <1>2, <1>4, AtInstance
    <2> HIDE DEF r
    <2> QED BY <1>1, <1>2, <1>4, <2>2, <2>3, WorkStep DEF Locking
  <1>5. CASE streams[inst[i].key] = i /\ Watched(inst[i].key)
    <2>1. r = q BY <1>5
    <2> HIDE DEF r
    <2>2. inst'[i] = q BY <1>1, <1>2, <2>1
    <2>3. inst[i].managed
      <3>1. StreamOK(inst[i].key) BY <1>1, AtInstance DEF EngineInvariant
      <3> QED BY <1>5, <3>1, NobodyAssumption DEF StreamOK, Watched
    <2>4. inst[i].lock \notin Cleaner BY <1>1 DEF InstanceOK, Hypotheses, OnePass, Locking
    <2>5. InstanceOK(i)'
      BY <1>1, <1>2, <1>3, <1>5, <2>2, <2>3, <2>4 DEF InstanceOK, Quiet, Registered
    <2>6. reserved'[inst[i].key] = i =>
              "transcode" \in {q.proc, q.start} \/ q.proc = "ended"
      BY <1>2, <1>3, AtInstance
    <2>7. /\ q.key = inst[i].key /\ q.used = inst[i].used /\ q.managed = inst[i].managed
      BY <1>3
    <2>8. inst' = [inst EXCEPT ![i] = q] BY <1>2, <2>1
    <2> QED BY <1>2, <1>3, <2>5, <2>6, <2>7, <2>8, WorkStep DEF Locking
  <1> QED BY <1>4, <1>5

LEMMA CleanDropStep ==
    ASSUME EngineInvariant, Hypotheses, NEW c \in Cleaner, CleanDrop(c)
    PROVE  EngineInvariant'
  <1> pass[c].pc = "dropping" BY DEF CleanDrop
  <1> PassOK(c) BY DEF EngineInvariant
  <1> PICK i \in Instance : i = pass[c].at BY DEF PassOK
  <1>1. inst[i] \in Inst /\ InstanceOK(i) /\ inst \in [Instance -> Inst] BY AtInstance
  <1>2. /\ PassTo(c, "next") /\ UNCHANGED <<viewer, inst, reserved, deleted, spent>>
        /\ streams' = [streams EXCEPT ![inst[i].key] = Nobody]
    BY DEF CleanDrop, At, KeyOfInst
  <1>3. ~inst[i].managed BY DEF PassOK
  <1>4. inst[i].lock \notin Cleaner BY <1>1 DEF InstanceOK, Hypotheses, OnePass, Locking
  <1>5. InstanceOK(i)' BY <1>1, <1>2, <1>3, <1>4 DEF InstanceOK, Quiet
  <1>6. reserved'[inst[i].key] = i =>
            "transcode" \in {inst[i].proc, inst[i].start} \/ inst[i].proc = "ended"
    BY <1>2, AtInstance
  <1>7. inst' = [inst EXCEPT ![i] = inst[i]] BY <1>1, <1>2
  <1> QED BY <1>1, <1>2, <1>5, <1>6, <1>7, WorkStep DEF Locking

-----------------------------------------------------------------------------
LEMMA InitInvariant ==
    ASSUME Hypotheses, Init
    PROVE  EngineInvariant
  <1>1. /\ viewer = [v \in Viewer |-> "out"] /\ streams = [k \in Key |-> Nobody]
        /\ reserved = [k \in Key |-> Nobody] /\ pass = [c \in Cleaner |-> PassOff]
        /\ deleted = {} /\ spent = [exits |-> 0, stops |-> 0]
    BY DEF Init
  <1>2. /\ inst \in [Instance -> Inst]
        /\ \A i \in Instance :
               /\ ~inst[i].used /\ ~inst[i].managed /\ ~inst[i].cancelled
               /\ inst[i].proc = "none" /\ inst[i].thread = "none"
               /\ inst[i].start = "none" /\ inst[i].lock = Nobody
    <2> DEFINE Fresh(k) == [used |-> FALSE, key |-> k, managed |-> FALSE,
                            cancelled |-> FALSE, proc |-> "none", retry |-> "none",
                            source |-> FALSE, idle |-> FALSE, thread |-> "none",
                            start |-> "none", halt |-> FALSE, lock |-> Nobody]
    <2>1. inst \in [Instance -> {Fresh(k) : k \in Key}] BY DEF Init
    <2>2. ASSUME NEW k \in Key
          PROVE  /\ Fresh(k) \in Inst
                 /\ ~Fresh(k).used /\ ~Fresh(k).managed /\ ~Fresh(k).cancelled
                 /\ Fresh(k).proc = "none" /\ Fresh(k).thread = "none"
                 /\ Fresh(k).start = "none" /\ Fresh(k).lock = Nobody
      BY DEF Inst
    <2> HIDE DEF Fresh
    <2> QED BY <2>1, <2>2
  <1>3. PassOff \in Pass /\ PassOff.pc = "off" /\ PassOff.todo = {} BY DEF PassOff, Pass
  <1>4. TypeOK BY <1>1, <1>2, <1>3, BoundAssumption DEF TypeOK, ViewerState
  <1>5. ASSUME NEW i \in Instance PROVE InstanceOK(i)
    BY <1>2, NobodyAssumption DEF InstanceOK, Quiet
  <1>6. ASSUME NEW k \in Key PROVE StreamOK(k) /\ ReservationOK(k) /\ CancelledOK(k)
    BY <1>1 DEF StreamOK, ReservationOK, CancelledOK
  <1>7. ASSUME NEW c \in Cleaner PROVE PassOK(c)
    BY <1>1, <1>3 DEF PassOK, Locking
  <1>8. WithinLimit
    <2>1. Reserving = {} BY <1>1 DEF Reserving
    <2> QED BY <2>1, FS_EmptySet, BoundAssumption DEF WithinLimit
  <1> QED BY <1>4, <1>5, <1>6, <1>7, <1>8 DEF EngineInvariant

LEMMA NextInvariant ==
    ASSUME EngineInvariant, Hypotheses, [Next]_vars
    PROVE  EngineInvariant'
  <1>1. ASSUME NEW v \in Viewer,
               \/ Admit(v) \/ CloseViewer(v) \/ LoseViewer(v) \/ TouchViewer(v)
               \/ \E i \in Instance : OpenViewer(v, i)
        PROVE  EngineInvariant'
    BY <1>1, AdmitStep, CloseViewerStep, TouchViewerStep, OpenViewerStep
  <1>2. ASSUME NEW k \in Key,
               StopStream(k) \/ DeleteCamera(k) \/ \E i \in Instance : PollPlaylist(k, i)
        PROVE  EngineInvariant'
    BY <1>2, StopStreamStep, DeleteCameraStep, PollPlaylistStep
  <1>3. ASSUME NEW i \in Instance,
               Thread(i) \/ Starting(i) \/ Halt(i) \/ FfmpegEnds(i) \/ RetryDue(i) \/ BecomesIdle(i)
        PROVE  EngineInvariant'
    BY <1>3, ThreadCheckStep, ThreadStartStep, ThreadStartedStep, ThreadEndsStep,
       ChooseModeStep, SpawnStep, HaltStep, FfmpegEndsStep, RetryDueStep, BecomesIdleStep
       DEF Thread, Starting
  <1>4. ASSUME NEW c \in Cleaner, Clean(c) PROVE EngineInvariant'
    BY <1>4, CleanStartStep, PassToStep, CleanLockStep, StopUnwatchedStep, MaintainStep,
       CleanKeptStep, CleanLaunchStep, CleanDropStep, CleanEndStep, CleanCountStep
       DEF Clean
  <1>5. CASE UNCHANGED vars
    <2>1. viewer \in [Viewer -> ViewerState] /\ deleted \subseteq Key
          /\ spent \in [exits : 0 .. MaxExits, stops : 0 .. MaxStops]
      BY DEF EngineInvariant, TypeOK
    <2> QED BY <1>5, <2>1, ViewerStep DEF vars
  <1> QED BY <1>1, <1>2, <1>3, <1>4, <1>5 DEF Next

\* Transcoding processes have reservations of their own, so there are no more of them.
LEMMA Consistency ==
    ASSUME EngineInvariant, Hypotheses
    PROVE  EngineConsistent
  <1> DEFINE coding == {i \in Instance : inst[i].proc = "transcode"}
  <1>1. /\ inst \in [Instance -> Inst] /\ reserved \in [Key -> Instance \cup {Nobody}]
        /\ streams \in [Key -> Instance \cup {Nobody}] /\ TypeOK
        /\ \A i \in Instance : inst[i].key \in Key /\ InstanceOK(i)
    BY DEF EngineInvariant, TypeOK, Inst
  <1>2. NoOrphan BY <1>1 DEF NoOrphan, Up, KeyOfInst, InstanceOK, Quiet, Registered
  <1>3. \A i \in Instance : inst[i].proc = "transcode" => reserved[KeyOfInst(i)] = i
    BY <1>1 DEF KeyOfInst, InstanceOK
  <1>4. \A k \in Key : reserved[k] # Nobody =>
            "transcode" \in {inst[reserved[k]].proc, inst[reserved[k]].start}
            \/ inst[reserved[k]].proc = "ended"
    BY DEF EngineInvariant, ReservationOK
  <1>5. Limit = 0 \/ Cardinality(coding) <= Limit
    <2>1. IsFiniteSet(Reserving) BY FS_Subset DEF Hypotheses, Reserving
    <2> DEFINE holds == [k \in Reserving |-> reserved[k]]
               holders == {reserved[k] : k \in Reserving}
    <2>2. coding \subseteq holders
      BY <1>1, <1>3, NobodyAssumption DEF Reserving, KeyOfInst
    <2>3. IsFiniteSet(holders) /\ Cardinality(holders) <= Cardinality(Reserving)
      <3>1. holds \in Surjection(Reserving, holders) BY DEF Surjection
      <3> HIDE DEF holds, holders
      <3> QED BY <2>1, <3>1, FS_Surjection
    <2> HIDE DEF coding, holders
    <2>4. IsFiniteSet(coding) /\ Cardinality(coding) <= Cardinality(holders)
      BY <2>2, <2>3, FS_Subset
    <2>5. /\ Cardinality(coding) \in Nat /\ Cardinality(holders) \in Nat
          /\ Cardinality(Reserving) \in Nat /\ Limit \in Nat
      BY <2>1, <2>3, <2>4, FS_CardinalityType, BoundAssumption
    <2>6. Limit = 0 \/ Cardinality(Reserving) <= Limit BY DEF EngineInvariant, WithinLimit
    <2> QED BY <2>3, <2>4, <2>5, <2>6
  <1>6. CancelledUnwatched
    BY DEF EngineInvariant, CancelledOK, CancelledUnwatched, At
  <1> QED BY <1>1, <1>2, <1>3, <1>4, <1>5, <1>6 DEF EngineConsistent, ReservationsExact

\* The tables of the engine agree with the processes of the host and with the viewers, for
\* any number of them: no ffmpeg process is left that nobody stops (manager.py), the limit
\* on transcodes holds and none of it leaks, and nobody watches a stream that was
\* cancelled and stays so.
THEOREM Consistent ==
    ASSUME Hypotheses
    PROVE  Spec => []EngineConsistent
  <1>1. Init => EngineInvariant BY InitInvariant
  <1>2. EngineInvariant /\ [Next]_vars => EngineInvariant' BY NextInvariant
  <1>3. EngineInvariant => EngineConsistent BY Consistency
  <1> QED BY <1>1, <1>2, <1>3, PTL DEF Spec
=============================================================================

---------------------------- MODULE IntegrityScan ----------------------------
(***************************************************************************)
(* Scans of the archive for recordings without a file, files without a     *)
(* recording and recordings that cannot be played.  A scan is queued by a  *)
(* request and worked off in short transactions, first over the rows of    *)
(* the segments, then over the directories; the worker may die or be       *)
(* overtaken after any of them, and the archive changes all the while.     *)
(*                                                                         *)
(* One archive root with a directory in a directory, and in that one the   *)
(* place of one recording.  The window of a recent write and the grace of  *)
(* an orphan are one unit of time.                                         *)
(***************************************************************************)
EXTENDS Naturals

CONSTANTS
    Worker, Nobody,
    Late,        \* may an answered cancellation, or a worker that lost its lease, write
                 \* the status of a scan that has ended meanwhile?
    Split,       \* may a worker find a scan before its directories are queued?
    Reuse,       \* may a new file get the inode of a removed one?
    Outlive,     \* may a directory stay claimed, or become it, when the lease of the worker
                 \* has run out?
    MaxScans, MaxTime,
    MaxEvents    \* bound on changes of the archive, cancellations and failures together

VARIABLES
    scan,      \* the rows of the scans, in the order of their start
    dirs,      \* the directory work of each
    found,     \* the active findings of each
    at,        \* what each worker is about to do
    run,       \* the scan it works on and the directory it walks
    keeper,    \* holder of the worker lease
    owner,     \* holder of the lease of the active scan's operation
    asked,     \* the cancellation that is half done
    obj,       \* the recording: its row, its file and its receipt
    mounted,
    now,
    spent

vars == <<scan, dirs, found, at, run, keeper, owner, asked, obj, mounted, now, spent>>
lease == <<keeper, owner>>
archive == <<obj, mounted, now>>

-----------------------------------------------------------------------------
Scans == 1..MaxScans
Dir == {"top", "sub"}
Active == {"queued", "running", "cancel_requested", "interrupted"}
Terminal == {"completed", "partial", "failed", "cancelled"}

NoScan == [status |-> "none", op |-> "none", slot |-> FALSE, phase |-> "metadata",
           failed |-> FALSE, stale |-> FALSE, cancel |-> FALSE, cutoff |-> 0, mount |-> TRUE,
           calm |-> TRUE]
NoFile == [cat |-> "none", ino |-> 0, count |-> 0, first |-> 0, action |-> FALSE]
NoFinding == [meta |-> "none", file |-> NoFile]
NoRun == [scan |-> 0, dir |-> "none"]

\* known: the number of scans begun before the row was made.
Recordings == [file : {"none", "good", "bad"}, ino : Nat, born : Nat,
               row : {"none", "writing", "stale", "final"}, known : Nat, updated : Nat,
               receipt : {"none", "writing", "final"}]

Kept(file, row, receipt) ==
    [file |-> file, ino |-> 1, born |-> 0, row |-> row, known |-> 0, updated |-> 0,
     receipt |-> receipt]

Init ==
    /\ scan = [s \in Scans |-> NoScan]
    /\ dirs = [s \in Scans |-> [d \in Dir |-> "none"]]
    /\ found = [s \in Scans |-> NoFinding]
    /\ at = [w \in Worker |-> "idle"] /\ run = [w \in Worker |-> NoRun]
    /\ keeper = Nobody /\ owner = Nobody /\ asked = <<>>
    /\ obj \in {Kept("good", "final", "final"), Kept("good", "stale", "writing"),
                Kept("good", "none", "final"), Kept("good", "none", "none"),
                Kept("none", "final", "final")}
    /\ mounted = TRUE /\ now = 1
    /\ spent = 0

Event == spent < MaxEvents /\ spent' = spent + 1

ActiveScan == {s \in Scans : scan[s].slot}
Begun == {s \in Scans : scan[s].status # "none"}

-----------------------------------------------------------------------------
(* Requests.                                                               *)

\* start_integrity_scan: an active scan answers for a new one.  The directories come
\* in a second transaction.
Start ==
    \E s \in Scans :
        /\ scan[s].status = "none" /\ \A t \in 1..(s - 1) : scan[t].status # "none"
        /\ ActiveScan = {}
        /\ scan' = [scan EXCEPT ![s] =
               [NoScan EXCEPT !.status = "queued", !.op = "queued", !.slot = TRUE,
                              !.cutoff = now, !.mount = mounted,
                              !.failed = ~mounted /\ ~Split]]
        /\ dirs' = IF mounted /\ ~Split THEN [dirs EXCEPT ![s]["top"] = "queued"] ELSE dirs
        /\ UNCHANGED <<found, at, run, asked, spent>> /\ UNCHANGED lease /\ UNCHANGED archive

\* The second transaction, or the crash that prevents it.
QueueDirectories ==
    \E s \in Scans :
        /\ Split /\ scan[s].status # "none" /\ dirs[s]["top"] = "none" /\ ~scan[s].failed
        /\ IF scan[s].mount THEN dirs' = [dirs EXCEPT ![s]["top"] = "queued"] /\ UNCHANGED scan
                            ELSE scan' = [scan EXCEPT ![s].failed = TRUE] /\ UNCHANGED dirs
        /\ UNCHANGED <<found, at, run, asked, spent>> /\ UNCHANGED lease /\ UNCHANGED archive

\* cancel_integrity_scan: the operation, then the scan by the answer.
CancelOperation ==
    \E s \in Scans :
        /\ asked = <<>> /\ scan[s].status # "none" /\ Event
        /\ Late \/ scan[s].status \in Active
        /\ LET answer == CASE scan[s].op = "queued" -> "cancelled"
                           [] scan[s].op = "running" -> "cancel_requested"
                           [] OTHER -> scan[s].op
           IN scan' = [scan EXCEPT ![s].op = answer] /\ asked' = <<s, answer>>
        /\ UNCHANGED <<dirs, found, at, run>> /\ UNCHANGED lease /\ UNCHANGED archive

CancelScan ==
    /\ asked # <<>> /\ asked' = <<>>
    /\ LET s == asked[1] IN
       scan' = IF asked[2] = "cancelled"
               THEN [scan EXCEPT ![s].status = "cancelled", ![s].phase = "cancelled",
                                 ![s].slot = FALSE]
               ELSE IF scan[s].status \in Active \/ Late
               THEN [scan EXCEPT ![s].status = "cancel_requested", ![s].cancel = TRUE]
               ELSE scan
    /\ UNCHANGED <<dirs, found, at, run, spent>> /\ UNCHANGED lease /\ UNCHANGED archive

-----------------------------------------------------------------------------
(* What a scan makes of what it sees.                                      *)

\* An anchor inside the window of recent writes before the cutoff.
SegmentRecent(s) == scan[s].cutoff < obj.updated + 1
FileRecent == now < obj.born + 1

\* _classify_metadata_page, for the row of the recording.
MetadataCategory ==
    CASE obj.file = "none" -> "missing_file"
      [] obj.file # "none" /\ obj.row = "stale" -> "stale_writing_segment"
      [] obj.file = "bad" /\ obj.row = "final" -> "corrupted_file"
      [] OTHER -> "none"

\* _converge_stale_segment: a whole file whose writer is gone, proved by its receipt.
Converges ==
    obj.row = "stale" /\ obj.file = "good" /\ obj.receipt = "writing"

\* Slip: what an unfinished scan saw counts too.
BeforeAny(s, cat) ==
    {t \in Scans \ {s} : found[t].file.cat = cat /\ found[t].file.ino = obj.ino}

\* _previous_file_observation.
Before(s, cat) ==
    {t \in Scans \ {s} :
        /\ scan[t].status \in {"completed", "partial"}
        /\ found[t].file.cat = cat /\ found[t].file.ino = obj.ino}

LatestOf(S) == CHOOSE t \in S : \A u \in S : u <= t

\* _upsert_file_finding: actionable when seen before, long enough ago, and proved.
FileFinding(s, cat) ==
    LET earlier == Before(s, cat)
        own == found[s].file
        same == own.cat # "none" /\ own.ino = obj.ino
        seen == IF earlier = {} THEN 1 ELSE found[LatestOf(earlier)].file.count + 1
        first == IF same THEN own.first
                 ELSE IF earlier = {} THEN scan[s].cutoff
                 ELSE found[LatestOf(earlier)].file.first
        count == IF same /\ own.count > seen THEN own.count ELSE seen
    IN [cat |-> cat, ino |-> obj.ino, count |-> count, first |-> first,
        action |-> cat = "orphan_file" /\ count >= 2 /\ scan[s].cutoff >= first + 1]

\* _classify_filesystem_entry: a file that a row of the scan names is no file of its own.
Classified(s) ==
    IF \/ obj.file = "none"
       \/ obj.row # "none" /\ obj.known < s
       \/ FileRecent
    THEN found[s].file
    ELSE FileFinding(s, IF obj.receipt = "final" THEN "orphan_file"
                        ELSE "pre_metadata_km_vms_file")

-----------------------------------------------------------------------------
(* The worker.                                                             *)

Idle(w) == at' = [at EXCEPT ![w] = "idle"] /\ run' = [run EXCEPT ![w] = NoRun]
Goes(w, where) == at' = [at EXCEPT ![w] = where] /\ UNCHANGED run
Releases(w) == keeper' = IF keeper = w THEN Nobody ELSE keeper

\* run_integrity_worker_once and the first part of _run_scan: the lease of the worker,
\* that of the operation, and the claims of directories that have run out.
Begin(w) ==
    /\ at[w] = "idle" /\ keeper = Nobody
    /\ \E s \in ActiveScan :
        \/ /\ scan[s].op = "cancelled"
           /\ scan' = [scan EXCEPT ![s].status = "cancelled", ![s].phase = "cancelled",
                                   ![s].slot = FALSE]
           /\ UNCHANGED <<dirs, at, run, keeper, owner>>
        \/ /\ scan[s].op \in Terminal \ {"cancelled"}
           /\ scan' = [scan EXCEPT ![s].slot = FALSE]
           /\ UNCHANGED <<dirs, at, run, keeper, owner>>
        \/ /\ scan[s].op \notin Terminal /\ owner = Nobody
           /\ scan' = [scan EXCEPT ![s].status = "running",
                                   ![s].op = IF @ = "queued" THEN "running" ELSE @]
           /\ \E d \in SUBSET {c \in Dir : dirs[s][c] = "claimed"} :
                  /\ Outlive \/ d = {c \in Dir : dirs[s][c] = "claimed"}
                  /\ dirs' = [dirs EXCEPT ![s] =
                         [c \in Dir |-> IF c \in d THEN "interrupted" ELSE @[c]]]
           /\ keeper' = w /\ owner' = w
           /\ at' = [at EXCEPT ![w] = "loop"]
           /\ run' = [run EXCEPT ![w] = [scan |-> s, dir |-> "none"]]
    /\ UNCHANGED <<found, asked, spent>> /\ UNCHANGED archive

\* A worker that lost its lease leaves the scan to the next one.
Quits(w) ==
    LET s == run[w].scan IN
    /\ scan' = IF scan[s].status \in Active \/ Late
               THEN [scan EXCEPT ![s].status = "interrupted"] ELSE scan
    /\ Releases(w) /\ owner' = IF owner = w THEN Nobody ELSE owner
    /\ Idle(w)

\* _terminalize_scan: the row of the scan and, fenced, that of its operation.
Terminalizes(w, status) ==
    LET s == run[w].scan
        stale == scan[s].stale \/ scan[s].mount # mounted
        end == IF status # "" THEN status
               ELSE IF scan[s].failed \/ stale THEN "partial" ELSE "completed"
    IN
    IF owner # w THEN Quits(w)
    ELSE /\ scan' = [scan EXCEPT ![s].status = end, ![s].op = end, ![s].slot = FALSE,
                                 ![s].stale = stale]
         /\ Releases(w) /\ owner' = Nobody /\ Idle(w)

\* The head of the loop: a cancellation, or the renewal of the lease.
Loop(w) ==
    LET s == run[w].scan IN
    /\ at[w] = "loop"
    /\ IF scan[s].cancel \/ scan[s].op = "cancel_requested" THEN Terminalizes(w, "cancelled")
       ELSE IF keeper # w THEN Quits(w)
       ELSE Goes(w, "unit") /\ UNCHANGED scan /\ UNCHANGED lease
    /\ UNCHANGED <<dirs, found, asked, spent>> /\ UNCHANGED archive

\* After each unit the heartbeat of the operation, that tells a lost lease.
Beats(w, moved) ==
    IF owner = w THEN Goes(w, "loop") /\ scan' = moved /\ UNCHANGED lease
    ELSE /\ scan' = IF moved[run[w].scan].status \in Active \/ Late
                    THEN [moved EXCEPT ![run[w].scan].status = "interrupted"] ELSE moved
         /\ Releases(w) /\ UNCHANGED owner /\ Idle(w)

\* _process_metadata_unit, with the one page there is; the next finds none.
ClassifySegments(w) ==
    LET s == run[w].scan
        seen == obj.row # "none" /\ obj.known < s
        skipped == obj.row = "writing" \/ SegmentRecent(s) \/ ~mounted
                   \/ (obj.file # "none" /\ FileRecent)
    IN
    /\ at[w] = "unit" /\ scan[s].phase = "metadata"
    /\ \/ /\ seen /\ ~skipped /\ Converges
          /\ obj' = [obj EXCEPT !.row = "final", !.receipt = "final", !.updated = now]
          /\ UNCHANGED found
       \/ /\ ~(seen /\ ~skipped /\ Converges)
          /\ found' = IF seen /\ ~skipped /\ MetadataCategory # "none"
                      THEN [found EXCEPT ![s].meta = MetadataCategory] ELSE found
          /\ UNCHANGED obj
    /\ Beats(w, [scan EXCEPT ![s].phase = "rows"])
    /\ UNCHANGED <<dirs, asked, mounted, now, spent>>

EndSegments(w) ==
    LET s == run[w].scan IN
    /\ at[w] = "unit" /\ scan[s].phase = "rows"
    /\ scan' = [scan EXCEPT ![s].phase = "filesystem"]
    /\ Goes(w, "loop")
    /\ UNCHANGED <<dirs, found, asked, spent>> /\ UNCHANGED lease /\ UNCHANGED archive

\* _claim_directory.
ClaimDirectory(w) ==
    LET s == run[w].scan IN
    /\ at[w] = "unit" /\ scan[s].phase \notin {"metadata", "rows"}
    /\ \E d \in Dir :
        /\ dirs[s][d] \in {"queued", "interrupted"}
        /\ IF keeper = w \/ Outlive
           THEN /\ dirs' = [dirs EXCEPT ![s][d] = "claimed"]
                /\ run' = [run EXCEPT ![w].dir = d] /\ at' = [at EXCEPT ![w] = "walk"]
                /\ UNCHANGED scan /\ UNCHANGED lease
           ELSE Quits(w) /\ UNCHANGED dirs
    /\ UNCHANGED <<found, asked, spent>> /\ UNCHANGED archive

\* The entries of a directory, of which a checkpoint may be kept; the root may be gone,
\* and among many entries the heartbeat tells a lost lease.
Walk(w) ==
    LET s == run[w].scan
        d == run[w].dir
    IN
    /\ at[w] = "walk"
    /\ \/ /\ ~mounted
          /\ dirs' = [dirs EXCEPT ![s][d] = "failed"]
          /\ scan' = [scan EXCEPT ![s].failed = TRUE, ![s].stale = TRUE]
          /\ Goes(w, "loop") /\ UNCHANGED found /\ UNCHANGED lease
       \/ /\ mounted
          /\ IF d = "top"
             THEN /\ dirs' = IF dirs[s]["sub"] = "none"
                             THEN [dirs EXCEPT ![s]["sub"] = "queued"] ELSE dirs
                  /\ UNCHANGED found
             ELSE found' = [found EXCEPT ![s].file = Classified(s)] /\ UNCHANGED dirs
          /\ Goes(w, "walked") /\ UNCHANGED scan /\ UNCHANGED lease
       \/ mounted /\ owner # w /\ Quits(w) /\ UNCHANGED <<dirs, found>>
    /\ UNCHANGED <<asked, spent>> /\ UNCHANGED archive

\* The end of the walk; the directory may have changed under it or become unreadable.
EndWalk(w) ==
    LET s == run[w].scan
        d == run[w].dir
    IN
    /\ at[w] = "walked"
    /\ \/ /\ dirs' = [dirs EXCEPT ![s][d] = "completed"]
          /\ Beats(w, scan) /\ UNCHANGED spent
       \/ /\ dirs' = [dirs EXCEPT ![s][d] = "failed"]
          /\ Beats(w, [scan EXCEPT ![s].failed = TRUE]) /\ Event
    /\ UNCHANGED <<found, asked>> /\ UNCHANGED archive

Incomplete(s) == \E d \in Dir : dirs[s][d] \in {"queued", "claimed", "interrupted"}

\* Nothing to claim: the claims of others are waited for, or the scan ends.
Finish(w) ==
    LET s == run[w].scan IN
    /\ at[w] = "unit" /\ scan[s].phase \notin {"metadata", "rows"}
    /\ \A d \in Dir : dirs[s][d] \notin {"queued", "interrupted"}
    /\ IF Incomplete(s) THEN Goes(w, "loop") /\ UNCHANGED scan /\ UNCHANGED lease
                        ELSE Terminalizes(w, "")
    /\ UNCHANGED <<dirs, found, asked, spent>> /\ UNCHANGED archive

\* An exception ends the scan as failed, or, if that fails too, leaves it interrupted.
Raises(w) ==
    /\ at[w] \in {"loop", "unit", "walk", "walked"} /\ Event
    /\ \/ IF scan[run[w].scan].status \in Active THEN Terminalizes(w, "failed")
          ELSE Releases(w) /\ Idle(w) /\ UNCHANGED <<scan, owner>>
       \/ Quits(w)
    /\ UNCHANGED <<dirs, found, asked>> /\ UNCHANGED archive

WorkerStep(w) ==
    \/ Begin(w) \/ Loop(w) \/ ClassifySegments(w) \/ EndSegments(w) \/ ClaimDirectory(w)
    \/ Walk(w) \/ EndWalk(w) \/ Finish(w) \/ Raises(w)

-----------------------------------------------------------------------------
(* Processes, time and the archive.                                        *)

\* A worker dies; its leases run out after a while.
Crash(w) ==
    /\ at[w] # "idle" /\ Event /\ Idle(w)
    /\ UNCHANGED <<scan, dirs, found, asked>> /\ UNCHANGED lease /\ UNCHANGED archive

\* A worker is held up so long that its leases run out.
Stall(w) ==
    /\ at[w] # "idle" /\ keeper = w /\ Event
    /\ keeper' = Nobody /\ owner' = IF owner = w THEN Nobody ELSE owner
    /\ UNCHANGED <<scan, dirs, found, at, run, asked>> /\ UNCHANGED archive

LeaseEnds ==
    /\ \/ keeper \in Worker /\ at[keeper] = "idle" /\ keeper' = Nobody /\ UNCHANGED owner
       \/ owner \in Worker /\ at[owner] = "idle" /\ owner' = Nobody /\ UNCHANGED keeper
    /\ UNCHANGED <<scan, dirs, found, at, run, asked, spent>> /\ UNCHANGED archive

\* invalidate_integrity_truth_after_restore; no worker runs then.
Invalidate ==
    /\ \A w \in Worker : at[w] = "idle"
    /\ Begun # {} /\ Event
    /\ scan' = [s \in Scans |->
           IF s \notin Begun THEN scan[s]
           ELSE [scan[s] EXCEPT !.stale = TRUE, !.slot = FALSE, !.cancel = FALSE,
                    !.status = IF scan[s].slot \/ @ \in Active THEN "failed" ELSE @,
                    !.op = IF @ \in Terminal THEN @ ELSE "failed"]]
    /\ found' = [s \in Scans |-> NoFinding]
    /\ dirs' = [s \in Scans |-> [d \in Dir |->
           IF dirs[s][d] \in {"queued", "claimed", "interrupted"} THEN "failed"
           ELSE dirs[s][d]]]
    /\ owner' = Nobody /\ asked' = <<>>
    /\ UNCHANGED <<at, run, keeper>> /\ UNCHANGED archive

Changes(o) ==
    /\ Event /\ obj' = o
    /\ scan' = [s \in Scans |-> [scan[s] EXCEPT !.calm = scan[s].status = "none"]]
    /\ UNCHANGED <<dirs, found, at, run, asked, mounted, now>> /\ UNCHANGED lease

\* The recorder, retention, and others who put files there or take them.
Record ==
    /\ obj.row = "none" /\ obj.file = "none"
    /\ \E ino \in {obj.ino + 1} \cup (IF Reuse THEN {obj.ino} ELSE {}) :
           Changes([file |-> "good", ino |-> ino, born |-> now, row |-> "writing",
                    known |-> IF Begun = {} THEN 0 ELSE LatestOf(Begun), updated |-> now,
                    receipt |-> "writing"])

Finalize ==
    obj.row = "writing" /\ Changes([obj EXCEPT !.row = "final", !.receipt = "final",
                                               !.updated = now])
WriterDies == obj.row = "writing" /\ Changes([obj EXCEPT !.row = "stale", !.updated = now])
LoseFile == obj.file # "none" /\ Changes([obj EXCEPT !.file = "none"])
LoseRow == obj.row # "none" /\ Changes([obj EXCEPT !.row = "none", !.updated = now])
Retire == obj.row # "none" /\ Changes([obj EXCEPT !.row = "none", !.file = "none"])
Damage ==
    obj.file = "good" /\ obj.row # "writing"
    /\ Changes([obj EXCEPT !.file = "bad", !.born = now,
                           !.receipt = IF obj.row = "stale" THEN @ ELSE "none"])
Remount ==
    /\ Event /\ mounted' = ~mounted
    /\ scan' = [s \in Scans |-> [scan[s] EXCEPT !.calm = scan[s].status = "none"]]
    /\ UNCHANGED <<dirs, found, at, run, asked, obj, now>> /\ UNCHANGED lease

World == Record \/ Finalize \/ WriterDies \/ LoseFile \/ LoseRow \/ Retire \/ Damage \/ Remount

Tick ==
    /\ now < MaxTime /\ now' = now + 1
    /\ UNCHANGED <<scan, dirs, found, at, run, asked, obj, mounted, spent>> /\ UNCHANGED lease

Next ==
    \/ Start \/ QueueDirectories \/ CancelOperation \/ CancelScan
    \/ \E w \in Worker : WorkerStep(w) \/ Crash(w) \/ Stall(w)
    \/ LeaseEnds \/ Invalidate \/ World \/ Tick

-----------------------------------------------------------------------------
TypeOK ==
    /\ \A s \in Scans : scan[s].status \in {"none"} \cup Active \cup Terminal
    /\ obj \in Recordings
    /\ keeper \in Worker \cup {Nobody} /\ owner \in Worker \cup {Nobody}

\* One scan at a time is active, and what is said of one that came to its end is said of
\* its operation too.
ScansAccounted ==
    /\ \A s, t \in ActiveScan : s = t
    /\ \A s \in Begun :
        /\ scan[s].slot <=> scan[s].status \in Active
        /\ scan[s].status \in Terminal => scan[s].op \in {scan[s].status, "cancelled"}
        /\ scan[s].status \in {"completed", "partial"} => scan[s].op = scan[s].status

\* The deletion of a file without a recording is offered only when two scans that came
\* to their end saw this file, a grace apart.
ActionsGrounded ==
    \A s \in Scans : found[s].file.action =>
        \E t \in Scans \ {s} :
            /\ scan[t].status \in {"completed", "partial"}
            /\ found[t].file.cat = "orphan_file" /\ found[t].file.ino = found[s].file.ino
            /\ scan[t].cutoff + 1 <= scan[s].cutoff

\* A completed scan of an archive that nobody changed meanwhile tells what is wrong with
\* it, and nothing else.
CompletedTellsAll ==
    \A s \in Scans :
        /\ scan[s].status = "completed" /\ ~scan[s].stale /\ scan[s].calm
        /\ obj.born < scan[s].cutoff /\ obj.updated < scan[s].cutoff
        =>   /\ found[s].meta = IF obj.row = "none" THEN "none" ELSE MetadataCategory
             /\ found[s].file.cat = IF obj.row # "none" \/ obj.file = "none" THEN "none"
                                    ELSE IF obj.receipt = "final" THEN "orphan_file"
                                    ELSE "pre_metadata_km_vms_file"

IntegrityTruthful == TypeOK /\ ScansAccounted /\ ActionsGrounded /\ CompletedTellsAll

AllEnded == ActiveScan = {}
=============================================================================

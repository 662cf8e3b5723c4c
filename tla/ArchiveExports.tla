--------------------------- MODULE ArchiveExports ---------------------------
(***************************************************************************)
(* Exports of archive clips as evidence (services/archive_exports): a job  *)
(* is created under a limit, generated by ffmpeg under a lease, described  *)
(* by a manifest that states the checksum of the clip, and removed after   *)
(* it expired.  Requests of several API processes interleave; the database *)
(* session of a request writes only the columns the request changed.       *)
(*                                                                         *)
(* The content of a clip is the attempt that wrote it and the versions of  *)
(* the source recordings that went into it; its checksum is that content.  *)
(***************************************************************************)
EXTENDS Naturals, FiniteSets

CONSTANTS
    Export,        \* jobs of one user
    Request,       \* requests that create, generate or describe an export
    Cleaner,       \* cleanup requests
    Limit,         \* MAX_ACTIVE_JOBS_PER_USER
    MaxAttempts,   \* bound on generations of all exports
    MaxCrashes,    \* bound on restarts of the process
    MaxChanges     \* bound on changes of the source recordings

VARIABLES
    job,       \* the database rows
    due,       \* exports whose expires_at has passed
    clip,      \* the clip files
    manifest,  \* the manifest files: the checksum each states
    source,    \* the version of the source recordings; 0 when they are gone
    req,       \* what each request is doing
    clean,     \* what each cleanup is doing
    spent      \* how much of each bound is used up

vars == <<job, due, clip, manifest, source, req, clean, spent>>

-----------------------------------------------------------------------------
Content == [by : 1 .. MaxAttempts, of : SUBSET (0 .. MaxChanges + 1)]
Absent == [by |-> 0, of |-> {}]
Status == {"none", "queued", "running", "done", "failed", "expired"}
Row == [status : Status, out : BOOLEAN, man : BOOLEAN, sum : Content \cup {Absent}]

\* of: the source versions read so far; from: the version validated; sum: the
\* checksum a manifest will state; known: internal_manifest_path as loaded.
Req == [pc : {"off", "counted", "leased", "running", "trimmed", "written", "checked",
              "failing", "describing", "described"},
        e : Export, from : 0 .. MaxChanges + 1, of : SUBSET (0 .. MaxChanges + 1),
        sum : Content \cup {Absent}, known : BOOLEAN]

\* row: the rows as the cleanup read them; expired, cleared and undescribed: the
\* changes it has not yet committed.
Clean == [pc : {"off", "going"}, todo : SUBSET Export, row : [Export -> Row],
          expired : SUBSET Export, cleared : SUBSET Export, undescribed : SUBSET Export]
NoRow == [status |-> "none", out |-> FALSE, man |-> FALSE, sum |-> Absent]
CleanOff == [pc |-> "off", todo |-> {}, row |-> [e \in Export |-> NoRow],
             expired |-> {}, cleared |-> {}, undescribed |-> {}]

ReqOff(e) == [pc |-> "off", e |-> e, from |-> 0, of |-> {}, sum |-> Absent, known |-> FALSE]
AnyExport == CHOOSE e \in Export : TRUE

Generating == {"leased", "running", "trimmed", "written", "checked", "failing"}

Init ==
    /\ job = [e \in Export |-> NoRow]
    /\ due = {}
    /\ clip = [e \in Export |-> Absent]
    /\ manifest = [e \in Export |-> Absent]
    /\ source = 1
    /\ req = [r \in Request |-> ReqOff(AnyExport)]
    /\ clean = [c \in Cleaner |-> CleanOff]
    /\ spent = [attempts |-> 0, crashes |-> 0]

Go(r, pc) == req' = [req EXCEPT ![r].pc = pc]
End(r) == req' = [req EXCEPT ![r] = ReqOff(AnyExport)]

-----------------------------------------------------------------------------
(* Creation.                                                               *)

Active == {e \in Export : job[e].status \in {"queued", "running"}}

\* The request counts the active jobs and looks at the sources; the row follows.
Count(r, e) ==
    /\ req[r].pc = "off"
    /\ job[e].status = "none"
    /\ \A q \in Request : req[q].pc = "counted" => req[q].e # e
    /\ Cardinality(Active) < Limit
    /\ source # 0
    /\ req' = [req EXCEPT ![r] = [ReqOff(e) EXCEPT !.pc = "counted"]]
    /\ UNCHANGED <<job, due, clip, manifest, source, clean, spent>>

Insert(r) ==
    /\ req[r].pc = "counted"
    /\ job' = [job EXCEPT ![req[r].e].status = "queued"]
    /\ End(r)
    /\ UNCHANGED <<due, clip, manifest, source, clean, spent>>

-----------------------------------------------------------------------------
(* Generation.                                                             *)

\* Slip: the process lock and the advisory lock are not taken.
LeaseIgnored(e) == TRUE

\* _generation_lock and _generation_database_lease.
LeaseFree(e) == \A r \in Request : req[r].pc \in Generating => req[r].e # e

Lease(r, e) ==
    /\ req[r].pc = "off"
    /\ LeaseFree(e)
    /\ job[e].status \in {"queued", "running"}   \* running: resume_interrupted
    /\ req' = [req EXCEPT ![r] = [ReqOff(e) EXCEPT !.pc = "leased"]]
    /\ UNCHANGED <<job, due, clip, manifest, source, clean, spent>>

\* revalidate_job_sources; the row says running unless it is cancelled by a failure.
\* A row that was read as running is not written again.
Validate(r) ==
    LET e == req[r].e IN
    /\ req[r].pc = "leased"
    /\ \/ /\ source = 0
          /\ Go(r, "failing")
          /\ UNCHANGED <<job, spent>>
       \/ /\ source # 0
          /\ spent.attempts < MaxAttempts
          /\ job' = [job EXCEPT ![e].status = IF @ = "queued" THEN "running" ELSE @]
          /\ spent' = [spent EXCEPT !.attempts = @ + 1]
          /\ req' = [req EXCEPT ![r].pc = "running", ![r].from = source,
                                ![r].sum = [by |-> spent.attempts + 1, of |-> {}]]
    /\ UNCHANGED <<due, clip, manifest, source, clean>>

\* _trim_segment: one part after the other reads the sources, or a part fails.
Trim(r) ==
    /\ req[r].pc = "running"
    /\ \/ /\ source # 0
          /\ req' = [req EXCEPT ![r].pc = "trimmed", ![r].of = {source}]
       \/ Go(r, "failing")
    /\ UNCHANGED <<job, due, clip, manifest, source, clean, spent>>

\* The last part, then move or _concat_segments: a failure may leave a partial output.
Write(r) ==
    LET e == req[r].e
        part == [req[r].sum EXCEPT !.of = req[r].of]
        whole == [req[r].sum EXCEPT !.of = req[r].of \cup {source}]
    IN
    /\ req[r].pc = "trimmed"
    /\ \/ /\ source # 0
          /\ clip' = [clip EXCEPT ![e] = whole]
          /\ req' = [req EXCEPT ![r].pc = "written", ![r].sum = whole]
       \/ /\ clip' \in {clip, [clip EXCEPT ![e] = part]}
          /\ Go(r, "failing")
    /\ UNCHANGED <<job, due, manifest, source, clean, spent>>

\* _validate_output and _assert_sources_unchanged.  The sources being gone raises what
\* no handler catches: the job stays running and the clip stays.
Check(r) ==
    /\ req[r].pc = "written"
    /\ \/ source = req[r].from /\ Go(r, "checked")
       \/ source # 0 /\ Go(r, "failing")
       \/ source = 0 /\ End(r)
    /\ UNCHANGED <<job, due, clip, manifest, source, clean, spent>>

Finish(r) ==
    LET e == req[r].e IN
    /\ req[r].pc = "checked"
    /\ job' = [job EXCEPT ![e] = [status |-> "done", out |-> TRUE, man |-> FALSE, sum |-> clip[e]]]
    /\ End(r)
    /\ UNCHANGED <<due, clip, manifest, source, clean, spent>>

\* _mark_failed after the output is unlinked.
Fail(r) ==
    LET e == req[r].e IN
    /\ req[r].pc = "failing"
    /\ clip' = [clip EXCEPT ![e] = Absent]
    /\ job' = [job EXCEPT ![e].status = "failed"]
    /\ End(r)
    /\ UNCHANGED <<due, manifest, source, clean, spent>>

-----------------------------------------------------------------------------
(* The manifest.                                                           *)

\* _build_manifest: the clip is validated and its checksum compared with the job's.
Describe(r, e) ==
    /\ req[r].pc = "off"
    /\ job[e].status = "done"
    /\ job[e].out
    /\ clip[e] # Absent
    /\ clip[e] = job[e].sum
    /\ req' = [req EXCEPT ![r] = [ReqOff(e) EXCEPT !.pc = "describing", !.sum = clip[e],
                                                   !.known = job[e].man]]
    /\ UNCHANGED <<job, due, clip, manifest, source, clean, spent>>

\* The verified temporary file replaces the manifest.
Replace(r) ==
    /\ req[r].pc = "describing"
    /\ manifest' = [manifest EXCEPT ![req[r].e] = req[r].sum]
    /\ Go(r, "described")
    /\ UNCHANGED <<job, due, clip, source, clean, spent>>

\* internal_manifest_path; a path that was there already is not written again.
Register(r) ==
    LET e == req[r].e IN
    /\ req[r].pc = "described"
    /\ job' = [job EXCEPT ![e].man = @ \/ ~req[r].known]
    /\ End(r)
    /\ UNCHANGED <<due, clip, manifest, source, clean, spent>>

-----------------------------------------------------------------------------
(* Cleanup.                                                                *)

Expire(e) ==
    /\ job[e].status # "none"
    /\ e \notin due
    /\ due' = due \cup {e}
    /\ UNCHANGED <<job, clip, manifest, source, req, clean, spent>>

\* Slip: what is finished is selected, expired or not.
SelectedFinished(e) == job[e].status # "none" /\ (job[e].out \/ job[e].man)

\* The rows a cleanup selects; bound: all of them fit in its limit.
Selected(e) ==
    /\ job[e].status = "expired" => job[e].out \/ job[e].man
    /\ job[e].status # "expired" => e \in due

CleanStart(c) ==
    /\ clean[c].pc = "off"
    /\ \E e \in Export : Selected(e)
    /\ clean' = [clean EXCEPT ![c] = [CleanOff EXCEPT !.pc = "going", !.row = job,
                                                     !.todo = {e \in Export : Selected(e)}]]
    /\ UNCHANGED <<job, due, clip, manifest, source, req, spent>>

\* The files the row names are unlinked; an unlink may fail.
CleanOne(c, e) ==
    LET row == clean[c].row[e]
        named == {f \in {"clip", "manifest"} : IF f = "clip" THEN row.out ELSE row.man}
    IN
    /\ clean[c].pc = "going"
    /\ e \in clean[c].todo
    /\ \E files \in SUBSET named :
           /\ clip' = IF "clip" \in files THEN [clip EXCEPT ![e] = Absent] ELSE clip
           /\ manifest' = IF "manifest" \in files
                          THEN [manifest EXCEPT ![e] = Absent] ELSE manifest
           /\ clean' = [clean EXCEPT
                 ![c].todo = @ \ {e},
                 ![c].expired = IF row.status # "expired" THEN @ \cup {e} ELSE @,
                 ![c].cleared = IF "clip" \in files THEN @ \cup {e} ELSE @,
                 ![c].undescribed = IF "manifest" \in files THEN @ \cup {e} ELSE @]
    /\ UNCHANGED <<job, due, source, req, spent>>

CleanCommit(c) ==
    /\ clean[c].pc = "going"
    /\ clean[c].todo = {}
    /\ job' = [e \in Export |->
                [status |-> IF e \in clean[c].expired THEN "expired" ELSE job[e].status,
                 out |-> job[e].out /\ e \notin clean[c].cleared,
                 man |-> job[e].man /\ e \notin clean[c].undescribed,
                 sum |-> IF e \in clean[c].cleared THEN Absent ELSE job[e].sum]]
    /\ clean' = [clean EXCEPT ![c] = CleanOff]
    /\ UNCHANGED <<due, clip, manifest, source, req, spent>>

-----------------------------------------------------------------------------
\* The process that serves all requests restarts: its locks and leases are free.
Crash ==
    /\ spent.crashes < MaxCrashes
    /\ spent' = [spent EXCEPT !.crashes = @ + 1]
    /\ req' = [r \in Request |-> ReqOff(AnyExport)]
    /\ clean' = [c \in Cleaner |-> CleanOff]
    /\ UNCHANGED <<job, due, clip, manifest, source>>

\* External: a recording is deleted, rewritten or moved.
SourceChanges ==
    /\ source \in 1 .. MaxChanges
    /\ source' \in {source + 1, 0}
    /\ UNCHANGED <<job, due, clip, manifest, req, clean, spent>>

Generate(r) == Validate(r) \/ Trim(r) \/ Write(r) \/ Check(r) \/ Finish(r) \/ Fail(r)

Next ==
    \/ \E r \in Request :
           \/ \E e \in Export : Count(r, e) \/ Lease(r, e) \/ Describe(r, e)
           \/ Insert(r) \/ Generate(r) \/ Replace(r) \/ Register(r)
    \/ \E e \in Export : Expire(e) \/ \E c \in Cleaner : CleanOne(c, e)
    \/ \E c \in Cleaner : CleanStart(c) \/ CleanCommit(c)
    \/ Crash \/ SourceChanges

Spec == Init /\ [][Next]_vars

-----------------------------------------------------------------------------
TypeOK ==
    /\ job \in [Export -> Row]
    /\ due \subseteq Export
    /\ clip \in [Export -> Content \cup {Absent}]
    /\ manifest \in [Export -> Content \cup {Absent}]
    /\ source \in 0 .. MaxChanges + 1
    /\ req \in [Request -> Req]
    /\ clean \in [Cleaner -> Clean]
    /\ spent \in [attempts : 0 .. MaxAttempts, crashes : 0 .. MaxCrashes]

\* The clip of a finished export is the one its checksum was taken of, whoever resumed
\* the export after a restart, and whatever was cleaned up meanwhile.
ClipIntact ==
    \A e \in Export : job[e].status = "done" /\ clip[e] # Absent => clip[e] = job[e].sum

\* A manifest that is registered states the checksum of the clip beside it.
ManifestTruthful ==
    \A e \in Export : job[e].status = "done" /\ job[e].man /\ Absent \notin {clip[e], manifest[e]} =>
        manifest[e] = clip[e]

\* A finished clip was cut from one version of its sources, all of them unchanged from
\* their validation to the end of the cut.
EvidenceUnmixed ==
    \A e \in Export : job[e].sum # Absent => \E v \in 0 .. MaxChanges + 1 : job[e].sum.of = {v}

\* Evidence is not lost before it expires: neither a failure of another attempt nor a
\* cleanup takes the clip or the manifest of a finished export.
KeepsEvidence ==
    \A e \in Export : job[e].status = "done" /\ e \notin due =>
        /\ clip[e] # Absent => clip'[e] = clip[e]
        /\ job'[e].man \/ ~job[e].man
EvidenceKept == [][KeepsEvidence]_vars

\* What the rows of the exports say of their files is true, between the steps of any
\* requests, cleanups and restarts.
EvidenceTruthful == TypeOK /\ ClipIntact /\ ManifestTruthful

=============================================================================

----------------------------- MODULE MCServices -----------------------------
(***************************************************************************)
(* Instances for TLC of components that share no state with each other.    *)
(* A behaviour is one of a single component, chosen at the start; the      *)
(* variables of the others keep their first values.  The deletion of       *)
(* recordings is extended, so that the properties checked here are those   *)
(* its theorems state; the other components are instances.                 *)
(***************************************************************************)
EXTENDS RecordingDeletion, FiniteSets, Sequences, TLC

CONSTANTS
    Export, Asker, Cleaner, MaxActive, MaxAttempts, MaxCrashes, MaxVersions,  \* exports
    Remedies, Appliers, Refill, MaxFailures,                                  \* remediation
    e1, q1, q2, x1, w1, w2, p1, p2

VARIABLES
    scope,
    job, due, clip, manifest, source, asks, clean,            \* exports
    setting, pass, writer, rows, files, era,                  \* recorder
    scan, dirs, found, at, run, keeper, owner, asked, obj, mounted, now,     \* integrity
    kind, finding, plan, file, row, doing, coord, scoped, touched,           \* remediation
    item, paths, place, op, work, world,                      \* migration
    used

exportVars == <<job, due, clip, manifest, source, asks, clean>>
recorderVars == <<job, setting, pass, writer, rows, files, era>>
integrityVars == <<scan, dirs, found, at, run, keeper, owner, asked, obj, mounted, now>>
remedyVars == <<kind, finding, plan, file, row, doing, coord, scoped, touched>>
migrationVars == <<item, paths, place, op, work, world>>

-----------------------------------------------------------------------------
ASSUME ExportAssumption ==
    /\ Export # {}
    /\ MaxActive \in Nat /\ MaxAttempts \in Nat /\ MaxCrashes \in Nat /\ MaxVersions \in Nat

Exports == INSTANCE ArchiveExports WITH
    Request <- Asker, Limit <- MaxActive, MaxChanges <- MaxVersions,
    req <- asks, spent <- used

ExportsStep ==
    /\ scope = "exports" /\ Exports!Next
    /\ UNCHANGED <<scope, setting, pass, writer, rows, files, era>>
    /\ UNCHANGED <<integrityVars, remedyVars, migrationVars, vars>>

Recording == INSTANCE Recorder WITH
    MaxJobs <- 3, MaxFiles <- 2, Batch <- 2, MaxChanges <- 1, MaxMishaps <- 1,
    spent <- used

RecorderStep ==
    /\ scope = "recorder" /\ Recording!Next
    /\ UNCHANGED <<scope, due, clip, manifest, source, asks, clean>>
    /\ UNCHANGED <<integrityVars, remedyVars, migrationVars, vars>>

Integrity == INSTANCE IntegrityScan WITH
    Worker <- {w1, w2}, Late <- FALSE, Split <- FALSE, Reuse <- FALSE, Outlive <- FALSE,
    MaxScans <- 2, MaxTime <- 2, MaxEvents <- 1, spent <- used

IntegrityStep ==
    /\ scope = "integrity" /\ Integrity!Next
    /\ UNCHANGED <<scope, exportVars, recorderVars, remedyVars, migrationVars, vars>>

\* A plan and a thread are told from nobody.
ASSUME RemedyAssumption == Nobody \notin Appliers /\ Nobody \notin Remedies

Remedy == INSTANCE IntegrityRemediation WITH
    Plan <- Remedies, Executor <- Appliers, MaxEvents <- MaxFailures,
    exec <- doing, spent <- used

RemedyStep ==
    /\ scope = "remediation" /\ Remedy!Next
    /\ UNCHANGED <<scope, exportVars, recorderVars, integrityVars, migrationVars, vars>>

Migration == INSTANCE ArchiveMigration WITH
    ItemCount <- 1, Worker <- {w1, w2}, NoWorker <- Nobody, MaxRetryDepth <- 1,
    Mishaps <- {"crash", "lease", "corrupt"}, MaxMishaps <- 3,
    file <- paths, seg <- place

MigrationStep ==
    /\ scope = "migration" /\ Migration!Next
    /\ UNCHANGED <<scope, used, exportVars, recorderVars, integrityVars, remedyVars, vars>>

Named == x1 :> {2}

DeletionStep ==
    /\ scope = "deletion" /\ Next
    /\ UNCHANGED <<scope, used, exportVars, recorderVars, integrityVars, remedyVars, migrationVars>>

-----------------------------------------------------------------------------
Start ==
    /\ scope \in {"exports", "recorder", "integrity", "remediation", "migration", "deletion"}
    /\ IF scope = "exports" THEN Exports!Init
       ELSE due = 0 /\ clip = 0 /\ manifest = 0 /\ source = 0 /\ asks = 0 /\ clean = 0
    /\ IF scope = "recorder" THEN Recording!Init
       ELSE setting = 0 /\ pass = 0 /\ writer = 0 /\ rows = 0 /\ files = 0 /\ era = 0
    /\ IF scope = "integrity" THEN Integrity!Init
       ELSE /\ scan = 0 /\ dirs = 0 /\ found = 0 /\ at = 0 /\ run = 0 /\ keeper = 0 /\ owner = 0
            /\ asked = 0 /\ obj = 0 /\ mounted = 0 /\ now = 0
    /\ IF scope = "remediation" THEN Remedy!Init
       ELSE /\ kind = 0 /\ finding = 0 /\ plan = 0 /\ file = 0 /\ row = 0 /\ doing = 0
            /\ coord = 0 /\ scoped = 0 /\ touched = 0
    /\ IF scope = "migration" THEN Migration!Init /\ used = 0
       ELSE item = 0 /\ paths = 0 /\ place = 0 /\ op = 0 /\ work = 0 /\ world = 0
    /\ Init /\ (scope # "deletion" => Finalized = Seg)
    /\ scope \notin {"exports", "recorder"} => job = 0
    /\ scope = "deletion" => used = 0

AnyStep ==
    \/ ExportsStep \/ RecorderStep \/ IntegrityStep \/ RemedyStep
    \/ MigrationStep \/ DeletionStep

Services ==
    /\ Start
    /\ [][AnyStep]_<<exportVars, recorderVars, integrityVars, remedyVars, migrationVars, vars,
                     scope, used>>

recordingVars == Recording!vars
RecordingFairness ==
    /\ WF_recordingVars(scope = "recorder" /\ Recording!Loop)
    /\ WF_recordingVars(scope = "recorder" /\ Recording!RetryDue)
    /\ WF_recordingVars(scope = "recorder" /\ Recording!Silence)
    /\ WF_recordingVars(scope = "recorder" /\ Recording!NewFile)
    /\ WF_recordingVars(scope = "recorder" /\ Recording!Grow)

integrityScanVars == Integrity!vars
IntegrityFairness ==
    /\ \A w \in {w1, w2} :
           WF_integrityScanVars(scope = "integrity" /\ Integrity!WorkerStep(w))
    /\ WF_integrityScanVars(scope = "integrity" /\ Integrity!LeaseEnds)
    /\ WF_integrityScanVars(scope = "integrity" /\ Integrity!CancelScan)

remediationVars == Remedy!vars
RemedyFairness ==
    /\ \A e \in Appliers :
           /\ WF_remediationVars(scope = "remediation" /\ Remedy!Step(e))
           /\ \A p \in Remedies :
                  WF_remediationVars(scope = "remediation" /\ Remedy!Reclaim(e, p, "recovery"))
    /\ WF_remediationVars(scope = "remediation" /\ Remedy!LeaseEnds)
    /\ WF_remediationVars(scope = "remediation" /\ Remedy!ScopeEnds)

sagaVars == Migration!vars
MigrationFairness ==
    /\ \A w \in {w1, w2} : WF_sagaVars(scope = "migration" /\ Migration!WorkerStep(w))
    /\ WF_sagaVars(scope = "migration" /\ Migration!ExpireDeadLease)

FairServices ==
    /\ Services /\ RecordingFairness /\ IntegrityFairness /\ RemedyFairness
    /\ MigrationFairness

-----------------------------------------------------------------------------
\* What the rows of the exports say of their files is true, between the steps of any
\* requests, cleanups and restarts, and a finished clip was cut from one version of its
\* sources.
EvidenceTruthful ==
    scope = "exports" => Exports!EvidenceTruthful /\ Exports!EvidenceUnmixed

\* Neither another attempt nor a cleanup takes the evidence before it expires.
EvidenceKept == [][scope = "exports" => Exports!KeepsEvidence]_exportVars

\* A recorder keeps one open job row at most, the one it knows, and no writer without it.
JobsAccounted == scope = "recorder" => Recording!JobsAccounted

\* What the rows of the segments say is so, and comes to an end with the job.
SegmentsTruthful == scope = "recorder" => Recording!TypeOK /\ Recording!SegmentsTruthful

\* A scan tells the truth of the archive, and one that came to its end offers a deletion
\* only of what two scans saw.
IntegrityTruthful == scope = "integrity" => Integrity!IntegrityTruthful

\* A plan that remedies a finding removes only what was found, and what it did to the
\* files and what its rows say of that agree, whenever it is interrupted.
RemediationOK == scope = "remediation" => Remedy!RemediationOK

\* The recorder comes to serve the camera as its settings say and to settle its segments;
\* a scan of the archive comes to its end; and so does a plan whose request died.
ServicesSettle ==
    /\ []<>(scope = "recorder" => Recording!AllServed)
    /\ []<>(scope = "integrity" => Integrity!AllEnded)
    /\ []<>(scope = "remediation" => Remedy!NothingOwed)

\* Whatever its workers suffer, a migration comes to an end, a cancelled one included.
OperationEnds == []<>(scope = "migration" => Migration!OperationEnded)
=============================================================================

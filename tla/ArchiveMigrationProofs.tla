----------------------- MODULE ArchiveMigrationProofs -----------------------
(***************************************************************************)
(* Proofs about ArchiveMigration: its types, that the catalogued file is   *)
(* always there, that a settled item has left nothing behind, that the     *)
(* files of others are not touched, and that the saga implements           *)
(* SegmentMove.                                                            *)
(***************************************************************************)
EXTENDS ArchiveMigration, TLAPS

-----------------------------------------------------------------------------
(* Types.                                                                  *)

\* What a locked step starts from and what a row of the table may become.
LEMMA RowType ==
    ASSUME TypeOK, NEW w \in Worker
    PROVE  /\ work[w] \in WorkRow
           /\ work[w].item \in Item
           /\ item[work[w].item] \in ItemRow
           /\ Bound(work[w].item) \in ItemRow
BY BoundAssumption DEF TypeOK, WorkRow, ItemRow, OpRow, Bound

LEMMA GotoType ==
    ASSUME TypeOK, NEW w \in Worker, NEW s \in Place, Goto(w, s)
    PROVE  work' \in [Worker -> WorkRow]
BY DEF TypeOK, WorkRow, Goto

LEMMA StruckType ==
    ASSUME TypeOK, NEW kind, Trouble(kind)
    PROVE  Struck \in WorldRow
BY BoundAssumption DEF TypeOK, WorldRow, Trouble, Struck

LEMMA FailType ==
    ASSUME TypeOK, NEW w \in Worker, NEW mode \in RetryMode, Fail(w, mode)
    PROVE  work' \in [Worker -> WorkRow]
<1>1. CASE op.mode = "cleanup_only"
  <2> DEFINE want == IF CleanupWork THEN "cleanup_only" ELSE "refresh"
  <2>1. want \in RetryMode
    BY DEF RetryMode
  <2> HIDE DEF want
  <2>2. work' = [work EXCEPT ![w].at = "ending", ![w].want = want]
    BY <1>1 DEF Fail, want
  <2> QED
    BY <2>1, <2>2 DEF TypeOK, WorkRow, Place
<1>2. CASE op.mode # "cleanup_only"
  BY <1>2 DEF Fail, TypeOK, WorkRow, Place
<1> QED
  BY <1>1, <1>2

LEMMA EndsType ==
    ASSUME TypeOK, NEW w \in Worker, NEW status \in Ended, NEW mode \in RetryMode,
           Ends(w, status, mode)
    PROVE  op' \in OpRow /\ work' \in [Worker -> WorkRow]
<1>1. "idle" \in Place
  BY DEF Place
<1> QED
  BY <1>1, GotoType DEF Ends, TypeOK, OpRow

LEMMA CommitType ==
    ASSUME TypeOK, NEW w \in Worker, NEW row \in ItemRow, NEW next \in Place,
           Commit(w, row, next)
    PROVE  item' \in [Item -> ItemRow] /\ work' \in [Worker -> WorkRow] /\ world' \in WorldRow
BY GotoType, RowType DEF Commit, TypeOK

LEMMA AdoptedType ==
    ASSUME TypeOK, NEW i \in Item
    PROVE  Adopted(i) \in [Item -> ItemRow]
BY BoundAssumption DEF TypeOK, Adopted, ItemRow, OpRow

LEMMA DiesType ==
    ASSUME TypeOK, NEW w \in Worker, Dies(w)
    PROVE  item' \in [Item -> ItemRow] /\ work' \in [Worker -> WorkRow] /\ world' \in WorldRow
BY AdoptedType, GotoType, StruckType, RowType DEF Dies, Place

LEMMA ModeType == PermissionMode \in RetryMode
BY DEF PermissionMode, RetryMode

LEMMA CancelType == ASSUME TypeOK PROVE CancelRows \in [Item -> ItemRow]
BY DEF TypeOK, CancelRows, ItemRow, Phase, ItemTerminal

LEMMA TargetType ==
    ASSUME TypeOK, NEW i \in Item, NEW c \in Content
    PROVE  /\ [file EXCEPT ![i].temp = c] \in [Item -> FileRow]
           /\ [file EXCEPT ![i].final = c] \in [Item -> FileRow]
           /\ [file EXCEPT ![i].final = c, ![i].temp = "none"] \in [Item -> FileRow]
BY DEF TypeOK, FileRow, Content

LEMMA SourceType ==
    ASSUME TypeOK, NEW i \in Item
    PROVE  /\ [file EXCEPT ![i].source = FALSE] \in [Item -> FileRow]
           /\ [file EXCEPT ![i].aside = FALSE] \in [Item -> FileRow]
           /\ [file EXCEPT ![i].source = FALSE, ![i].aside = TRUE] \in [Item -> FileRow]
BY DEF TypeOK, FileRow

LEMMA TypeStep == TypeOK /\ [Next]_vars => TypeOK'
<1> SUFFICES ASSUME TypeOK, Next PROVE TypeOK'
  BY DEF TypeOK, vars
<1> USE DEF Place, Step, Phase, PreSwitch, Copying, Switched, ItemTerminal
<1>w. ASSUME NEW w \in Worker, WorkerStep(w) PROVE TypeOK'
  <2>r. work[w].item \in Item /\ Bound(work[w].item) \in ItemRow
    BY RowType
  <2>f. /\ item \in [Item -> ItemRow] /\ file \in [Item -> FileRow] /\ seg \in [Item -> SegRow]
        /\ op \in OpRow /\ work \in [Worker -> WorkRow] /\ world \in WorldRow
    BY DEF TypeOK
  <2>1. CASE Claim(w)
    BY <2>1, GotoType DEF Claim, TypeOK, OpRow, Active, Owned
  <2>2. CASE Begin(w)
    BY <2>2, GotoType, EndsType, ModeType DEF Begin, TypeOK, Ended
  <2>3. CASE FinishApply(w)
    BY <2>3, EndsType DEF FinishApply, TypeOK, Ended, RetryMode
  <2>4. CASE CancelPlanned(w)
    BY <2>4, CancelType, GotoType DEF CancelPlanned, TypeOK
  <2>5. CASE EndCancelled(w)
    BY <2>5, EndsType DEF EndCancelled, TypeOK, Ended, RetryMode
  <2>6. CASE StartItem(w)
    <3>1. PICK j \in Item : StartItem(w)!2!(j)
      BY <2>6 DEF StartItem
    <3>2. PermissionMode \in RetryMode /\ "refresh_plan" \in RetryMode /\ "after_free_space" \in RetryMode
      BY ModeType DEF RetryMode
    <3>3. StepFor(item[j].phase) \in Place
      BY DEF StepFor
    <3>4. PICK s \in Place, m \in RetryMode :
              \/ work' = [work EXCEPT ![w].item = j, ![w].at = s]
              \/ work' = [work EXCEPT ![w].item = j, ![w].at = s, ![w].want = m]
      BY <3>1, <3>2, <3>3
    <3>5. work' \in [Worker -> WorkRow]
      BY <3>4 DEF TypeOK, WorkRow
    <3> QED
      BY <2>6, <3>5 DEF StartItem, TypeOK
  <2>7. CASE HandleFailure(w)
    BY <2>7, <2>r, GotoType DEF HandleFailure, TypeOK, ItemRow
  <2>8. CASE EndInterrupted(w)
    BY <2>8, EndsType DEF EndInterrupted, TypeOK, WorkRow, Ended
  <2>9. CASE Abandon(w)
    BY <2>9, GotoType DEF Abandon, TypeOK
  <2>10. CASE FinishCleanup(w)
    BY <2>10, EndsType DEF FinishCleanup, TypeOK, Ended, RetryMode
  <2>11. CASE StartCleanup(w)
    <3>1. PICK j \in Item : StartCleanup(w)!2!(j)
      BY <2>11 DEF StartCleanup
    <3>2. op.no \in 0 .. MaxRetryDepth + 1 /\ item[j] \in ItemRow
      BY <2>f, BoundAssumption DEF OpRow
    <3>3. item' \in [Item -> ItemRow]
      <4>1. [Bound(j) EXCEPT !.phase = "blocked"] \in ItemRow
        BY <3>2 DEF Bound, ItemRow
      <4>2. item' = [item EXCEPT ![j] = [Bound(j) EXCEPT !.phase = "blocked"]] \/ item' = item
        BY <3>1
      <4> QED
        BY <4>1, <4>2, <2>f
    <3>4. CleanupEntry(item[j].phase) \in Place
      BY DEF CleanupEntry
    <3>5. work' \in [Worker -> WorkRow]
      BY <3>1, <3>4, GotoType DEF TypeOK, WorkRow
    <3> QED
      BY <2>11, <3>3, <3>5 DEF StartCleanup, TypeOK
  <2>12. CASE Refuse(w)
    BY <2>12, FailType DEF Refuse, TypeOK, RetryMode
  <2>13. CASE PermissionLost(w)
    BY <2>13, FailType, ModeType DEF PermissionLost, TypeOK
  <2>14. CASE StageTempCreateIntent(w)
    BY <2>14, <2>r, CommitType DEF StageTempCreateIntent, TypeOK, ItemRow
  <2>15. CASE CreateTemp(w)
    BY <2>15, <2>r, CommitType, DiesType, TargetType DEF CreateTemp, TypeOK, ItemRow, Content
  <2>16. CASE CopyBatch(w)
    <3>1. file' \in [Item -> FileRow]
      <4>1. PICK t \in Copied(file[work[w].item].temp) : file' = [file EXCEPT ![work[w].item].temp = t]
        BY <2>16 DEF CopyBatch
      <4>2. t \in Content
        BY DEF Copied, Content
      <4> QED
        BY <4>1, <4>2, <2>r, TargetType
    <3>2. item' \in [Item -> ItemRow] /\ work' \in [Worker -> WorkRow] /\ world' \in WorldRow
      BY <2>16, <2>r, CommitType, DiesType DEF CopyBatch
    <3> QED
      BY <2>16, <3>1, <3>2 DEF CopyBatch, TypeOK
  <2>17. CASE TempWritten(w)
    BY <2>17, <2>r, CommitType DEF TempWritten, TypeOK, ItemRow
  <2>18. CASE HashTemp(w)
    BY <2>18, GotoType DEF HashTemp, TypeOK
  <2>19. CASE RecordHash(w)
    BY <2>19, <2>r, CommitType DEF RecordHash, TypeOK, ItemRow
  <2>20. CASE FinalizeTarget(w)
    BY <2>20, <2>r, CommitType, DiesType, TargetType DEF FinalizeTarget, TypeOK, ItemRow, FileRow
  <2>21. CASE VerifyFinal(w)
    BY <2>21, GotoType DEF VerifyFinal, TypeOK
  <2>22. CASE SwitchMetadata(w)
    <3>1. seg' \in [Item -> SegRow]
      BY <2>22, <2>r DEF SwitchMetadata, TypeOK, SegRow
    <3>2. [Bound(work[w].item) EXCEPT !.phase = "metadata_switched", !.pending = TRUE] \in ItemRow
      BY <2>r DEF ItemRow
    <3>3. item' \in [Item -> ItemRow] /\ work' \in [Worker -> WorkRow] /\ world' \in WorldRow
      BY <2>22, <3>2, CommitType, FailType DEF SwitchMetadata, TypeOK, RetryMode
    <3> QED
      BY <2>22, <3>1, <3>3 DEF SwitchMetadata, TypeOK
  <2>23. CASE RecheckFinal(w)
    BY <2>23, GotoType DEF RecheckFinal, CleanupStep, TypeOK
  <2>24. CASE StageCleanup(w)
    BY <2>24, <2>r, CommitType DEF StageCleanup, TypeOK, ItemRow
  <2>25. CASE QuarantineSource(w)
    BY <2>25, <2>r, CommitType, DiesType, SourceType DEF QuarantineSource, TypeOK, ItemRow
  <2>26. CASE MarkDelete(w)
    BY <2>26, <2>r, CommitType DEF MarkDelete, TypeOK, ItemRow
  <2>27. CASE DeleteSource(w)
    BY <2>27, <2>r, CommitType, DiesType, SourceType DEF DeleteSource, TypeOK, ItemRow
  <2>28. CASE DropFinal(w)
    <3>1. item' \in [Item -> ItemRow]
      BY <2>28, <2>r, AdoptedType DEF DropFinal, TypeOK
    <3>2. file' \in [Item -> FileRow]
      BY <2>28, <2>r, TargetType DEF DropFinal, Content
    <3> QED
      BY <2>28, <3>1, <3>2, GotoType DEF DropFinal, TypeOK
  <2>29. CASE DropTemp(w)
    <3>1. item' \in [Item -> ItemRow]
      BY <2>29, <2>r, AdoptedType DEF DropTemp, TypeOK
    <3>2. file' \in [Item -> FileRow]
      BY <2>29, <2>r, TargetType DEF DropTemp, Content
    <3> QED
      BY <2>29, <3>1, <3>2, GotoType DEF DropTemp, TypeOK
  <2>30. CASE GiveUp(w)
    BY <2>30, <2>r, CommitType DEF GiveUp, TypeOK, ItemRow
  <2> QED
    BY <1>w, <2>1, <2>2, <2>3, <2>4, <2>5, <2>6, <2>7, <2>8, <2>9, <2>10, <2>11, <2>12, <2>13, <2>14, <2>15, <2>16, <2>17, <2>18, <2>19, <2>20, <2>21, <2>22, <2>23, <2>24, <2>25, <2>26, <2>27, <2>28, <2>29, <2>30 DEF WorkerStep
<1>1. ASSUME NEW w \in Worker, IoError(w) PROVE TypeOK'
  BY <1>1, FailType, StruckType DEF IoError, TypeOK, RetryMode
<1>2. ASSUME NEW w \in Worker, Crash(w) PROVE TypeOK'
  BY <1>2, GotoType, StruckType DEF Crash, TypeOK
<1>9. ASSUME NEW w \in Worker, SpoilBatch(w) PROVE TypeOK'
  <2>1. work[w].item \in Item /\ Bound(work[w].item) \in ItemRow
    BY RowType
  <2>2. file' \in [Item -> FileRow]
    BY <1>9, <2>1, TargetType DEF SpoilBatch, Content
  <2> QED
    BY <1>9, <2>1, <2>2, StruckType DEF SpoilBatch, TypeOK
<1>3. CASE Cancel
  BY <1>3, CancelType DEF Cancel, TypeOK, OpRow, Active, Owned, Ended
<1>4. CASE Retry
  <2>1. item' \in [Item -> ItemRow]
    BY <1>4 DEF Retry, TypeOK, ItemRow
  <2>2. op' \in OpRow
    <3>1. RetryDecision = "create_child" => op.no + 1 \in 1 .. MaxRetryDepth + 1
      BY BoundAssumption DEF RetryDecision, TypeOK, OpRow
    <3>2. (op.line /\ op.mode = "cleanup_only") \in BOOLEAN
      OBVIOUS
    <3> QED
      BY <1>4, <3>1, <3>2 DEF Retry, TypeOK, OpRow, Active
  <2> QED
    BY <1>4, <2>1, <2>2 DEF Retry, TypeOK
<1>5. CASE ExpireDeadLease
  BY <1>5 DEF ExpireDeadLease, TypeOK, OpRow
<1>6. CASE ExpireSlowLease
  BY <1>6, StruckType DEF ExpireSlowLease, TypeOK, OpRow
<1>7. CASE LosePermission \/ RestorePermission \/ RunOutOfSpace \/ FreeSpace
  BY <1>7, StruckType
     DEF LosePermission, RestorePermission, RunOutOfSpace, FreeSpace, TypeOK, WorldRow
<1>8. ASSUME NEW i \in Item, TouchSegment(i) \/ DeleteSegment(i) \/ ForeignFile(i) PROVE TypeOK'
  <2>1. file' \in [Item -> FileRow]
    <3>1. "none" \in Content /\ "foreign" \in Content
      BY DEF Content
    <3>2. CASE TouchSegment(i)
      BY <3>2 DEF TouchSegment, TypeOK
    <3>3. CASE DeleteSegment(i)
      BY <3>1, <3>3, TargetType, SourceType DEF DeleteSegment
    <3>4. CASE ForeignFile(i)
      <4>1. /\ [file EXCEPT ![i].temp = "foreign"] \in [Item -> FileRow]
            /\ [file EXCEPT ![i].final = "foreign"] \in [Item -> FileRow]
        BY <3>1, TargetType
      <4> QED
        BY <3>4, <4>1 DEF ForeignFile
    <3> QED
      BY <1>8, <3>2, <3>3, <3>4
  <2>2. seg' \in [Item -> SegRow]
    BY <1>8 DEF TouchSegment, DeleteSegment, ForeignFile, TypeOK, SegRow
  <2> QED
    BY <1>8, <2>1, <2>2, StruckType DEF TouchSegment, DeleteSegment, ForeignFile, TypeOK
<1> QED
  BY <1>w, <1>1, <1>2, <1>3, <1>4, <1>5, <1>6, <1>7, <1>8, <1>9 DEF Next

\* Rows, files, operation and workers keep their types, for every number of
\* items, workers and mishaps.
THEOREM TypeCorrect == Spec => []TypeOK
<1>1. Init => TypeOK
  BY BoundAssumption, ItemCountAssumption
     DEF Init, TypeOK, ItemRow, FileRow, SegRow, OpRow, WorkRow, WorldRow, Item, Content, Phase,
         PreSwitch, Copying, Active, RetryMode, Place
<1> QED
  BY <1>1, TypeStep, PTL DEF Spec

-----------------------------------------------------------------------------
(* The catalogued file.                                                    *)

\* Phases of an item whose catalogue row has been switched.
Moved == Switched \cup {"completed"}

\* Steps before the switch or towards giving up, and steps after the switch.
Before == {"intent", "createNew", "create", "copy", "hash", "record", "finalize", "verify",
           "switch", "dropFinal", "dropTemp", "giveUp"}
After == {"recheck", "cleanup", "quarantine", "mark", "unlink"}

\* Only an operation in progress has an owner.
Unowned == op.status \notin Owned => op.owner = NoWorker

\* The durable phase of an item and its catalogue row agree.
ItemAgrees(i) ==
    /\ item[i].phase \in Moved => seg[i].at # "source"
    /\ item[i].phase \notin Moved => seg[i].at # "target" /\ ~file[i].aside
    /\ item[i].phase \notin Moved /\ seg[i].at = "deleted" => ~file[i].source
    /\ item[i].phase = "completed" => ~item[i].pending
    /\ seg[i].at = "source" => file[i].source
    /\ seg[i].at = "target" => file[i].final = "full"

\* What the owner of the operation read of its item is still so.
Knows(w) ==
    /\ work[w].at \in Before => item[work[w].item].phase \notin Moved
    /\ work[w].at \in After => item[work[w].item].phase \in Switched
    /\ work[w].at = "failing" => item[work[w].item].phase # "completed"
    /\ work[w].at = "switch" => file[work[w].item].final = "full"

SagaInvariant ==
    /\ TypeOK
    /\ Unowned
    /\ \A i \in Item : ItemAgrees(i)
    /\ \A w \in Worker : op.owner = w => Knows(w)

\* The rows and files an item is judged by are as they were.
Kept(i) ==
    /\ item'[i].phase = item[i].phase
    /\ item'[i].pending = item[i].pending
    /\ file'[i].source = file[i].source
    /\ file'[i].aside = file[i].aside
    /\ file'[i].final = file[i].final
    /\ seg'[i].at = seg[i].at

LEMMA KeptAgrees ==
    ASSUME NEW i \in Item, ItemAgrees(i), Kept(i)
    PROVE  ItemAgrees(i)'
BY DEF ItemAgrees, Kept

\* A step of the owner, of which only its item and its own place matter.
LEMMA OwnerStep ==
    ASSUME SagaInvariant, TypeOK', NEW w \in Worker, NEW i \in Item, Owns(w), UNCHANGED op,
           \A j \in Item \ {i} : Kept(j),
           ItemAgrees(i)',
           Knows(w)'
    PROVE  SagaInvariant'
<1>1. \A j \in Item : ItemAgrees(j)'
  BY KeptAgrees DEF SagaInvariant
<1>2. Unowned'
  BY DEF SagaInvariant, Unowned
<1>3. \A v \in Worker : op'.owner = v => Knows(v)'
  BY DEF Owns
<1> QED
  BY <1>1, <1>2, <1>3 DEF SagaInvariant

\* A step that leaves every item alone and moves at most one worker.
LEMMA QuietStep ==
    ASSUME SagaInvariant, TypeOK', NEW w \in Worker,
           \A i \in Item : Kept(i),
           \A v \in Worker \ {w} : work'[v] = work[v],
           Unowned',
           op'.owner \in {op.owner, NoWorker, w},
           op'.owner = w => Knows(w)'
    PROVE  SagaInvariant'
<1>1. \A i \in Item : ItemAgrees(i)'
  BY KeptAgrees DEF SagaInvariant
<1>2. ASSUME NEW v \in Worker, op'.owner = v PROVE Knows(v)'
  <2>1. CASE v = w
    BY <1>2, <2>1
  <2>2. CASE v # w
    <3>1. op.owner = v /\ work'[v] = work[v]
      BY <1>2, <2>2, WorkerAssumption
    <3>2. work[v].item \in Item
      BY DEF SagaInvariant, TypeOK, WorkRow
    <3> QED
      BY <3>1, <3>2 DEF SagaInvariant, Knows, Kept
  <2> QED
    BY <2>1, <2>2
<1> QED
  BY <1>1, <1>2 DEF SagaInvariant

\* What the helpers of a step do to its worker.
LEMMA GotoEffect ==
    ASSUME TypeOK, NEW w \in Worker, NEW s, Goto(w, s)
    PROVE  /\ work'[w].at = s
           /\ work'[w].item = work[w].item
           /\ \A v \in Worker \ {w} : work'[v] = work[v]
BY DEF TypeOK, WorkRow, Goto

LEMMA FailEffect ==
    ASSUME TypeOK, NEW w \in Worker, NEW mode, Fail(w, mode)
    PROVE  /\ work'[w].at \in {"ending", "failing"}
           /\ work'[w].item = work[w].item
           /\ \A v \in Worker \ {w} : work'[v] = work[v]
BY DEF TypeOK, WorkRow, Fail

LEMMA EndsEffect ==
    ASSUME TypeOK, NEW w \in Worker, NEW status, NEW mode, Ends(w, status, mode)
    PROVE  /\ op'.owner = NoWorker
           /\ \A v \in Worker \ {w} : work'[v] = work[v]
BY GotoEffect DEF TypeOK, OpRow, Ends

LEMMA CommitEffect ==
    ASSUME TypeOK, NEW w \in Worker, NEW row, NEW next, Commit(w, row, next)
    PROVE  /\ item'[work[w].item] = row
           /\ \A j \in Item \ {work[w].item} : item'[j] = item[j]
           /\ work'[w].at = next
           /\ work'[w].item = work[w].item
BY GotoEffect, RowType DEF TypeOK, Commit

LEMMA AdoptedEffect ==
    ASSUME TypeOK, NEW i \in Item, item' = Adopted(i)
    PROVE  \A j \in Item : item'[j].phase = item[j].phase /\ item'[j].pending = item[j].pending
BY DEF TypeOK, ItemRow, Adopted

LEMMA DiesEffect ==
    ASSUME TypeOK, NEW w \in Worker, Dies(w)
    PROVE  /\ \A j \in Item : item'[j].phase = item[j].phase /\ item'[j].pending = item[j].pending
           /\ work'[w].at = "idle"
BY AdoptedEffect, GotoEffect, RowType DEF Dies

LEMMA QuietActions ==
    ASSUME SagaInvariant, TypeOK', NEW w \in Worker,
           \/ Claim(w) \/ Begin(w) \/ FinishApply(w) \/ EndCancelled(w) \/ StartItem(w)
           \/ EndInterrupted(w) \/ Abandon(w) \/ FinishCleanup(w) \/ Refuse(w)
           \/ PermissionLost(w) \/ HashTemp(w) \/ VerifyFinal(w) \/ RecheckFinal(w)
           \/ IoError(w) \/ Crash(w)
    PROVE  SagaInvariant'
<1>k. ASSUME UNCHANGED <<item, file, seg>> PROVE \A i \in Item : Kept(i)
  BY <1>k DEF Kept
<1>u. ASSUME UNCHANGED op PROVE Unowned' /\ op'.owner = op.owner
  BY <1>u DEF SagaInvariant, Unowned
<1>e. ASSUME op'.owner = NoWorker PROVE Unowned' /\ (op'.owner = w => Knows(w)')
  BY <1>e, WorkerAssumption DEF Unowned
<1>n. ASSUME op.owner = w PROVE Knows(w)
  BY <1>n DEF SagaInvariant
<1>t. TypeOK /\ work[w] \in WorkRow
  BY DEF SagaInvariant, TypeOK
<1>1. CASE Claim(w)
  <2>1. /\ UNCHANGED <<item, file, seg>>
        /\ op'.status \in Owned /\ op'.owner = w
        /\ work'[w].at = "begin" /\ \A v \in Worker \ {w} : work'[v] = work[v]
    BY <1>1, <1>t, GotoEffect DEF Claim, Claimable, TypeOK, OpRow, Owned
  <2>2. Knows(w)' /\ Unowned'
    BY <2>1 DEF Knows, Before, After, Unowned
  <2> QED
    BY <2>1, <2>2, <1>k, QuietStep
<1>2. CASE Begin(w)
  <2>1. UNCHANGED <<item, file, seg>> /\ \A v \in Worker \ {w} : work'[v] = work[v]
    BY <1>2, <1>t, GotoEffect, EndsEffect DEF Begin
  <2>2. CASE Goto(w, "pick") /\ UNCHANGED op
    <3>1. Knows(w)'
      BY <1>t, <2>2, GotoEffect DEF Knows, Before, After
    <3> QED
      BY <1>k, <1>u, <2>1, <2>2, <3>1, QuietStep
  <2>3. CASE Ends(w, "stopped", PermissionMode)
    BY <1>k, <1>e, <1>t, <2>1, <2>3, EndsEffect, QuietStep
  <2> QED
    BY <1>2, <2>2, <2>3 DEF Begin
<1>3. CASE FinishApply(w)
  <2>1. op'.owner = NoWorker /\ \A v \in Worker \ {w} : work'[v] = work[v]
    BY <1>3, <1>t, EndsEffect DEF FinishApply
  <2>2. UNCHANGED <<item, file, seg>>
    BY <1>3 DEF FinishApply
  <2> QED
    BY <1>k, <1>e, <2>1, <2>2, QuietStep
<1>4. CASE EndCancelled(w)
  <2>1. op'.owner = NoWorker /\ \A v \in Worker \ {w} : work'[v] = work[v]
    BY <1>4, <1>t, EndsEffect DEF EndCancelled
  <2>2. UNCHANGED <<item, file, seg>>
    BY <1>4 DEF EndCancelled
  <2> QED
    BY <1>k, <1>e, <2>1, <2>2, QuietStep
<1>5. CASE EndInterrupted(w)
  <2>1. op'.owner = NoWorker /\ \A v \in Worker \ {w} : work'[v] = work[v]
    BY <1>5, <1>t, EndsEffect DEF EndInterrupted
  <2>2. UNCHANGED <<item, file, seg>>
    BY <1>5 DEF EndInterrupted
  <2> QED
    BY <1>k, <1>e, <2>1, <2>2, QuietStep
<1>6. CASE FinishCleanup(w)
  <2>1. op'.owner = NoWorker /\ \A v \in Worker \ {w} : work'[v] = work[v]
    BY <1>6, <1>t, EndsEffect DEF FinishCleanup
  <2>2. UNCHANGED <<item, file, seg>>
    BY <1>6 DEF FinishCleanup
  <2> QED
    BY <1>k, <1>e, <2>1, <2>2, QuietStep
<1>7. CASE StartItem(w)
  <2>1. PICK i \in Item : StartItem(w)!2!(i)
    BY <1>7 DEF StartItem
  <2>2. item[i].phase \in Phase /\ item[i].phase \notin ItemTerminal
    BY <2>1, <1>t DEF First, Open, TypeOK, ItemRow
  <2>3. /\ work'[w].item = i
        /\ work'[w].at \in {"failing", StepFor(item[i].phase)}
        /\ \A v \in Worker \ {w} : work'[v] = work[v]
    BY <2>1, <1>t DEF TypeOK, WorkRow
  <2>4. UNCHANGED <<item, file, seg, op>>
    BY <1>7 DEF StartItem
  <2>5. Knows(w)'
    BY <2>2, <2>3, <2>4
       DEF Knows, StepFor, Before, After, Moved, Phase, PreSwitch, Copying, Switched, ItemTerminal
  <2> QED
    BY <1>k, <1>u, <2>3, <2>4, <2>5, QuietStep
<1>8. CASE Abandon(w)
  <2>1. UNCHANGED <<item, file, seg, op>> /\ Goto(w, "idle")
    BY <1>8 DEF Abandon
  <2>2. Knows(w)'
    BY <1>t, <2>1, GotoEffect DEF Knows, Before, After
  <2> QED
    BY <1>k, <1>t, <1>u, <2>1, <2>2, GotoEffect, QuietStep
<1>9. CASE Crash(w)
  <2>1. UNCHANGED <<item, file, seg, op>> /\ Goto(w, "idle")
    BY <1>9 DEF Crash
  <2>2. Knows(w)'
    BY <1>t, <2>1, GotoEffect DEF Knows, Before, After
  <2> QED
    BY <1>k, <1>t, <1>u, <2>1, <2>2, GotoEffect, QuietStep
<1>10. CASE Refuse(w)
  <2>1. UNCHANGED <<item, file, seg, op>> /\ work[w].at \in Step
    BY <1>10 DEF Refuse
  <2>2. /\ work'[w].at \in {"ending", "failing"} /\ work'[w].item = work[w].item
        /\ \A v \in Worker \ {w} : work'[v] = work[v]
    BY <1>10, <1>t, FailEffect DEF Refuse
  <2>3. op.owner = w => Knows(w)'
    BY <1>n, <2>1, <2>2 DEF Knows, Before, After, Step, Moved, Switched
  <2> QED
    BY <1>k, <1>u, <2>1, <2>2, <2>3, QuietStep
<1>11. CASE PermissionLost(w)
  <2>1. UNCHANGED <<item, file, seg, op>> /\ work[w].at \in Step
    BY <1>11 DEF PermissionLost
  <2>2. /\ work'[w].at \in {"ending", "failing"} /\ work'[w].item = work[w].item
        /\ \A v \in Worker \ {w} : work'[v] = work[v]
    BY <1>11, <1>t, FailEffect DEF PermissionLost
  <2>3. op.owner = w => Knows(w)'
    BY <1>n, <2>1, <2>2 DEF Knows, Before, After, Step, Moved, Switched
  <2> QED
    BY <1>k, <1>u, <2>1, <2>2, <2>3, QuietStep
<1>12. CASE IoError(w)
  <2>1. UNCHANGED <<item, file, seg, op>> /\ work[w].at \in Step
    BY <1>12 DEF IoError
  <2>2. /\ work'[w].at \in {"ending", "failing"} /\ work'[w].item = work[w].item
        /\ \A v \in Worker \ {w} : work'[v] = work[v]
    BY <1>12, <1>t, FailEffect DEF IoError
  <2>3. op.owner = w => Knows(w)'
    BY <1>n, <2>1, <2>2 DEF Knows, Before, After, Step, Moved, Switched
  <2> QED
    BY <1>k, <1>u, <2>1, <2>2, <2>3, QuietStep
<1>13. CASE HashTemp(w)
  <2>1. UNCHANGED <<item, file, seg, op>> /\ Goto(w, "record")
    BY <1>13 DEF HashTemp
  <2>2. op.owner = w => Knows(w)'
    BY <1>13, <1>n, <1>t, <2>1, GotoEffect DEF HashTemp, Refuses, Knows, Before, After
  <2> QED
    BY <1>k, <1>t, <1>u, <2>1, <2>2, GotoEffect, QuietStep
<1>14. CASE VerifyFinal(w)
  <2>1. UNCHANGED <<item, file, seg, op>> /\ Goto(w, "switch")
    BY <1>14 DEF VerifyFinal
  <2>2. op.owner = w => Knows(w)'
    BY <1>14, <1>n, <1>t, <2>1, GotoEffect DEF VerifyFinal, Refuses, Knows, Before, After
  <2> QED
    BY <1>k, <1>t, <1>u, <2>1, <2>2, GotoEffect, QuietStep
<1>15. CASE RecheckFinal(w)
  <2>1. UNCHANGED <<item, file, seg, op>> /\ Goto(w, CleanupStep(item[work[w].item].phase))
    BY <1>15 DEF RecheckFinal
  <2>2. op.owner = w => Knows(w)'
    BY <1>15, <1>n, <1>t, <2>1, GotoEffect
       DEF RecheckFinal, CleanupStep, Knows, Before, After, Switched
  <2> QED
    BY <1>k, <1>t, <1>u, <2>1, <2>2, GotoEffect, QuietStep
<1> QED
  BY <1>1, <1>2, <1>3, <1>4, <1>5, <1>6, <1>7, <1>8, <1>9, <1>10, <1>11, <1>12, <1>13, <1>14, <1>15

LEMMA OwnerActions ==
    ASSUME SagaInvariant, TypeOK', NEW w \in Worker, NEW i \in Item, i = work[w].item,
           \/ HandleFailure(w) \/ CancelPlanned(w) \/ StartCleanup(w)
           \/ StageTempCreateIntent(w) \/ CreateTemp(w) \/ CopyBatch(w) \/ SpoilBatch(w)
           \/ TempWritten(w) \/ RecordHash(w) \/ FinalizeTarget(w) \/ SwitchMetadata(w)
           \/ StageCleanup(w) \/ QuarantineSource(w) \/ MarkDelete(w) \/ DeleteSource(w)
           \/ GiveUp(w)
    PROVE  SagaInvariant'
<1>t. TypeOK /\ item[i] \in ItemRow /\ Bound(i) \in ItemRow
  BY RowType DEF SagaInvariant
<1>n. ASSUME op.owner = w PROVE Knows(w)
  BY <1>n DEF SagaInvariant
<1>a. ItemAgrees(i)
  BY <1>t DEF SagaInvariant
<1>f. /\ \A j \in Item : file[j] \in FileRow /\ seg[j] \in SegRow
      /\ file \in [Item -> FileRow] /\ seg \in [Item -> SegRow]
  BY <1>t DEF TypeOK
<1>1. CASE StageTempCreateIntent(w)
  <2>1. Owns(w) /\ op.owner = w /\ UNCHANGED op
    BY <1>1 DEF StageTempCreateIntent, Permitted, Locked, Owns
  <2>2. \A j \in Item \ {i} : Kept(j)
    BY <1>1, <1>t, <1>f, CommitEffect, DiesEffect DEF StageTempCreateIntent, Kept
  <2>3. /\ work[w].at = "intent" /\ file' = file /\ seg' = seg
        /\ item'[i].phase = "target_temp_create_pending"
        /\ work'[w].at = "createNew" /\ work'[w].item = i
    <3>1. item'[i] = [Bound(i) EXCEPT !.phase = "target_temp_create_pending", !.known = FALSE]
      BY <1>1, <1>t, CommitEffect DEF StageTempCreateIntent
    <3>2. work'[w].at = "createNew" /\ work'[w].item = i
      BY <1>1, <1>t, CommitEffect DEF StageTempCreateIntent
    <3> QED
      BY <1>1, <3>1, <3>2, <1>t DEF StageTempCreateIntent, Permitted, Locked, ItemRow
  <2>4. ItemAgrees(i)'
    BY <1>a, <1>n, <2>1, <2>3 DEF ItemAgrees, Knows, Before, After, Moved, Switched
  <2>5. Knows(w)'
    BY <1>n, <2>1, <2>3 DEF Knows, Before, After, Moved, Switched
  <2> QED
    BY <1>t, <2>1, <2>2, <2>4, <2>5, OwnerStep
<1>2. CASE CreateTemp(w)
  <2>1. Owns(w) /\ op.owner = w /\ UNCHANGED op
    BY <1>2 DEF CreateTemp, Permitted, Locked, Owns
  <2>2. \A j \in Item \ {i} : Kept(j)
    BY <1>2, <1>t, <1>f, CommitEffect, DiesEffect DEF CreateTemp, Kept
  <2>3. /\ work[w].at \in Before /\ item'[i].pending = item[i].pending
        /\ file'[i].source = file[i].source /\ file'[i].aside = file[i].aside
        /\ file'[i].final = file[i].final /\ seg' = seg
        /\ \/ item'[i].phase = "copying" /\ work'[w].at = "copy" /\ work'[w].item = i
           \/ item'[i].phase = item[i].phase /\ work'[w].at = "idle"
    <3>1. CASE Commit(w, [Bound(i) EXCEPT !.phase = "copying", !.known = TRUE], "copy")
      <4>1. item'[i] = [Bound(i) EXCEPT !.phase = "copying", !.known = TRUE]
        BY <3>1, <1>t, CommitEffect
      <4>2. work'[w].at = "copy" /\ work'[w].item = i
        BY <3>1, <1>t, CommitEffect
      <4> QED
        BY <1>2, <4>1, <4>2, <1>t, <1>f DEF CreateTemp, Permitted, Locked, ItemRow, FileRow, Before, Bound
    <3>2. CASE Dies(w)
      <4>1. /\ item'[i].phase = item[i].phase /\ item'[i].pending = item[i].pending
            /\ work'[w].at = "idle"
        BY <3>2, <1>t, DiesEffect
      <4> QED
        BY <1>2, <4>1, <1>t, <1>f DEF CreateTemp, Permitted, Locked, FileRow, Before, Bound
    <3> QED
      BY <1>2, <3>1, <3>2 DEF CreateTemp
  <2>4. ItemAgrees(i)'
    BY <1>a, <1>n, <2>1, <2>3 DEF ItemAgrees, Knows, Before, After, Moved, Switched
  <2>5. Knows(w)'
    BY <1>n, <2>1, <2>3 DEF Knows, Before, After, Moved, Switched
  <2> QED
    BY <1>t, <2>1, <2>2, <2>4, <2>5, OwnerStep
<1>3. CASE CopyBatch(w)
  <2>1. Owns(w) /\ op.owner = w /\ UNCHANGED op
    BY <1>3 DEF CopyBatch, Permitted, Locked, Owns
  <2>2. \A j \in Item \ {i} : Kept(j)
    BY <1>3, <1>t, <1>f, CommitEffect, DiesEffect DEF CopyBatch, Kept
  <2>3. /\ work[w].at = "copy"
        /\ file'[i].source = file[i].source /\ file'[i].aside = file[i].aside
        /\ file'[i].final = file[i].final /\ seg' = seg
        /\ item'[i].phase = item[i].phase /\ item'[i].pending = item[i].pending
        /\ (work'[w].at = "idle" \/ (work'[w].at = "copy" /\ work'[w].item = i))
    <3>1. CASE Commit(w, Bound(i), "copy")
      <4>1. item'[i] = Bound(i)
        BY <3>1, <1>t, CommitEffect
      <4>2. work'[w].at = "copy" /\ work'[w].item = i
        BY <3>1, <1>t, CommitEffect
      <4> QED
        BY <1>3, <4>1, <4>2, <1>t, <1>f DEF CopyBatch, Permitted, Locked, ItemRow, FileRow, Bound
    <3>2. CASE Dies(w)
      <4>1. /\ item'[i].phase = item[i].phase /\ item'[i].pending = item[i].pending
            /\ work'[w].at = "idle"
        BY <3>2, <1>t, DiesEffect
      <4> QED
        BY <1>3, <4>1, <1>t, <1>f DEF CopyBatch, Permitted, Locked, FileRow, Bound
    <3> QED
      BY <1>3, <3>1, <3>2 DEF CopyBatch
  <2>4. ItemAgrees(i)'
    BY <1>a, <1>n, <2>1, <2>3 DEF ItemAgrees, Knows, Before, After, Moved, Switched
  <2>5. Knows(w)'
    BY <1>n, <2>1, <2>3 DEF Knows, Before, After, Moved, Switched
  <2> QED
    BY <1>t, <2>1, <2>2, <2>4, <2>5, OwnerStep
<1>4. CASE SpoilBatch(w)
  <2>1. Owns(w) /\ op.owner = w /\ UNCHANGED op
    BY <1>4 DEF SpoilBatch, Permitted, Locked, Owns
  <2>2. \A j \in Item \ {i} : Kept(j)
    BY <1>4, <1>t, <1>f, CommitEffect, DiesEffect DEF SpoilBatch, Kept
  <2>3. /\ work[w].at = "copy"
        /\ file'[i].source = file[i].source /\ file'[i].aside = file[i].aside
        /\ file'[i].final = file[i].final /\ seg' = seg
        /\ item'[i].phase = item[i].phase /\ item'[i].pending = item[i].pending
        /\ work' = work
    BY <1>4, <1>t, <1>f, CommitEffect, DiesEffect DEF SpoilBatch, Permitted, Locked, ItemRow, FileRow, SegRow, Bound
  <2>4. ItemAgrees(i)'
    BY <1>a, <1>n, <2>1, <2>3 DEF ItemAgrees, Knows, Before, After, Moved, Switched
  <2>5. Knows(w)'
    BY <1>n, <2>1, <2>3 DEF Knows, Before, After, Moved, Switched
  <2> QED
    BY <1>t, <2>1, <2>2, <2>4, <2>5, OwnerStep
<1>5. CASE TempWritten(w)
  <2>1. Owns(w) /\ op.owner = w /\ UNCHANGED op
    BY <1>5 DEF TempWritten, Permitted, Locked, Owns
  <2>2. \A j \in Item \ {i} : Kept(j)
    BY <1>5, <1>t, <1>f, CommitEffect, DiesEffect DEF TempWritten, Kept
  <2>3. /\ work[w].at = "copy" /\ file' = file /\ seg' = seg
        /\ item'[i].phase = "target_temp_written"
        /\ work'[w].at = "hash" /\ work'[w].item = i
    BY <1>5, <1>t, <1>f, CommitEffect, DiesEffect DEF TempWritten, Permitted, Locked, ItemRow, FileRow, SegRow
  <2>4. ItemAgrees(i)'
    BY <1>a, <1>n, <2>1, <2>3 DEF ItemAgrees, Knows, Before, After, Moved, Switched
  <2>5. Knows(w)'
    BY <1>n, <2>1, <2>3 DEF Knows, Before, After, Moved, Switched
  <2> QED
    BY <1>t, <2>1, <2>2, <2>4, <2>5, OwnerStep
<1>6. CASE RecordHash(w)
  <2>1. Owns(w) /\ op.owner = w /\ UNCHANGED op
    BY <1>6 DEF RecordHash, Permitted, Locked, Owns
  <2>2. \A j \in Item \ {i} : Kept(j)
    BY <1>6, <1>t, <1>f, CommitEffect, DiesEffect DEF RecordHash, Kept
  <2>3. /\ work[w].at = "record" /\ file' = file /\ seg' = seg
        /\ item'[i].phase = "target_verified"
        /\ work'[w].at = "finalize" /\ work'[w].item = i
    <3>1. item'[i] = [Bound(i) EXCEPT !.phase = "target_verified", !.hashed = TRUE]
      BY <1>6, <1>t, CommitEffect DEF RecordHash
    <3>2. work'[w].at = "finalize" /\ work'[w].item = i
      BY <1>6, <1>t, CommitEffect DEF RecordHash
    <3> QED
      BY <1>6, <3>1, <3>2, <1>t DEF RecordHash, Permitted, Locked, ItemRow
  <2>4. ItemAgrees(i)'
    BY <1>a, <1>n, <2>1, <2>3 DEF ItemAgrees, Knows, Before, After, Moved, Switched
  <2>5. Knows(w)'
    BY <1>n, <2>1, <2>3 DEF Knows, Before, After, Moved, Switched
  <2> QED
    BY <1>t, <2>1, <2>2, <2>4, <2>5, OwnerStep
<1>7. CASE FinalizeTarget(w)
  <2>1. Owns(w) /\ op.owner = w /\ UNCHANGED op
    BY <1>7 DEF FinalizeTarget, Permitted, Locked, Owns
  <2>2. \A j \in Item \ {i} : Kept(j)
    BY <1>7, <1>t, <1>f, CommitEffect, DiesEffect DEF FinalizeTarget, Kept
  <2>3. /\ work[w].at = "finalize" /\ item'[i].pending = item[i].pending
        /\ file'[i].source = file[i].source /\ file'[i].aside = file[i].aside /\ seg' = seg
        /\ \/ item'[i].phase = "target_finalized" /\ work'[w].at = "verify" /\ work'[w].item = i
           \/ item'[i].phase = item[i].phase /\ work'[w].at = "idle"
    <3>1. CASE Commit(w, [Bound(i) EXCEPT !.phase = "target_finalized"], "verify")
      <4>1. item'[i] = [Bound(i) EXCEPT !.phase = "target_finalized"]
        BY <3>1, <1>t, CommitEffect
      <4>2. work'[w].at = "verify" /\ work'[w].item = i
        BY <3>1, <1>t, CommitEffect
      <4> QED
        BY <1>7, <4>1, <4>2, <1>t, <1>f DEF FinalizeTarget, Permitted, Locked, ItemRow, FileRow, Bound
    <3>2. CASE Dies(w)
      <4>1. /\ item'[i].phase = item[i].phase /\ item'[i].pending = item[i].pending
            /\ work'[w].at = "idle"
        BY <3>2, <1>t, DiesEffect
      <4> QED
        BY <1>7, <4>1, <1>t, <1>f DEF FinalizeTarget, Permitted, Locked, FileRow, Bound
    <3> QED
      BY <1>7, <3>1, <3>2 DEF FinalizeTarget
  <2>4. ItemAgrees(i)'
    BY <1>a, <1>n, <2>1, <2>3 DEF ItemAgrees, Knows, Before, After, Moved, Switched
  <2>5. Knows(w)'
    BY <1>n, <2>1, <2>3 DEF Knows, Before, After, Moved, Switched
  <2> QED
    BY <1>t, <2>1, <2>2, <2>4, <2>5, OwnerStep
<1>8. CASE StageCleanup(w)
  <2>1. Owns(w) /\ op.owner = w /\ UNCHANGED op
    BY <1>8 DEF StageCleanup, Permitted, Locked, Owns
  <2>2. \A j \in Item \ {i} : Kept(j)
    BY <1>8, <1>t, <1>f, CommitEffect, DiesEffect DEF StageCleanup, Kept
  <2>3. /\ work[w].at = "cleanup" /\ file' = file /\ seg' = seg
        /\ item[i].phase = "metadata_switched" /\ item'[i].phase = "source_cleanup_pending"
        /\ work'[w].at = "quarantine" /\ work'[w].item = i
    <3>1. item'[i] = [Bound(i) EXCEPT !.phase = "source_cleanup_pending", !.pending = TRUE]
      BY <1>8, <1>t, CommitEffect DEF StageCleanup
    <3>2. work'[w].at = "quarantine" /\ work'[w].item = i
      BY <1>8, <1>t, CommitEffect DEF StageCleanup
    <3> QED
      BY <1>8, <3>1, <3>2, <1>t DEF StageCleanup, Permitted, Locked, ItemRow
  <2>4. ItemAgrees(i)'
    BY <1>a, <1>n, <2>1, <2>3 DEF ItemAgrees, Knows, Before, After, Moved, Switched
  <2>5. Knows(w)'
    BY <1>n, <2>1, <2>3 DEF Knows, Before, After, Moved, Switched
  <2> QED
    BY <1>t, <2>1, <2>2, <2>4, <2>5, OwnerStep
<1>9. CASE QuarantineSource(w)
  <2>1. Owns(w) /\ op.owner = w /\ UNCHANGED op
    BY <1>9 DEF QuarantineSource, Permitted, Locked, Owns
  <2>2. \A j \in Item \ {i} : Kept(j)
    BY <1>9, <1>t, <1>f, CommitEffect, DiesEffect DEF QuarantineSource, Kept
  <2>3. /\ work[w].at = "quarantine" /\ item[i].phase = "source_cleanup_pending"
        /\ file'[i].final = file[i].final /\ seg' = seg
        /\ \/ item'[i].phase = "source_quarantined" /\ work'[w].at = "mark" /\ work'[w].item = i
           \/ item'[i].phase = item[i].phase /\ work'[w].at = "idle"
    BY <1>9, <1>t, <1>f, CommitEffect, DiesEffect DEF QuarantineSource, Permitted, Locked, ItemRow, FileRow, SegRow
  <2>4. ItemAgrees(i)'
    BY <1>a, <1>n, <2>1, <2>3 DEF ItemAgrees, Knows, Before, After, Moved, Switched
  <2>5. Knows(w)'
    BY <1>n, <2>1, <2>3 DEF Knows, Before, After, Moved, Switched
  <2> QED
    BY <1>t, <2>1, <2>2, <2>4, <2>5, OwnerStep
<1>10. CASE MarkDelete(w)
  <2>1. Owns(w) /\ op.owner = w /\ UNCHANGED op
    BY <1>10 DEF MarkDelete, Permitted, Locked, Owns
  <2>2. \A j \in Item \ {i} : Kept(j)
    BY <1>10, <1>t, <1>f, CommitEffect, DiesEffect DEF MarkDelete, Kept
  <2>3. /\ work[w].at = "mark" /\ file' = file /\ seg' = seg
        /\ item[i].phase = "source_quarantined" /\ item'[i].phase = "source_delete_committing"
        /\ work'[w].at = "unlink" /\ work'[w].item = i
    BY <1>10, <1>t, <1>f, CommitEffect, DiesEffect DEF MarkDelete, Permitted, Locked, ItemRow, FileRow, SegRow
  <2>4. ItemAgrees(i)'
    BY <1>a, <1>n, <2>1, <2>3 DEF ItemAgrees, Knows, Before, After, Moved, Switched
  <2>5. Knows(w)'
    BY <1>n, <2>1, <2>3 DEF Knows, Before, After, Moved, Switched
  <2> QED
    BY <1>t, <2>1, <2>2, <2>4, <2>5, OwnerStep
<1>11. CASE DeleteSource(w)
  <2>1. Owns(w) /\ op.owner = w /\ UNCHANGED op
    BY <1>11 DEF DeleteSource, Permitted, Locked, Owns
  <2>2. \A j \in Item \ {i} : Kept(j)
    BY <1>11, <1>t, <1>f, CommitEffect, DiesEffect DEF DeleteSource, Kept
  <2>3. /\ work[w].at = "unlink" /\ item[i].phase = "source_delete_committing"
        /\ file'[i].source = file[i].source /\ file'[i].final = file[i].final /\ seg' = seg
        /\ \/ item'[i].phase = "completed" /\ ~item'[i].pending /\ work'[w].at = "pick"
           \/ item'[i].phase = item[i].phase /\ work'[w].at = "idle"
    <3>1. CASE Commit(w, [Bound(i) EXCEPT !.phase = "completed", !.pending = FALSE], "pick")
      <4>1. item'[i] = [Bound(i) EXCEPT !.phase = "completed", !.pending = FALSE]
        BY <3>1, <1>t, CommitEffect
      <4>2. work'[w].at = "pick" /\ work'[w].item = i
        BY <3>1, <1>t, CommitEffect
      <4> QED
        BY <1>11, <4>1, <4>2, <1>t, <1>f DEF DeleteSource, Permitted, Locked, ItemRow, FileRow
    <3>2. CASE Dies(w)
      <4>1. /\ item'[i].phase = item[i].phase /\ item'[i].pending = item[i].pending
            /\ work'[w].at = "idle"
        BY <3>2, <1>t, DiesEffect
      <4> QED
        BY <1>11, <4>1, <1>t, <1>f DEF DeleteSource, Permitted, Locked, FileRow
    <3> QED
      BY <1>11, <3>1, <3>2 DEF DeleteSource
  <2>4. ItemAgrees(i)'
    BY <1>a, <1>n, <2>1, <2>3 DEF ItemAgrees, Knows, Before, After, Moved, Switched
  <2>5. Knows(w)'
    BY <1>n, <2>1, <2>3 DEF Knows, Before, After, Moved, Switched
  <2> QED
    BY <1>t, <2>1, <2>2, <2>4, <2>5, OwnerStep
<1>12. CASE GiveUp(w)
  <2>1. Owns(w) /\ op.owner = w /\ UNCHANGED op
    BY <1>12 DEF GiveUp, Permitted, Locked, Owns
  <2>2. \A j \in Item \ {i} : Kept(j)
    BY <1>12, <1>t, <1>f, CommitEffect, DiesEffect DEF GiveUp, Kept
  <2>3. /\ work[w].at = "giveUp" /\ file' = file /\ seg' = seg
        /\ item'[i].phase = "failed" /\ work'[w].at = "pick"
    <3>1. item'[i] = [Bound(i) EXCEPT !.phase = "failed", !.pending = FALSE]
      BY <1>12, <1>t, CommitEffect DEF GiveUp
    <3>2. work'[w].at = "pick" /\ work'[w].item = i
      BY <1>12, <1>t, CommitEffect DEF GiveUp
    <3> QED
      BY <1>12, <3>1, <3>2, <1>t DEF GiveUp, Permitted, Locked, ItemRow
  <2>4. ItemAgrees(i)'
    BY <1>a, <1>n, <2>1, <2>3 DEF ItemAgrees, Knows, Before, After, Moved, Switched
  <2>5. Knows(w)'
    BY <1>n, <2>1, <2>3 DEF Knows, Before, After, Moved, Switched
  <2> QED
    BY <1>t, <2>1, <2>2, <2>4, <2>5, OwnerStep
<1>13. CASE SwitchMetadata(w)
  <2>1. Owns(w) /\ op.owner = w /\ UNCHANGED op /\ work[w].at = "switch" /\ file' = file
    BY <1>13 DEF SwitchMetadata, Permitted, Locked, Owns
  <2>2. CASE seg[i].at = "source" /\ seg[i].intact
    <3>1. /\ \A j \in Item \ {i} : Kept(j)
          /\ seg'[i].at = "target" /\ item'[i].phase = "metadata_switched"
          /\ work'[w].at = "recheck" /\ work'[w].item = i
      <4>1. /\ seg' = [seg EXCEPT ![i].at = "target"]
            /\ Commit(w, [Bound(i) EXCEPT !.phase = "metadata_switched", !.pending = TRUE], "recheck")
        BY <1>13, <2>2 DEF SwitchMetadata
      <4>2. item'[i] = [Bound(i) EXCEPT !.phase = "metadata_switched", !.pending = TRUE]
        BY <4>1, <1>t, CommitEffect
      <4>3. /\ \A j \in Item \ {i} : item'[j] = item[j]
            /\ work'[w].at = "recheck" /\ work'[w].item = i
        BY <4>1, <1>t, CommitEffect
      <4>4. item'[i].phase = "metadata_switched"
        BY <4>2, <1>t DEF ItemRow
      <4> QED
        BY <2>1, <4>1, <4>3, <4>4, <1>f DEF Kept, SegRow
    <3>2. ItemAgrees(i)' /\ Knows(w)'
      BY <1>n, <2>1, <3>1 DEF ItemAgrees, Knows, Before, After, Moved, Switched
    <3> QED
      BY <1>t, <2>1, <3>1, <3>2, OwnerStep
  <2>3. CASE ~(seg[i].at = "source" /\ seg[i].intact)
    <3>1. /\ UNCHANGED <<item, file, seg>>
          /\ work'[w].at \in {"ending", "failing"} /\ work'[w].item = i
      BY <1>13, <1>t, <2>1, <2>3, FailEffect DEF SwitchMetadata
    <3>2. ItemAgrees(i)' /\ Knows(w)' /\ \A j \in Item : Kept(j)
      BY <1>a, <1>n, <2>1, <3>1 DEF ItemAgrees, Knows, Kept, Before, After, Moved
    <3> QED
      BY <1>t, <2>1, <3>2, OwnerStep
  <2> QED
    BY <2>2, <2>3
<1>14. CASE HandleFailure(w)
  <2>1. Owns(w) /\ op.owner = w /\ UNCHANGED <<op, file, seg>> /\ work[w].at = "failing"
    BY <1>14 DEF HandleFailure, Locked, Owns
  <2>2. /\ \A j \in Item \ {i} : Kept(j)
        /\ item'[i].phase = item[i].phase /\ work'[w].at = "ending"
    BY <1>14, <1>t, <2>1, GotoEffect DEF HandleFailure, Kept, Bound, TypeOK, ItemRow
  <2>3. ItemAgrees(i)' /\ Knows(w)'
    BY <1>a, <1>n, <2>1, <2>2 DEF ItemAgrees, Knows, Before, After, Moved
  <2> QED
    BY <1>t, <2>1, <2>2, <2>3, OwnerStep
<1>15. CASE CancelPlanned(w)
  <2>1. Owns(w) /\ op.owner = w /\ UNCHANGED <<op, file, seg>> /\ item' = CancelRows
    BY <1>15 DEF CancelPlanned, Picking, Owns
  <2>2. ASSUME NEW j \in Item PROVE ItemAgrees(j)'
    <3>1. item[j] \in ItemRow /\ ItemAgrees(j)
      BY <1>t DEF SagaInvariant, TypeOK
    <3>2. CASE item[j].phase = "planned"
      <4>1. item'[j].phase = "cancelled"
        BY <2>1, <3>1, <3>2 DEF CancelRows, ItemRow
      <4> QED
        BY <2>1, <3>1, <3>2, <4>1 DEF ItemAgrees, Moved, Switched
    <3>3. CASE item[j].phase # "planned"
      <4>1. item'[j] = item[j]
        BY <2>1, <3>3 DEF CancelRows
      <4> QED
        BY <2>1, <3>1, <4>1 DEF ItemAgrees
    <3> QED
      BY <3>2, <3>3
  <2>3. Knows(w)'
    BY <1>15, <1>t, GotoEffect DEF CancelPlanned, Knows, Before, After
  <2>4. \A v \in Worker : op'.owner = v => Knows(v)'
    BY <2>1, <2>3
  <2> QED
    BY <2>1, <2>2, <2>4 DEF SagaInvariant, Unowned
<1>16. CASE StartCleanup(w)
  <2>1. PICK j \in Item : StartCleanup(w)!2!(j)
    BY <1>16 DEF StartCleanup
  <2>2. Owns(w) /\ op.owner = w /\ UNCHANGED <<op, file, seg>> /\ work[w].at = "pick"
    BY <1>16 DEF StartCleanup, Picking, Owns
  <2>3. CASE item[j].phase = "planned" /\ ~item[j].pending
    <3>1. /\ \A m \in Item \ {j} : Kept(m)
          /\ item'[j].phase \in {"planned", "blocked"} /\ work'[w].at \in {"pick", "idle"}
      <4>1. CASE item' = [item EXCEPT ![j] = [Bound(j) EXCEPT !.phase = "blocked"]] /\ UNCHANGED work
        BY <1>t, <2>2, <4>1 DEF Kept, Bound, TypeOK, ItemRow
      <4>2. CASE Goto(w, "idle") /\ UNCHANGED item
        BY <1>t, <2>2, <2>3, <4>2, GotoEffect DEF Kept
      <4> QED
        BY <2>1, <2>3, <4>1, <4>2
    <3>2. ItemAgrees(j)' /\ Knows(w)'
      BY <2>2, <2>3, <3>1 DEF SagaInvariant, ItemAgrees, Knows, Before, After, Moved, Switched
    <3> QED
      BY <2>2, <3>1, <3>2, OwnerStep
  <2>4. CASE ~(item[j].phase = "planned" /\ ~item[j].pending)
    <3>1. /\ UNCHANGED item /\ work'[w].item = j
          /\ work'[w].at = CleanupEntry(item[j].phase)
      BY <1>t, <2>1, <2>4 DEF TypeOK, WorkRow
    <3>2. item[j].phase # "completed"
      BY <2>1 DEF First, OpenCleanup, Open, ItemTerminal, SagaInvariant, ItemAgrees
    <3>3. ItemAgrees(j)' /\ \A m \in Item : Kept(m)
      BY <2>2, <3>1 DEF SagaInvariant, ItemAgrees, Kept
    <3>4. Knows(w)'
      BY <3>1, <3>2 DEF CleanupEntry, Knows, Before, After, Moved
    <3> QED
      BY <2>2, <3>3, <3>4, OwnerStep
  <2> QED
    BY <2>3, <2>4
<1> QED
  BY <1>1, <1>2, <1>3, <1>4, <1>5, <1>6, <1>7, <1>8, <1>9, <1>10, <1>11, <1>12, <1>13, <1>14, <1>15, <1>16

LEMMA DropActions ==
    ASSUME SagaInvariant, TypeOK', NEW w \in Worker, NEW i \in Item, i = work[w].item,
           DropFinal(w) \/ DropTemp(w)
    PROVE  SagaInvariant'
<1>t. TypeOK /\ \A j \in Item : file[j] \in FileRow
  BY DEF SagaInvariant, TypeOK
<1>n. op.owner = w => Knows(w)
  BY DEF SagaInvariant
<1>1. /\ UNCHANGED <<seg, op>>
      /\ \A j \in Item : item'[j].phase = item[j].phase /\ item'[j].pending = item[j].pending
  BY <1>t, AdoptedEffect DEF DropFinal, DropTemp
<1>2. /\ work'[w].at \in {"dropTemp", "giveUp"} /\ work[w].at \in Before
      /\ work'[w].item = i /\ \A v \in Worker \ {w} : work'[v] = work[v]
  BY <1>t, GotoEffect DEF DropFinal, DropTemp, Before
<1>3. op.owner = w => Knows(w)'
  BY <1>n, <1>1, <1>2 DEF Knows, Before, After
<1>4. Unowned'
  BY <1>1 DEF SagaInvariant, Unowned
<1>5. CASE DropFinal(w) /\ file[i].final # "none"
  <2>1. Owns(w) /\ op.owner = w /\ work[w].at = "dropFinal"
    BY <1>5 DEF DropFinal, Permitted, Locked, Owns
  <2>2. file' = [file EXCEPT ![i].final = "none"]
    BY <1>5 DEF DropFinal
  <2>3. \A j \in Item \ {i} : Kept(j)
    BY <1>1, <1>t, <2>2 DEF Kept, TypeOK
  <2>4. ItemAgrees(i)'
    BY <1>1, <1>n, <1>t, <2>1, <2>2
       DEF SagaInvariant, ItemAgrees, Knows, Before, TypeOK, FileRow
  <2> QED
    BY <1>1, <1>3, <2>1, <2>3, <2>4, OwnerStep
<1>6. CASE ~(DropFinal(w) /\ file[i].final # "none")
  <2>1. \A j \in Item : Kept(j)
    BY <1>1, <1>6, <1>t DEF DropFinal, DropTemp, Kept, TypeOK, FileRow
  <2> QED
    BY <1>1, <1>2, <1>3, <1>4, <2>1, QuietStep
<1> QED
  BY <1>5, <1>6

LEMMA WorldActions ==
    ASSUME SagaInvariant, TypeOK',
           \/ Cancel \/ Retry \/ ExpireDeadLease \/ ExpireSlowLease
           \/ LosePermission \/ RestorePermission \/ RunOutOfSpace \/ FreeSpace
           \/ \E i \in Item : TouchSegment(i) \/ DeleteSegment(i) \/ ForeignFile(i)
    PROVE  SagaInvariant'
<1>t. /\ TypeOK
      /\ \A j \in Item : item[j] \in ItemRow /\ file[j] \in FileRow /\ seg[j] \in SegRow
      /\ \A v \in Worker : work[v].item \in Item
  BY DEF SagaInvariant, TypeOK, WorkRow
<1>w. UNCHANGED work
  BY DEF Cancel, Retry, ExpireDeadLease, ExpireSlowLease, LosePermission, RestorePermission,
         RunOutOfSpace, FreeSpace, TouchSegment, DeleteSegment, ForeignFile
<1>f. ASSUME op'.owner = NoWorker, \A j \in Item : ItemAgrees(j)' PROVE SagaInvariant'
  BY <1>f, WorkerAssumption DEF SagaInvariant, Unowned
<1>k. ASSUME UNCHANGED item, \A j \in Item : ItemAgrees(j)', Unowned', op'.owner = op.owner,
             \A j \in Item : file'[j].final = file[j].final \/ file[j].final = "none"
      PROVE  SagaInvariant'
  BY <1>k, <1>t, <1>w DEF SagaInvariant, Knows
<1>s. ASSUME UNCHANGED <<item, file>>, \A j \in Item : seg'[j].at = seg[j].at
      PROVE  \A j \in Item : ItemAgrees(j)'
  BY <1>s DEF SagaInvariant, ItemAgrees
<1>1. CASE Cancel
  <2>1. CASE op.status = "queued"
    <3>1. op'.owner = NoWorker /\ item' = CancelRows /\ UNCHANGED <<file, seg>>
      BY <1>1, <1>t, <2>1 DEF Cancel, SagaInvariant, Unowned, Owned, TypeOK, OpRow
    <3>2. \A j \in Item : ItemAgrees(j)'
      BY <1>t, <3>1 DEF SagaInvariant, ItemAgrees, CancelRows, ItemRow, Moved, Switched
    <3> QED
      BY <1>f, <3>1, <3>2
  <2>2. CASE op.status # "queued"
    <3>1. /\ UNCHANGED <<item, file, seg>>
          /\ op'.owner = op.owner /\ op'.status = "cancel_requested"
      BY <1>1, <1>t, <2>2 DEF Cancel, TypeOK, OpRow
    <3> QED
      BY <1>k, <1>s, <3>1 DEF Unowned, Owned
  <2> QED
    BY <2>1, <2>2
<1>2. CASE Retry
  <2>1. op'.owner = NoWorker /\ UNCHANGED <<file, seg>>
    BY <1>2, <1>t DEF Retry, Retryable, SagaInvariant, Unowned, Owned, TypeOK, OpRow
  <2>2. \A j \in Item : ItemAgrees(j)'
    BY <1>2, <1>t, <2>1 DEF Retry, SagaInvariant, ItemAgrees, ItemRow, Moved, Switched
  <2> QED
    BY <1>f, <2>1, <2>2
<1>3. CASE ExpireDeadLease \/ ExpireSlowLease
  <2>1. /\ UNCHANGED <<item, file, seg>>
        /\ op'.owner = op.owner /\ op'.status = op.status
    BY <1>3, <1>t DEF ExpireDeadLease, ExpireSlowLease, TypeOK, OpRow
  <2> QED
    BY <1>k, <1>s, <2>1 DEF SagaInvariant, Unowned
<1>4. CASE LosePermission \/ RestorePermission \/ RunOutOfSpace \/ FreeSpace
  <2>1. UNCHANGED <<item, file, seg, op>>
    BY <1>4 DEF LosePermission, RestorePermission, RunOutOfSpace, FreeSpace
  <2> QED
    BY <1>k, <1>s, <2>1 DEF SagaInvariant, Unowned
<1>5. ASSUME NEW i \in Item, TouchSegment(i) PROVE SagaInvariant'
  <2>1. UNCHANGED <<item, file, op>> /\ \A j \in Item : seg'[j].at = seg[j].at
    BY <1>5, <1>t DEF TouchSegment, TypeOK, SegRow
  <2> QED
    BY <1>k, <1>s, <2>1 DEF SagaInvariant, Unowned
<1>6. ASSUME NEW i \in Item, DeleteSegment(i) PROVE SagaInvariant'
  <2>1. op'.owner = NoWorker /\ UNCHANGED item
    BY <1>6 DEF DeleteSegment, SagaInvariant, Unowned, Active
  <2>2. ItemAgrees(i)'
    BY <1>6, <1>t DEF DeleteSegment, SagaInvariant, ItemAgrees, TypeOK, SegRow, FileRow
  <2>3. ASSUME NEW j \in Item \ {i} PROVE ItemAgrees(j)'
    BY <1>6, <1>t DEF DeleteSegment, SagaInvariant, ItemAgrees, TypeOK
  <2> QED
    BY <1>f, <2>1, <2>2, <2>3
<1>7. ASSUME NEW i \in Item, ForeignFile(i) PROVE SagaInvariant'
  <2>1. UNCHANGED <<item, seg, op>>
    BY <1>7 DEF ForeignFile
  <2>2. \A j \in Item : /\ file'[j].source = file[j].source /\ file'[j].aside = file[j].aside
                        /\ file'[j].final = file[j].final \/ file[j].final = "none"
    BY <1>7, <1>t DEF ForeignFile, TypeOK, FileRow
  <2>3. \A j \in Item : ItemAgrees(j)'
    BY <2>1, <2>2 DEF SagaInvariant, ItemAgrees
  <2> QED
    BY <1>k, <2>1, <2>2, <2>3 DEF SagaInvariant, Unowned
<1> QED
  BY <1>1, <1>2, <1>3, <1>4, <1>5, <1>6, <1>7

LEMMA SagaStep == SagaInvariant /\ [Next]_vars => SagaInvariant'
<1>1. CASE UNCHANGED vars
  BY <1>1 DEF vars, SagaInvariant, TypeOK, Unowned, ItemAgrees, Knows, Owned
<1>2. ASSUME SagaInvariant, Next PROVE SagaInvariant'
  <2>1. TypeOK'
    BY <1>2, TypeStep DEF SagaInvariant
  <2>2. \A w \in Worker : work[w].item \in Item
    BY <1>2 DEF SagaInvariant, TypeOK, WorkRow
  <2>3. ASSUME NEW w \in Worker, WorkerStep(w) \/ IoError(w) \/ SpoilBatch(w) \/ Crash(w)
        PROVE  SagaInvariant'
    BY <1>2, <2>1, <2>2, <2>3, QuietActions, OwnerActions, DropActions DEF WorkerStep
  <2> QED
    BY <1>2, <2>1, <2>3, WorldActions DEF Next
<1> QED
  BY <1>1, <1>2

\* What the workers know and what the phases say, for every number of items,
\* workers and mishaps: while a worker owns the operation, what it read of its
\* item stays so, and the phase of an item agrees with its catalogue row.
THEOREM SagaInvariantHolds == Spec => []SagaInvariant
<1>1. Init => SagaInvariant
  <2> SUFFICES ASSUME Init PROVE SagaInvariant
    OBVIOUS
  <2>1. TypeOK
    BY BoundAssumption, ItemCountAssumption
       DEF Init, TypeOK, ItemRow, FileRow, SegRow, OpRow, WorkRow, WorldRow, Item, Content, Phase,
           PreSwitch, Copying, Active, RetryMode, Place
  <2>2. Unowned /\ \A w \in Worker : op.owner # w
    BY WorkerAssumption DEF Init, Unowned
  <2>3. \A i \in Item : ItemAgrees(i)
    BY DEF Init, ItemAgrees, Moved, Switched
  <2> QED
    BY <2>1, <2>2, <2>3 DEF SagaInvariant
<1> QED
  BY <1>1, SagaStep, PTL DEF Spec

\* Whatever crashes, takeovers, failed steps, retries and cleanups happen, the
\* recording lies complete where the catalogue says.
THEOREM CatalogueIsServed == Spec => []CatalogueServed
<1>1. SagaInvariant => CatalogueServed
  BY DEF SagaInvariant, ItemAgrees, CatalogueServed
<1> QED
  BY <1>1, SagaInvariantHolds, PTL

-----------------------------------------------------------------------------
(* What lies at the target.                                                *)

\* Nothing of the item's own.
Bare == {"none", "foreign"}

\* What the phase of an item says of its files: it names what is to be removed before
\* the file exists, and calls nothing settled while one is there.
Tidy(i) ==
    /\ item[i].phase \in {"planned", "cancelled", "blocked", "failed"} =>
          file[i].temp \in Bare /\ file[i].final \in Bare
    /\ item[i].phase = "target_temp_create_pending" =>
          file[i].temp \in Bare \cup {"empty"} /\ file[i].final \in Bare
    /\ item[i].phase \in {"copying", "target_temp_written"} => file[i].final \in Bare
    /\ item[i].phase \in {"target_finalized"} \cup Switched \cup {"completed"} =>
          file[i].temp \in Bare
    /\ item[i].phase = "completed" => ~file[i].source /\ ~file[i].aside

\* Outside a cleanup a copy that was begun is there, under one name.
Staged(i) ==
    /\ item[i].phase \in {"copying", "target_temp_written"} => file[i].temp \notin Bare
    /\ item[i].phase = "target_verified" => (file[i].temp \in Bare) # (file[i].final \in Bare)

\* What the owner of the operation is about to do fits its mode and what it has removed.
Remembers(w) ==
    LET i == work[w].item IN
    /\ work[w].at \in {"intent", "createNew", "create", "copy", "hash", "record", "finalize",
                       "verify", "switch", "failing", "cancelling"} => op.mode # "cleanup_only"
    /\ work[w].at \in {"dropFinal", "dropTemp", "giveUp"} => op.mode = "cleanup_only"
    /\ work[w].at = "copy" => item[i].phase = "copying"
    /\ work[w].at \in {"dropTemp", "giveUp"} => file[i].final \in Bare
    /\ work[w].at = "giveUp" => file[i].temp \in Bare
    /\ work[w].at = "ending" /\ op.mode = "cleanup_only" =>
          work[w].want = "cleanup_only" \/ ~CleanupWork

Tidied ==
    /\ \A i \in Item : Tidy(i)
    /\ op.mode # "cleanup_only" => \A i \in Item : Staged(i)
    /\ \A w \in Worker : op.owner = w => Remembers(w)

\* An item as it was, but for files of somebody else that turned up.
Still(i) ==
    /\ item'[i].phase = item[i].phase /\ item'[i].pending = item[i].pending
    /\ file'[i].source = file[i].source /\ file'[i].aside = file[i].aside
    /\ file'[i].temp = file[i].temp \/ {file[i].temp, file'[i].temp} = Bare
    /\ file'[i].final = file[i].final \/ {file[i].final, file'[i].final} = Bare

LEMMA StillTidy ==
    ASSUME NEW i \in Item, Still(i)
    PROVE  /\ Tidy(i) => Tidy(i)'
           /\ Staged(i) => Staged(i)'
<1>1. /\ file'[i].temp \in Bare <=> file[i].temp \in Bare
      /\ file'[i].final \in Bare <=> file[i].final \in Bare
      /\ file'[i].temp = "empty" <=> file[i].temp = "empty"
  BY DEF Still, Bare
<1> QED
  BY <1>1 DEF Still, Tidy, Staged

\* A step of the owner, of which only its item and its own place matter.
LEMMA TidyOwner ==
    ASSUME Tidied, NEW w \in Worker, NEW i \in Item, op.owner = w, UNCHANGED op,
           \A j \in Item \ {i} : Still(j),
           Tidy(i)',
           op.mode # "cleanup_only" => Staged(i)',
           Remembers(w)'
    PROVE  Tidied'
<1>1. \A j \in Item : Tidy(j)' /\ (op.mode # "cleanup_only" => Staged(j)')
  BY StillTidy DEF Tidied
<1> QED
  BY <1>1 DEF Tidied

\* What a worker that does not move remembers of items that do not change is still so.
LEMMA RemembersStays ==
    ASSUME TypeOK, NEW v \in Worker, Remembers(v), work'[v] = work[v], op'.mode = op.mode,
           \A i \in Item : Still(i)
    PROVE  Remembers(v)'
<1>1. work[v].item \in Item
  BY DEF TypeOK, WorkRow
<1>2. \A i \in Item : /\ item'[i].phase = item[i].phase
                      /\ file[i].temp \in Bare => file'[i].temp \in Bare
                      /\ file[i].final \in Bare => file'[i].final \in Bare
  BY DEF Still, Bare
<1>3. CleanupWork' <=> CleanupWork
  BY DEF CleanupWork, Still
<1> QED
  BY <1>1, <1>2, <1>3 DEF Remembers

\* A step that leaves every item alone and moves at most one worker.
LEMMA TidyQuiet ==
    ASSUME TypeOK, Tidied, NEW w \in Worker,
           \A i \in Item : Still(i),
           \A v \in Worker \ {w} : work'[v] = work[v],
           op'.owner \in {op.owner, NoWorker, w},
           op'.owner # NoWorker => op'.mode = op.mode,
           op'.mode # "cleanup_only" => op.mode # "cleanup_only" \/ \A i \in Item : Staged(i),
           op'.owner = w => Remembers(w)'
    PROVE  Tidied'
<1>1. \A i \in Item : Tidy(i)' /\ (Staged(i) => Staged(i)')
  BY StillTidy DEF Tidied
<1>2. ASSUME NEW v \in Worker, op'.owner = v, v # w PROVE Remembers(v)'
  <2>1. op.owner = v /\ work'[v] = work[v] /\ op'.mode = op.mode
    BY <1>2, WorkerAssumption
  <2> QED
    BY <2>1, RemembersStays DEF Tidied
<1> QED
  BY <1>1, <1>2 DEF Tidied

\* A worker that is nowhere in particular.
LEMMA FreshRemembers ==
    ASSUME NEW w \in Worker,
           work'[w].at \in {"idle", "begin", "pick", "recheck", "cleanup", "quarantine", "mark", "unlink"}
    PROVE  Remembers(w)'
BY DEF Remembers

\* A failure in a cleanup knows whether there is more to clean up.
LEMMA FailRemembers ==
    ASSUME TypeOK, NEW w \in Worker, NEW mode, Fail(w, mode), UNCHANGED <<item, op>>
    PROVE  Remembers(w)'
<1>1. CASE op.mode = "cleanup_only"
  <2>1. work'[w].at = "ending"
    BY <1>1 DEF Fail, TypeOK, WorkRow
  <2>2. work'[w].want = IF CleanupWork THEN "cleanup_only" ELSE "refresh"
    BY <1>1 DEF Fail, TypeOK, WorkRow
  <2>3. CleanupWork' <=> CleanupWork
    BY DEF CleanupWork
  <2> QED
    BY <1>1, <2>1, <2>2, <2>3 DEF Remembers
<1>2. CASE op.mode # "cleanup_only"
  <2>1. work'[w].at = "failing"
    BY <1>2, <1>1 DEF Fail, TypeOK, WorkRow
  <2> QED
    BY <1>2, <2>1 DEF Remembers
<1> QED
  BY <1>1, <1>2

\* Where there is no cleanup work every copy that was begun is there.
LEMMA NoWorkStaged ==
    ASSUME ~CleanupWork
    PROVE  \A i \in Item : Staged(i)
BY DEF CleanupWork, CleanupRecovery, PreSwitch, Copying, Staged

LEMMA EndsMode ==
    ASSUME TypeOK, NEW w \in Worker, NEW status, NEW mode, Ends(w, status, mode)
    PROVE  /\ op'.owner = NoWorker /\ op'.mode = mode
           /\ \A v \in Worker \ {w} : work'[v] = work[v]
BY GotoEffect DEF TypeOK, OpRow, Ends

LEMMA TidyQuietActions ==
    ASSUME SagaInvariant, Tidied, NEW w \in Worker,
           \/ Claim(w) \/ Begin(w) \/ FinishApply(w) \/ EndCancelled(w) \/ StartItem(w)
           \/ EndInterrupted(w) \/ Abandon(w) \/ FinishCleanup(w) \/ Refuse(w)
           \/ PermissionLost(w) \/ HashTemp(w) \/ VerifyFinal(w) \/ RecheckFinal(w)
           \/ IoError(w) \/ Crash(w)
    PROVE  Tidied'
<1>t. TypeOK /\ work[w] \in WorkRow
  BY DEF SagaInvariant, TypeOK
<1>k. UNCHANGED <<item, file, seg>> /\ \A i \in Item : Still(i)
  <2>1. UNCHANGED <<item, file, seg>>
    BY DEF Claim, Begin, FinishApply, EndCancelled, StartItem, EndInterrupted, Abandon,
           FinishCleanup, Refuse, PermissionLost, HashTemp, VerifyFinal, RecheckFinal, IoError, Crash
  <2> QED
    BY <2>1 DEF Still
<1>n. op.owner = w => Remembers(w)
  BY DEF Tidied
<1>s. op.mode # "cleanup_only" => \A i \in Item : Staged(i)
  BY DEF Tidied
<1>e. ASSUME NEW status, NEW mode, Ends(w, status, mode),
             mode # "cleanup_only" => \A i \in Item : Staged(i)
      PROVE  Tidied'
  BY <1>e, <1>k, <1>t, EndsMode, TidyQuiet, WorkerAssumption
<1>1. CASE Claim(w)
  <2>1. /\ op'.owner = w /\ op'.mode = op.mode
        /\ work'[w].at = "begin" /\ \A v \in Worker \ {w} : work'[v] = work[v]
    BY <1>1, <1>t, GotoEffect DEF Claim, TypeOK, OpRow
  <2> QED
    BY <1>k, <1>t, <2>1, FreshRemembers, TidyQuiet
<1>2. CASE Begin(w)
  <2>1. CASE Goto(w, "pick") /\ UNCHANGED op
    BY <1>k, <1>t, <2>1, GotoEffect, FreshRemembers, TidyQuiet
  <2>2. CASE Ends(w, "stopped", PermissionMode)
    BY <1>e, <2>2, NoWorkStaged DEF PermissionMode
  <2> QED
    BY <1>2, <2>1, <2>2 DEF Begin
<1>3. CASE FinishApply(w) \/ EndCancelled(w) \/ FinishCleanup(w)
  <2>1. PICK status, mode : Ends(w, status, mode)
    BY <1>3 DEF FinishApply, EndCancelled, FinishCleanup
  <2>2. \A i \in Item : Staged(i)
    <3>1. CASE FinishApply(w)
      BY <1>s, <3>1 DEF FinishApply, Picking
    <3>2. CASE EndCancelled(w)
      BY <1>n, <1>s, <3>2 DEF EndCancelled, Owns, Remembers
    <3>3. CASE FinishCleanup(w)
      <4>1. \A i \in Item : item[i].phase \in ItemTerminal
        BY <3>3 DEF FinishCleanup, OpenCleanup, Open
      <4> QED
        BY <4>1 DEF Staged, ItemTerminal
    <3> QED
      BY <1>3, <3>1, <3>2, <3>3
  <2> QED
    BY <1>e, <2>1, <2>2
<1>4. CASE EndInterrupted(w)
  <2>1. Ends(w, "stopped", work[w].want) /\ work[w].at = "ending" /\ op.owner = w
    BY <1>4 DEF EndInterrupted, Owns
  <2>2. work[w].want # "cleanup_only" => \A i \in Item : Staged(i)
    BY <1>n, <1>s, <2>1, NoWorkStaged DEF Remembers
  <2> QED
    BY <1>e, <2>1, <2>2
<1>5. CASE StartItem(w)
  <2>1. PICK i \in Item : StartItem(w)!2!(i)
    BY <1>5 DEF StartItem
  <2>2. item[i].phase \in Phase /\ item[i].phase \notin ItemTerminal
    BY <2>1, <1>t DEF First, Open, TypeOK, ItemRow
  <2>3. /\ work'[w].item = i
        /\ work'[w].at \in {"failing", StepFor(item[i].phase)}
        /\ \A v \in Worker \ {w} : work'[v] = work[v]
    BY <2>1, <1>t DEF TypeOK, WorkRow
  <2>4. UNCHANGED op /\ op.mode # "cleanup_only"
    BY <1>5 DEF StartItem, Picking
  <2>5. Remembers(w)'
    BY <1>k, <2>2, <2>3, <2>4
       DEF Remembers, StepFor, Phase, PreSwitch, Copying, Switched, ItemTerminal
  <2> QED
    BY <1>k, <1>t, <2>3, <2>4, <2>5, TidyQuiet
<1>6. CASE Abandon(w) \/ Crash(w)
  <2>1. UNCHANGED op /\ Goto(w, "idle")
    BY <1>6 DEF Abandon, Crash
  <2> QED
    BY <1>k, <1>t, <2>1, GotoEffect, FreshRemembers, TidyQuiet
<1>7. CASE Refuse(w) \/ PermissionLost(w) \/ IoError(w)
  <2>1. PICK mode : Fail(w, mode) /\ UNCHANGED op
    BY <1>7 DEF Refuse, PermissionLost, IoError
  <2> QED
    BY <1>k, <1>t, <2>1, FailEffect, FailRemembers, TidyQuiet
<1>8. CASE HashTemp(w) \/ VerifyFinal(w)
  <2>1. /\ UNCHANGED op /\ work[w].at \in {"hash", "verify"}
        /\ Goto(w, "record") \/ Goto(w, "switch")
    BY <1>8 DEF HashTemp, VerifyFinal
  <2>2. work'[w].at \in {"record", "switch"} /\ \A v \in Worker \ {w} : work'[v] = work[v]
    BY <1>t, <2>1, GotoEffect
  <2>3. op.owner = w => Remembers(w)'
    BY <1>n, <2>1, <2>2 DEF Remembers
  <2> QED
    BY <1>k, <1>t, <2>1, <2>2, <2>3, TidyQuiet
<1>9. CASE RecheckFinal(w)
  <2>1. UNCHANGED op /\ Goto(w, CleanupStep(item[work[w].item].phase))
    BY <1>9 DEF RecheckFinal
  <2>2. work'[w].at \in {"cleanup", "quarantine", "mark", "unlink"}
    BY <1>t, <2>1, GotoEffect DEF CleanupStep
  <2> QED
    BY <1>k, <1>t, <2>1, <2>2, GotoEffect, FreshRemembers, TidyQuiet
<1> QED
  BY <1>1, <1>2, <1>3, <1>4, <1>5, <1>6, <1>7, <1>8, <1>9

\* What a file operation does to the four paths of an item, and to no other item.
LEMMA FileEffect ==
    ASSUME TypeOK, NEW i \in Item, NEW c
    PROVE  /\ \A j \in Item \ {i} : /\ [file EXCEPT ![i].temp = c][j] = file[j]
                                    /\ [file EXCEPT ![i].final = c][j] = file[j]
                                    /\ [file EXCEPT ![i].final = c, ![i].temp = "none"][j] = file[j]
           /\ LET f == [file EXCEPT ![i].temp = c][i] IN
                  f.temp = c /\ f.final = file[i].final /\ f.source = file[i].source
                             /\ f.aside = file[i].aside
           /\ LET f == [file EXCEPT ![i].final = c][i] IN
                  f.final = c /\ f.temp = file[i].temp /\ f.source = file[i].source
                              /\ f.aside = file[i].aside
           /\ LET f == [file EXCEPT ![i].final = c, ![i].temp = "none"][i] IN
                  f.final = c /\ f.temp = "none" /\ f.source = file[i].source
                              /\ f.aside = file[i].aside
BY DEF TypeOK, FileRow

LEMMA SourceEffect ==
    ASSUME TypeOK, NEW i \in Item
    PROVE  /\ \A j \in Item \ {i} : /\ [file EXCEPT ![i].source = FALSE, ![i].aside = TRUE][j] = file[j]
                                    /\ [file EXCEPT ![i].source = FALSE][j] = file[j]
                                    /\ [file EXCEPT ![i].aside = FALSE][j] = file[j]
           /\ LET f == [file EXCEPT ![i].source = FALSE, ![i].aside = TRUE][i] IN
                  f.temp = file[i].temp /\ f.final = file[i].final
           /\ LET f == [file EXCEPT ![i].source = FALSE][i] IN
                  f.temp = file[i].temp /\ f.final = file[i].final /\ ~f.source
                                        /\ f.aside = file[i].aside
           /\ LET f == [file EXCEPT ![i].aside = FALSE][i] IN
                  f.temp = file[i].temp /\ f.final = file[i].final /\ ~f.aside
                                        /\ f.source = file[i].source
BY DEF TypeOK, FileRow

\* A commit that moves the item to the phase p, and a death that moves nothing.
LEMMA CommitPhase ==
    ASSUME TypeOK, NEW w \in Worker, NEW i \in Item, i = work[w].item, NEW next, NEW row \in ItemRow,
           Commit(w, row, next)
    PROVE  /\ item'[i].phase = row.phase
           /\ \A j \in Item \ {i} : item'[j] = item[j]
           /\ work'[w].at = next /\ work'[w].item = i
BY CommitEffect

LEMMA BoundPhase ==
    ASSUME TypeOK, NEW i \in Item
    PROVE  Bound(i) \in ItemRow /\ Bound(i).phase = item[i].phase
BY BoundAssumption DEF TypeOK, ItemRow, OpRow, Bound

\* The step of an item under its locks, which ends in a commit or in a death.
LEMMA TidyCommit ==
    ASSUME TypeOK, Tidied, NEW w \in Worker, NEW i \in Item, i = work[w].item, Owns(w), UNCHANGED op,
           NEW next, NEW row \in ItemRow, Commit(w, row, next),
           \A j \in Item \ {i} : file'[j] = file[j],
           item'[i].phase = row.phase => Tidy(i)' /\ (op.mode # "cleanup_only" => Staged(i)'),
           item'[i].phase = row.phase /\ work'[w].at = next /\ work'[w].item = i => Remembers(w)'
    PROVE  Tidied'
<1>1. \A j \in Item \ {i} : Still(j)
  BY CommitPhase DEF Still
<1>2. op.owner = w
  BY DEF Owns
<1> QED
  BY <1>1, <1>2, CommitPhase, TidyOwner

LEMMA TidyDeath ==
    ASSUME TypeOK, Tidied, NEW w \in Worker, NEW i \in Item, i = work[w].item, Owns(w), UNCHANGED op,
           Dies(w),
           \A j \in Item \ {i} : file'[j] = file[j],
           item'[i].phase = item[i].phase => Tidy(i)' /\ (op.mode # "cleanup_only" => Staged(i)')
    PROVE  Tidied'
<1>1. \A j \in Item \ {i} : Still(j)
  BY DiesEffect DEF Still
<1>2. op.owner = w
  BY DEF Owns
<1>3. item'[i].phase = item[i].phase /\ work'[w].at = "idle"
  BY DiesEffect
<1> QED
  BY <1>1, <1>2, <1>3, FreshRemembers, TidyOwner

LEMMA TidyPhaseActions ==
    ASSUME SagaInvariant, Tidied, NEW w \in Worker, NEW i \in Item, i = work[w].item,
           \/ StageTempCreateIntent(w) \/ TempWritten(w) \/ RecordHash(w)
           \/ StageCleanup(w) \/ MarkDelete(w) \/ GiveUp(w)
    PROVE  Tidied'
<1>t. TypeOK
  BY DEF SagaInvariant
<1>b. /\ Tidy(i) /\ (op.mode # "cleanup_only" => Staged(i))
      /\ op.owner = w => Remembers(w)
  BY DEF Tidied
<1>r. Bound(i) \in ItemRow /\ Bound(i).phase = item[i].phase
  BY <1>t, BoundPhase
<1>p. {"target_temp_create_pending", "target_temp_written", "target_verified",
       "source_cleanup_pending", "source_delete_committing", "failed"} \subseteq Phase
  BY DEF Phase, PreSwitch, Copying, Switched, ItemTerminal
<1>1. CASE StageTempCreateIntent(w)
  <2> DEFINE row == [Bound(i) EXCEPT !.phase = "target_temp_create_pending", !.known = FALSE]
  <2>1. /\ Owns(w) /\ op.owner = w /\ work[w].at = "intent"
        /\ UNCHANGED <<op, file>> /\ Commit(w, row, "createNew")
    BY <1>1 DEF StageTempCreateIntent, Permitted, Locked, Owns
  <2>2. row \in ItemRow /\ row.phase = "target_temp_create_pending"
    BY <1>r, <1>p DEF ItemRow
  <2> HIDE DEF row
  <2>3. item[i].phase = "planned"
    BY <1>b, <1>1, <2>1 DEF StageTempCreateIntent, Remembers, Refuses, Bare
  <2>4. ASSUME item'[i].phase = "target_temp_create_pending"
        PROVE  Tidy(i)' /\ (op.mode # "cleanup_only" => Staged(i)')
    BY <1>b, <2>1, <2>3, <2>4 DEF Tidy, Staged, Bare, Switched
  <2>5. ASSUME item'[i].phase = "target_temp_create_pending", work'[w].at = "createNew", work'[w].item = i
        PROVE  Remembers(w)'
    BY <1>b, <2>1, <2>5 DEF Remembers
  <2> QED
    BY <1>t, <2>1, <2>2, <2>4, <2>5, TidyCommit
<1>2. CASE TempWritten(w)
  <2> DEFINE row == [Bound(i) EXCEPT !.phase = "target_temp_written"]
  <2>1. /\ Owns(w) /\ op.owner = w /\ work[w].at = "copy"
        /\ UNCHANGED <<op, file>> /\ Commit(w, row, "hash")
    BY <1>2 DEF TempWritten, Permitted, Locked, Owns
  <2>2. row \in ItemRow /\ row.phase = "target_temp_written"
    BY <1>r, <1>p DEF ItemRow
  <2> HIDE DEF row
  <2>3. item[i].phase = "copying" /\ file[i].temp \notin Bare
    BY <1>b, <1>2, <2>1 DEF TempWritten, Remembers, Refuses, Bare
  <2>4. ASSUME item'[i].phase = "target_temp_written"
        PROVE  Tidy(i)' /\ (op.mode # "cleanup_only" => Staged(i)')
    BY <1>b, <2>1, <2>3, <2>4 DEF Tidy, Staged, Bare, Switched
  <2>5. ASSUME item'[i].phase = "target_temp_written", work'[w].at = "hash", work'[w].item = i
        PROVE  Remembers(w)'
    BY <1>b, <2>1, <2>5 DEF Remembers
  <2> QED
    BY <1>t, <2>1, <2>2, <2>4, <2>5, TidyCommit
<1>3. CASE RecordHash(w)
  <2> DEFINE row == [Bound(i) EXCEPT !.phase = "target_verified", !.hashed = TRUE]
  <2>1. /\ Owns(w) /\ op.owner = w /\ work[w].at = "record"
        /\ UNCHANGED <<op, file>> /\ Commit(w, row, "finalize")
    BY <1>3 DEF RecordHash, Permitted, Locked, Owns
  <2>2. row \in ItemRow /\ row.phase = "target_verified"
    BY <1>r, <1>p DEF ItemRow
  <2> HIDE DEF row
  <2>3. item[i].phase = "target_temp_written" /\ op.mode # "cleanup_only"
    BY <1>b, <1>3, <2>1 DEF RecordHash, Remembers, Refuses, Bare
  <2>4. ASSUME item'[i].phase = "target_verified"
        PROVE  Tidy(i)' /\ (op.mode # "cleanup_only" => Staged(i)')
    BY <1>b, <2>1, <2>3, <2>4 DEF Tidy, Staged, Bare, Switched
  <2>5. ASSUME item'[i].phase = "target_verified", work'[w].at = "finalize", work'[w].item = i
        PROVE  Remembers(w)'
    BY <1>b, <2>1, <2>5 DEF Remembers
  <2> QED
    BY <1>t, <2>1, <2>2, <2>4, <2>5, TidyCommit
<1>4. CASE StageCleanup(w)
  <2> DEFINE row == [Bound(i) EXCEPT !.phase = "source_cleanup_pending", !.pending = TRUE]
  <2>1. /\ Owns(w) /\ op.owner = w /\ work[w].at = "cleanup"
        /\ UNCHANGED <<op, file>> /\ Commit(w, row, "quarantine")
    BY <1>4 DEF StageCleanup, Permitted, Locked, Owns
  <2>2. row \in ItemRow /\ row.phase = "source_cleanup_pending"
    BY <1>r, <1>p DEF ItemRow
  <2> HIDE DEF row
  <2>3. item[i].phase = "metadata_switched"
    BY <1>b, <1>4, <2>1 DEF StageCleanup, Remembers, Refuses, Bare
  <2>4. ASSUME item'[i].phase = "source_cleanup_pending"
        PROVE  Tidy(i)' /\ (op.mode # "cleanup_only" => Staged(i)')
    BY <1>b, <2>1, <2>3, <2>4 DEF Tidy, Staged, Bare, Switched
  <2>5. ASSUME item'[i].phase = "source_cleanup_pending", work'[w].at = "quarantine", work'[w].item = i
        PROVE  Remembers(w)'
    BY <1>b, <2>1, <2>5 DEF Remembers
  <2> QED
    BY <1>t, <2>1, <2>2, <2>4, <2>5, TidyCommit
<1>5. CASE MarkDelete(w)
  <2> DEFINE row == [Bound(i) EXCEPT !.phase = "source_delete_committing"]
  <2>1. /\ Owns(w) /\ op.owner = w /\ work[w].at = "mark"
        /\ UNCHANGED <<op, file>> /\ Commit(w, row, "unlink")
    BY <1>5 DEF MarkDelete, Permitted, Locked, Owns
  <2>2. row \in ItemRow /\ row.phase = "source_delete_committing"
    BY <1>r, <1>p DEF ItemRow
  <2> HIDE DEF row
  <2>3. item[i].phase = "source_quarantined"
    BY <1>b, <1>5, <2>1 DEF MarkDelete, Remembers, Refuses, Bare
  <2>4. ASSUME item'[i].phase = "source_delete_committing"
        PROVE  Tidy(i)' /\ (op.mode # "cleanup_only" => Staged(i)')
    BY <1>b, <2>1, <2>3, <2>4 DEF Tidy, Staged, Bare, Switched
  <2>5. ASSUME item'[i].phase = "source_delete_committing", work'[w].at = "unlink", work'[w].item = i
        PROVE  Remembers(w)'
    BY <1>b, <2>1, <2>5 DEF Remembers
  <2> QED
    BY <1>t, <2>1, <2>2, <2>4, <2>5, TidyCommit
<1>6. CASE GiveUp(w)
  <2> DEFINE row == [Bound(i) EXCEPT !.phase = "failed", !.pending = FALSE]
  <2>1. /\ Owns(w) /\ op.owner = w /\ work[w].at = "giveUp"
        /\ UNCHANGED <<op, file>> /\ Commit(w, row, "pick")
    BY <1>6 DEF GiveUp, Permitted, Locked, Owns
  <2>2. row \in ItemRow /\ row.phase = "failed"
    BY <1>r, <1>p DEF ItemRow
  <2> HIDE DEF row
  <2>3. file[i].temp \in Bare /\ file[i].final \in Bare
    BY <1>b, <1>6, <2>1 DEF GiveUp, Remembers, Refuses, Bare
  <2>4. ASSUME item'[i].phase = "failed"
        PROVE  Tidy(i)' /\ (op.mode # "cleanup_only" => Staged(i)')
    BY <1>b, <2>1, <2>3, <2>4 DEF Tidy, Staged, Bare, Switched
  <2>5. ASSUME item'[i].phase = "failed", work'[w].at = "pick", work'[w].item = i
        PROVE  Remembers(w)'
    BY <1>b, <2>1, <2>5 DEF Remembers
  <2> QED
    BY <1>t, <2>1, <2>2, <2>4, <2>5, TidyCommit
<1> QED
  BY <1>1, <1>2, <1>3, <1>4, <1>5, <1>6

LEMMA TidyFileActions ==
    ASSUME SagaInvariant, Tidied, NEW w \in Worker, NEW i \in Item, i = work[w].item,
           CreateTemp(w) \/ CopyBatch(w) \/ FinalizeTarget(w) \/ QuarantineSource(w) \/ DeleteSource(w)
    PROVE  Tidied'
<1>t. TypeOK
  BY DEF SagaInvariant
<1>b. /\ Tidy(i) /\ (op.mode # "cleanup_only" => Staged(i))
      /\ op.owner = w => Remembers(w)
  BY DEF Tidied
<1>r. Bound(i) \in ItemRow /\ Bound(i).phase = item[i].phase
  BY <1>t, BoundPhase
<1>p. {"copying", "target_finalized", "source_quarantined", "completed"} \subseteq Phase
  BY DEF Phase, PreSwitch, Copying, Switched, ItemTerminal
<1>1. CASE CreateTemp(w)
  <2> DEFINE row == [Bound(i) EXCEPT !.phase = "copying", !.known = TRUE]
  <2>1. /\ Owns(w) /\ op.owner = w /\ work[w].at \in {"createNew", "create"}
        /\ UNCHANGED op /\ (Commit(w, row, "copy") \/ Dies(w))
    BY <1>1 DEF CreateTemp, Permitted, Locked, Owns
  <2>2. row \in ItemRow /\ row.phase = "copying"
    BY <1>r, <1>p DEF ItemRow
  <2> HIDE DEF row
  <2>3. item[i].phase = "target_temp_create_pending"
    BY <1>b, <1>1, <2>1 DEF CreateTemp, Remembers, Refuses, Bare
  <2>4. /\ \A j \in Item \ {i} : file'[j] = file[j]
        /\ file'[i].temp = "empty" /\ file'[i].final = file[i].final
    BY <1>1, <1>t, <2>3, FileEffect DEF CreateTemp
  <2>5. ASSUME item'[i].phase \in {item[i].phase, "copying"}
        PROVE  Tidy(i)' /\ (op.mode # "cleanup_only" => Staged(i)')
    BY <1>b, <2>1, <2>3, <2>4, <2>5 DEF Tidy, Staged, Bare, Switched
  <2>6. ASSUME item'[i].phase = "copying", work'[w].at = "copy", work'[w].item = i
        PROVE  Remembers(w)'
    BY <1>b, <2>1, <2>3, <2>6 DEF Remembers
  <2> QED
    BY <1>t, <2>1, <2>2, <2>4, <2>5, <2>6, TidyCommit, TidyDeath
<1>2. CASE CopyBatch(w)
  <2> DEFINE row == Bound(i)
  <2>1. /\ Owns(w) /\ op.owner = w /\ work[w].at \in {"copy"}
        /\ UNCHANGED op /\ (Commit(w, row, "copy") \/ Dies(w))
    BY <1>2 DEF CopyBatch, Permitted, Locked, Owns
  <2>2. row \in ItemRow /\ row.phase = item[i].phase
    BY <1>r, <1>p DEF ItemRow
  <2> HIDE DEF row
  <2>3. item[i].phase = "copying" /\ file[i].temp \in {"empty", "part"}
    BY <1>b, <1>2, <2>1 DEF CopyBatch, Remembers, Refuses, Bare
  <2>4. /\ \A j \in Item \ {i} : file'[j] = file[j]
        /\ file'[i].temp \in {"part", "full"} /\ file'[i].final = file[i].final
    <3>1. PICK c \in {"part", "full"} : file' = [file EXCEPT ![i].temp = c]
      BY <1>2 DEF CopyBatch, Copied
    <3> QED
      BY <1>t, <3>1, FileEffect
  <2>5. ASSUME item'[i].phase \in {item[i].phase, item[i].phase}
        PROVE  Tidy(i)' /\ (op.mode # "cleanup_only" => Staged(i)')
    BY <1>b, <2>1, <2>3, <2>4, <2>5 DEF Tidy, Staged, Bare, Switched
  <2>6. ASSUME item'[i].phase = item[i].phase, work'[w].at = "copy", work'[w].item = i
        PROVE  Remembers(w)'
    BY <1>b, <2>1, <2>3, <2>6 DEF Remembers
  <2> QED
    BY <1>t, <2>1, <2>2, <2>4, <2>5, <2>6, TidyCommit, TidyDeath
<1>3. CASE FinalizeTarget(w)
  <2> DEFINE row == [Bound(i) EXCEPT !.phase = "target_finalized"]
  <2>1. /\ Owns(w) /\ op.owner = w /\ work[w].at \in {"finalize"}
        /\ UNCHANGED op /\ (Commit(w, row, "verify") \/ Dies(w))
    BY <1>3 DEF FinalizeTarget, Permitted, Locked, Owns
  <2>2. row \in ItemRow /\ row.phase = "target_finalized"
    BY <1>r, <1>p DEF ItemRow
  <2> HIDE DEF row
  <2>3. /\ item[i].phase = "target_verified" /\ op.mode # "cleanup_only"
        /\ file[i].final # "foreign"
        /\ file[i].final = "none" => file[i].temp \notin Bare
        /\ file[i].final # "none" => file[i].temp \in Bare
    BY <1>b, <1>3, <2>1 DEF FinalizeTarget, Remembers, Refuses, Bare, Staged
  <2>4. /\ \A j \in Item \ {i} : file'[j] = file[j]
        /\ file'[i].temp \in Bare /\ file'[i].final \notin Bare
    <3>1. CASE file[i].final = "none"
      <4>1. file' = [file EXCEPT ![i].final = file[i].temp, ![i].temp = "none"]
        BY <1>3, <3>1 DEF FinalizeTarget
      <4>2. /\ \A j \in Item \ {i} : file'[j] = file[j]
            /\ file'[i].temp = "none" /\ file'[i].final = file[i].temp
        BY <1>t, <4>1 DEF TypeOK, FileRow
      <4> QED
        BY <2>3, <3>1, <4>2 DEF Bare
    <3>2. CASE file[i].final # "none"
      <4>1. file' = file
        BY <1>3, <3>2 DEF FinalizeTarget
      <4> QED
        BY <2>3, <3>2, <4>1 DEF Bare
    <3> QED
      BY <3>1, <3>2
  <2>5. ASSUME item'[i].phase \in {item[i].phase, "target_finalized"}
        PROVE  Tidy(i)' /\ (op.mode # "cleanup_only" => Staged(i)')
    BY <1>b, <2>1, <2>3, <2>4, <2>5 DEF Tidy, Staged, Bare, Switched
  <2>6. ASSUME item'[i].phase = "target_finalized", work'[w].at = "verify", work'[w].item = i
        PROVE  Remembers(w)'
    BY <1>b, <2>1, <2>3, <2>6 DEF Remembers
  <2> QED
    BY <1>t, <2>1, <2>2, <2>4, <2>5, <2>6, TidyCommit, TidyDeath
<1>4. CASE QuarantineSource(w)
  <2> DEFINE row == [Bound(i) EXCEPT !.phase = "source_quarantined"]
  <2>1. /\ Owns(w) /\ op.owner = w /\ work[w].at \in {"quarantine"}
        /\ UNCHANGED op /\ (Commit(w, row, "mark") \/ Dies(w))
    BY <1>4 DEF QuarantineSource, Permitted, Locked, Owns
  <2>2. row \in ItemRow /\ row.phase = "source_quarantined"
    BY <1>r, <1>p DEF ItemRow
  <2> HIDE DEF row
  <2>3. item[i].phase = "source_cleanup_pending"
    BY <1>b, <1>4, <2>1 DEF QuarantineSource, Remembers, Refuses, Bare
  <2>4. /\ \A j \in Item \ {i} : file'[j] = file[j]
        /\ file'[i].temp = file[i].temp /\ file'[i].final = file[i].final
    BY <1>4, <1>t, <2>3, SourceEffect DEF QuarantineSource
  <2>5. ASSUME item'[i].phase \in {item[i].phase, "source_quarantined"}
        PROVE  Tidy(i)' /\ (op.mode # "cleanup_only" => Staged(i)')
    BY <1>b, <2>1, <2>3, <2>4, <2>5 DEF Tidy, Staged, Bare, Switched
  <2>6. ASSUME item'[i].phase = "source_quarantined", work'[w].at = "mark", work'[w].item = i
        PROVE  Remembers(w)'
    BY <1>b, <2>1, <2>3, <2>6 DEF Remembers
  <2> QED
    BY <1>t, <2>1, <2>2, <2>4, <2>5, <2>6, TidyCommit, TidyDeath
<1>5. CASE DeleteSource(w)
  <2> DEFINE row == [Bound(i) EXCEPT !.phase = "completed", !.pending = FALSE]
  <2>1. /\ Owns(w) /\ op.owner = w /\ work[w].at \in {"unlink"}
        /\ UNCHANGED op /\ (Commit(w, row, "pick") \/ Dies(w))
    BY <1>5 DEF DeleteSource, Permitted, Locked, Owns
  <2>2. row \in ItemRow /\ row.phase = "completed"
    BY <1>r, <1>p DEF ItemRow
  <2> HIDE DEF row
  <2>3. item[i].phase = "source_delete_committing" /\ ~file[i].source
    BY <1>b, <1>5, <2>1 DEF DeleteSource, Remembers, Refuses, Bare
  <2>4. /\ \A j \in Item \ {i} : file'[j] = file[j]
        /\ file'[i].temp = file[i].temp /\ ~file'[i].source /\ ~file'[i].aside
    BY <1>5, <1>t, <2>3, SourceEffect DEF DeleteSource
  <2>5. ASSUME item'[i].phase \in {item[i].phase, "completed"}
        PROVE  Tidy(i)' /\ (op.mode # "cleanup_only" => Staged(i)')
    BY <1>b, <2>1, <2>3, <2>4, <2>5 DEF Tidy, Staged, Bare, Switched
  <2>6. ASSUME item'[i].phase = "completed", work'[w].at = "pick", work'[w].item = i
        PROVE  Remembers(w)'
    BY <1>b, <2>1, <2>3, <2>6 DEF Remembers
  <2> QED
    BY <1>t, <2>1, <2>2, <2>4, <2>5, <2>6, TidyCommit, TidyDeath
<1> QED
  BY <1>1, <1>2, <1>3, <1>4, <1>5

LEMMA TidyOtherActions ==
    ASSUME SagaInvariant, Tidied, NEW w \in Worker, NEW i \in Item, i = work[w].item,
           HandleFailure(w) \/ CancelPlanned(w) \/ StartCleanup(w) \/ SpoilBatch(w) \/ SwitchMetadata(w)
    PROVE  Tidied'
<1>t. TypeOK /\ item[i] \in ItemRow
  BY DEF SagaInvariant, TypeOK
<1>b. /\ Tidy(i) /\ (op.mode # "cleanup_only" => Staged(i))
      /\ op.owner = w => Remembers(w)
  BY DEF Tidied
<1>1. CASE HandleFailure(w)
  <2>1. op.owner = w /\ UNCHANGED <<op, file>> /\ work[w].at = "failing"
    BY <1>1 DEF HandleFailure, Locked, Owns
  <2>2. /\ \A j \in Item \ {i} : item'[j] = item[j]
        /\ item'[i].phase = item[i].phase /\ work'[w].at = "ending"
    BY <1>1, <1>t, <2>1, GotoEffect DEF HandleFailure, Bound, TypeOK, ItemRow
  <2>3. \A j \in Item \ {i} : Still(j)
    BY <2>1, <2>2 DEF Still
  <2>4. Tidy(i)' /\ (op.mode # "cleanup_only" => Staged(i)') /\ Remembers(w)'
    BY <1>b, <2>1, <2>2 DEF Tidy, Staged, Remembers
  <2> QED
    BY <2>1, <2>3, <2>4, TidyOwner
<1>2. CASE CancelPlanned(w)
  <2>1. op.owner = w /\ UNCHANGED <<op, file>> /\ item' = CancelRows /\ op.mode # "cleanup_only"
    BY <1>2 DEF CancelPlanned, Picking, Owns
  <2>2. ASSUME NEW j \in Item PROVE Tidy(j)' /\ Staged(j)'
    <3>1. \/ item'[j].phase = item[j].phase
          \/ item[j].phase = "planned" /\ item'[j].phase = "cancelled"
      BY <1>t, <2>1 DEF CancelRows, TypeOK, ItemRow
    <3>2. Tidy(j) /\ Staged(j)
      BY <2>1 DEF Tidied
    <3> QED
      BY <2>1, <3>1, <3>2 DEF Tidy, Staged, Switched
  <2>3. Remembers(w)'
    BY <1>2, <1>t, <2>1, GotoEffect DEF CancelPlanned, Remembers
  <2> QED
    BY <2>1, <2>2, <2>3 DEF Tidied
<1>3. CASE StartCleanup(w)
  <2>1. PICK j \in Item : StartCleanup(w)!2!(j)
    BY <1>3 DEF StartCleanup
  <2>2. op.owner = w /\ op.mode = "cleanup_only" /\ UNCHANGED <<op, file>> /\ work[w].at = "pick"
    BY <1>3 DEF StartCleanup, Picking, Owns
  <2>3. CASE item[j].phase = "planned" /\ ~item[j].pending
    <3>1. /\ \A m \in Item \ {j} : item'[m] = item[m]
          /\ item'[j].phase \in {"planned", "blocked"} /\ work'[w].at \in {"pick", "idle"}
      <4>1. CASE item' = [item EXCEPT ![j] = [Bound(j) EXCEPT !.phase = "blocked"]] /\ UNCHANGED work
        BY <1>t, <2>2, <4>1 DEF Bound, TypeOK, ItemRow
      <4>2. CASE Goto(w, "idle") /\ UNCHANGED item
        BY <1>t, <2>2, <2>3, <4>2, GotoEffect
      <4> QED
        BY <2>1, <2>3, <4>1, <4>2
    <3>2. \A m \in Item \ {j} : Still(m)
      BY <2>2, <3>1 DEF Still
    <3>3. Tidy(j)
      BY DEF Tidied
    <3>4. Tidy(j)'
      BY <2>2, <2>3, <3>1, <3>3 DEF Tidy, Switched
    <3> QED
      BY <2>2, <3>1, <3>2, <3>4, FreshRemembers, TidyOwner
  <2>4. CASE ~(item[j].phase = "planned" /\ ~item[j].pending)
    <3>1. /\ UNCHANGED item /\ work'[w].at = CleanupEntry(item[j].phase)
          /\ \A v \in Worker \ {w} : work'[v] = work[v]
      BY <1>t, <2>1, <2>4 DEF TypeOK, WorkRow
    <3>2. \A m \in Item : Still(m)
      BY <2>2, <3>1 DEF Still
    <3>3. Remembers(w)'
      BY <2>2, <3>1 DEF CleanupEntry, Remembers
    <3> QED
      BY <1>t, <2>2, <3>1, <3>2, <3>3, TidyQuiet
  <2> QED
    BY <2>3, <2>4
<1>4. CASE SpoilBatch(w)
  <2>1. op.owner = w /\ UNCHANGED <<op, work>> /\ work[w].at = "copy"
    BY <1>4 DEF SpoilBatch, Permitted, Locked, Owns
  <2>2. /\ \A j \in Item \ {i} : item'[j] = item[j] /\ file'[j] = file[j]
        /\ file'[i].temp = "bad" /\ file'[i].final = file[i].final
        /\ item'[i].phase = item[i].phase
    <3>1. file' = [file EXCEPT ![i].temp = "bad"] /\ item' = [item EXCEPT ![i] = Bound(i)]
      BY <1>4 DEF SpoilBatch
    <3>2. item'[i] = Bound(i) /\ \A j \in Item \ {i} : item'[j] = item[j]
      BY <1>t, <3>1 DEF TypeOK
    <3>3. /\ \A j \in Item \ {i} : file'[j] = file[j]
          /\ file'[i].temp = "bad" /\ file'[i].final = file[i].final
      BY <1>t, <3>1, FileEffect
    <3>4. Bound(i).phase = item[i].phase
      BY <1>t, BoundPhase
    <3> QED
      BY <3>2, <3>3, <3>4
  <2>3. item[i].phase = "copying"
    BY <1>b, <2>1 DEF Remembers
  <2>4. \A j \in Item \ {i} : Still(j)
    BY <2>2 DEF Still
  <2>5. Tidy(i)' /\ Staged(i)'
    BY <1>b, <2>2, <2>3 DEF Tidy, Staged, Bare, Switched
  <2>6. Remembers(w)'
    BY <1>b, <2>1, <2>2 DEF Remembers
  <2> QED
    BY <2>1, <2>4, <2>5, <2>6, TidyOwner
<1>5. CASE SwitchMetadata(w)
  <2>1. Owns(w) /\ op.owner = w /\ UNCHANGED <<op, file>> /\ item[i].phase = "target_finalized"
    BY <1>5 DEF SwitchMetadata, Permitted, Locked, Owns
  <2>2. CASE seg[i].at = "source" /\ seg[i].intact
    <3> DEFINE row == [Bound(i) EXCEPT !.phase = "metadata_switched", !.pending = TRUE]
    <3>1. Commit(w, row, "recheck")
      BY <1>5, <2>2 DEF SwitchMetadata
    <3>2. row \in ItemRow /\ row.phase = "metadata_switched"
      <4>1. "metadata_switched" \in Phase /\ Bound(i) \in ItemRow
        BY <1>t, BoundPhase DEF Phase, Switched
      <4> QED
        BY <4>1 DEF ItemRow
    <3> HIDE DEF row
    <3>3. ASSUME item'[i].phase = "metadata_switched" PROVE Tidy(i)' /\ Staged(i)'
      BY <1>b, <2>1, <3>3 DEF Tidy, Staged, Switched
    <3>4. ASSUME work'[w].at = "recheck" PROVE Remembers(w)'
      BY <3>4, FreshRemembers
    <3> QED
      BY <1>t, <2>1, <3>1, <3>2, <3>3, <3>4, TidyCommit
  <2>3. CASE ~(seg[i].at = "source" /\ seg[i].intact)
    <3>1. UNCHANGED <<item, file, op>> /\ Fail(w, "cleanup_only")
      BY <1>5, <2>1, <2>3 DEF SwitchMetadata
    <3>2. \A j \in Item : Still(j)
      BY <3>1 DEF Still
    <3> QED
      BY <1>t, <3>1, <3>2, FailEffect, FailRemembers, TidyQuiet
  <2> QED
    BY <2>2, <2>3
<1> QED
  BY <1>1, <1>2, <1>3, <1>4, <1>5

LEMMA TidyDropActions ==
    ASSUME SagaInvariant, Tidied, NEW w \in Worker, NEW i \in Item, i = work[w].item,
           DropFinal(w) \/ DropTemp(w)
    PROVE  Tidied'
<1>t. TypeOK /\ file[i] \in FileRow
  BY DEF SagaInvariant, TypeOK
<1>b. Tidy(i) /\ (op.owner = w => Remembers(w))
  BY DEF Tidied
<1>1. /\ UNCHANGED op
      /\ \A j \in Item : item'[j].phase = item[j].phase /\ item'[j].pending = item[j].pending
  BY <1>t, AdoptedEffect DEF DropFinal, DropTemp
<1>2. work'[w].item = i /\ \A v \in Worker \ {w} : work'[v] = work[v]
  BY <1>t, GotoEffect DEF DropFinal, DropTemp
<1>3. ASSUME \A j \in Item : file'[j] = file[j], op.owner = w => Remembers(w)'
      PROVE  Tidied'
  <2>1. \A j \in Item : Still(j)
    BY <1>1, <1>3 DEF Still
  <2> QED
    BY <1>t, <1>1, <1>2, <1>3, <2>1, TidyQuiet
<1>4. ASSUME Owns(w), work[w].at \in {"dropFinal", "dropTemp"}, Remembers(w)',
             \A j \in Item \ {i} : file'[j] = file[j],
             file'[i].source = file[i].source /\ file'[i].aside = file[i].aside,
             file'[i].temp \in {file[i].temp, "none"} /\ file'[i].final \in {file[i].final, "none"}
      PROVE  Tidied'
  <2>1. op.owner = w /\ op.mode = "cleanup_only"
    BY <1>b, <1>4 DEF Owns, Remembers
  <2>2. \A j \in Item \ {i} : Still(j)
    BY <1>1, <1>4 DEF Still
  <2>3. Tidy(i)'
    BY <1>b, <1>1, <1>4 DEF Tidy, Bare
  <2> QED
    BY <1>1, <1>4, <2>1, <2>2, <2>3, TidyOwner
<1>5. CASE DropFinal(w)
  <2>1. /\ file' = [file EXCEPT ![i].final = "none"]
        /\ work[w].at = "dropFinal" /\ work'[w].at = "dropTemp"
    BY <1>5, <1>t, GotoEffect DEF DropFinal
  <2>2. /\ \A j \in Item \ {i} : file'[j] = file[j]
        /\ file'[i].final = "none" /\ file'[i].temp = file[i].temp
        /\ file'[i].source = file[i].source /\ file'[i].aside = file[i].aside
    BY <1>t, <2>1, FileEffect
  <2>3. op.owner = w => Remembers(w)'
    BY <1>b, <1>1, <1>2, <2>1, <2>2 DEF Remembers, Bare
  <2>4. CASE file[i].final = "none"
    <3>1. \A j \in Item : file'[j] = file[j]
      BY <1>t, <2>1, <2>4 DEF TypeOK, FileRow
    <3> QED
      BY <1>3, <2>3, <3>1
  <2>5. CASE file[i].final # "none"
    <3>1. Owns(w)
      BY <1>5, <2>5 DEF DropFinal, Permitted, Locked
    <3> QED
      BY <1>4, <2>1, <2>2, <2>3, <3>1 DEF Owns
  <2> QED
    BY <2>4, <2>5
<1>6. CASE DropTemp(w)
  <2>1. /\ file' = [file EXCEPT ![i].temp = "none"]
        /\ work[w].at = "dropTemp" /\ work'[w].at = "giveUp"
    BY <1>6, <1>t, GotoEffect DEF DropTemp
  <2>2. /\ \A j \in Item \ {i} : file'[j] = file[j]
        /\ file'[i].temp = "none" /\ file'[i].final = file[i].final
        /\ file'[i].source = file[i].source /\ file'[i].aside = file[i].aside
    BY <1>t, <2>1, FileEffect
  <2>3. op.owner = w => Remembers(w)'
    BY <1>b, <1>1, <1>2, <2>1, <2>2 DEF Remembers, Bare
  <2>4. CASE file[i].temp = "none"
    <3>1. \A j \in Item : file'[j] = file[j]
      BY <1>t, <2>1, <2>4 DEF TypeOK, FileRow
    <3> QED
      BY <1>3, <2>3, <3>1
  <2>5. CASE file[i].temp # "none"
    <3>1. Owns(w)
      BY <1>6, <2>5 DEF DropTemp, Permitted, Locked
    <3> QED
      BY <1>4, <2>1, <2>2, <2>3, <3>1 DEF Owns
  <2> QED
    BY <2>4, <2>5
<1> QED
  BY <1>5, <1>6

\* Steps of the plan's owner and trouble move no worker, and either the operation
\* has no owner or every item is as it was.
LEMMA TidyWorldStill ==
    ASSUME TypeOK, Tidied, UNCHANGED work, \A i \in Item : Still(i),
           op'.owner = op.owner, op'.mode = op.mode
    PROVE  Tidied'
<1>1. \A i \in Item : Tidy(i)' /\ (Staged(i) => Staged(i)')
  BY StillTidy DEF Tidied
<1>2. \A w \in Worker : op'.owner = w => Remembers(w)'
  BY RemembersStays DEF Tidied
<1> QED
  BY <1>1, <1>2 DEF Tidied

LEMMA TidyWorldActions ==
    ASSUME SagaInvariant, Tidied,
           \/ Cancel \/ Retry \/ ExpireDeadLease \/ ExpireSlowLease
           \/ LosePermission \/ RestorePermission \/ RunOutOfSpace \/ FreeSpace
           \/ \E i \in Item : TouchSegment(i) \/ DeleteSegment(i) \/ ForeignFile(i)
    PROVE  Tidied'
<1>t. /\ TypeOK /\ op \in OpRow
      /\ \A j \in Item : item[j] \in ItemRow /\ file[j] \in FileRow
  BY DEF SagaInvariant, TypeOK
<1>w. UNCHANGED work
  BY DEF Cancel, Retry, ExpireDeadLease, ExpireSlowLease, LosePermission, RestorePermission,
         RunOutOfSpace, FreeSpace, TouchSegment, DeleteSegment, ForeignFile
<1>f. ASSUME op'.owner = NoWorker, op'.mode = op.mode,
             \A j \in Item : Tidy(j)' /\ (Staged(j) => Staged(j)')
      PROVE  Tidied'
  BY <1>f, WorkerAssumption DEF Tidied
<1>1. CASE Cancel
  <2>1. CASE op.status = "queued"
    <3>1. op.owner = NoWorker
      BY <2>1 DEF SagaInvariant, Unowned, Owned
    <3>2. op' = [op EXCEPT !.status = "cancelled"] /\ item' = CancelRows /\ file' = file
      BY <1>1, <2>1 DEF Cancel
    <3>3. op'.owner = NoWorker /\ op'.mode = op.mode
      BY <1>t, <3>1, <3>2 DEF OpRow
    <3>4. ASSUME NEW j \in Item PROVE Tidy(j)' /\ (Staged(j) => Staged(j)')
      <4>1. \/ item'[j].phase = item[j].phase
            \/ item[j].phase = "planned" /\ item'[j].phase = "cancelled"
        BY <1>t, <3>2 DEF CancelRows, ItemRow
      <4>2. Tidy(j)
        BY DEF Tidied
      <4> QED
        BY <3>2, <4>1, <4>2 DEF Tidy, Staged, Switched
    <3> QED
      BY <1>f, <3>3, <3>4
  <2>2. CASE op.status # "queued"
    <3>1. UNCHANGED <<item, file>> /\ op' = [op EXCEPT !.status = "cancel_requested"]
      BY <1>1, <2>2 DEF Cancel
    <3>2. op'.owner = op.owner /\ op'.mode = op.mode /\ \A j \in Item : Still(j)
      BY <1>t, <3>1 DEF OpRow, Still
    <3> QED
      BY <1>t, <1>w, <3>2, TidyWorldStill
  <2> QED
    BY <2>1, <2>2
<1>2. CASE Retry
  <2>1. op.owner = NoWorker /\ file' = file
    BY <1>2 DEF Retry, Retryable, SagaInvariant, Unowned, Owned
  <2>2. op'.owner = NoWorker /\ op'.mode = op.mode
    <3>1. \/ op' = [op EXCEPT !.no = @ + 1, !.status = "queued",
                              !.line = op.line /\ op.mode = "cleanup_only"]
          \/ op' = [op EXCEPT !.status = "queued"]
      BY <1>2 DEF Retry
    <3> QED
      BY <1>t, <2>1, <3>1 DEF OpRow
  <2>3. ASSUME NEW j \in Item PROVE Tidy(j)' /\ (Staged(j) => Staged(j)')
    <3>1. \/ item'[j].phase = item[j].phase
          \/ item[j].phase \in {"failed", "blocked"} /\ item'[j].phase = "planned"
      BY <1>2, <1>t DEF Retry, ItemRow
    <3>2. Tidy(j)
      BY DEF Tidied
    <3> QED
      BY <2>1, <3>1, <3>2 DEF Tidy, Staged, Switched
  <2> QED
    BY <1>f, <2>2, <2>3
<1>3. CASE ExpireDeadLease \/ ExpireSlowLease
  <2>1. UNCHANGED <<item, file>> /\ op' = [op EXCEPT !.lease = FALSE]
    BY <1>3 DEF ExpireDeadLease, ExpireSlowLease
  <2>2. op'.owner = op.owner /\ op'.mode = op.mode /\ \A j \in Item : Still(j)
    BY <1>t, <2>1 DEF OpRow, Still
  <2> QED
    BY <1>t, <1>w, <2>2, TidyWorldStill
<1>4. CASE LosePermission \/ RestorePermission \/ RunOutOfSpace \/ FreeSpace
            \/ \E i \in Item : TouchSegment(i)
  <2>1. UNCHANGED <<item, file, op>>
    BY <1>4 DEF LosePermission, RestorePermission, RunOutOfSpace, FreeSpace, TouchSegment
  <2>2. \A j \in Item : Still(j)
    BY <2>1 DEF Still
  <2> QED
    BY <1>t, <1>w, <2>1, <2>2, TidyWorldStill
<1>5. ASSUME NEW i \in Item, ForeignFile(i) PROVE Tidied'
  <2>1. UNCHANGED <<item, op>>
    BY <1>5 DEF ForeignFile
  <2>2. \A j \in Item : Still(j)
    <3>1. CASE file[i].temp = "none" /\ file' = [file EXCEPT ![i].temp = "foreign"]
      BY <1>t, <2>1, <3>1, FileEffect DEF Still, Bare
    <3>2. CASE file[i].final = "none" /\ file' = [file EXCEPT ![i].final = "foreign"]
      BY <1>t, <2>1, <3>2, FileEffect DEF Still, Bare
    <3> QED
      BY <1>5, <3>1, <3>2 DEF ForeignFile
  <2> QED
    BY <1>t, <1>w, <2>1, <2>2, TidyWorldStill
<1>6. ASSUME NEW i \in Item, DeleteSegment(i) PROVE Tidied'
  <2>1. UNCHANGED <<item, op>> /\ op.owner = NoWorker
    BY <1>6 DEF DeleteSegment, SagaInvariant, Unowned, Active
  <2>2. CASE file' = [file EXCEPT ![i].source = FALSE]
    <3>1. /\ \A j \in Item \ {i} : file'[j] = file[j]
          /\ file'[i].temp = file[i].temp /\ file'[i].final = file[i].final
          /\ ~file'[i].source /\ file'[i].aside = file[i].aside
      BY <1>t, <2>2, SourceEffect
    <3>2. \A j \in Item : Tidy(j)' /\ (Staged(j) => Staged(j)')
      BY <2>1, <3>1 DEF Tidied, Tidy, Staged
    <3> QED
      BY <1>f, <2>1, <3>2
  <2>3. CASE seg[i].at # "source" /\ file' = [file EXCEPT ![i].final = "none"]
    <3>1. /\ \A j \in Item \ {i} : file'[j] = file[j]
          /\ file'[i].temp = file[i].temp /\ file'[i].final = "none"
          /\ file'[i].source = file[i].source /\ file'[i].aside = file[i].aside
      BY <1>t, <2>3, FileEffect
    <3>2. item[i].phase \in Moved
      BY <1>6, <2>3 DEF DeleteSegment, SagaInvariant, ItemAgrees, TypeOK, SegRow
    <3>3. Tidy(i)' /\ Staged(i)'
      BY <2>1, <3>1, <3>2 DEF Tidied, Tidy, Staged, Moved, Switched, Bare
    <3>4. ASSUME NEW j \in Item \ {i} PROVE Tidy(j)' /\ (Staged(j) => Staged(j)')
      BY <2>1, <3>1 DEF Tidied, Tidy, Staged
    <3> QED
      BY <1>f, <2>1, <3>3, <3>4
  <2> QED
    BY <1>6, <2>2, <2>3 DEF DeleteSegment
<1> QED
  BY <1>1, <1>2, <1>3, <1>4, <1>5, <1>6

LEMMA TidyStep == SagaInvariant /\ Tidied /\ [Next]_vars => Tidied'
<1> SUFFICES ASSUME SagaInvariant, Tidied, [Next]_vars PROVE Tidied'
  OBVIOUS
<1>t. \A w \in Worker : work[w].item \in Item
  BY DEF SagaInvariant, TypeOK, WorkRow
<1>1. ASSUME NEW w \in Worker, WorkerStep(w) \/ IoError(w) \/ SpoilBatch(w) \/ Crash(w) PROVE Tidied'
  BY <1>1, <1>t, TidyQuietActions, TidyPhaseActions, TidyFileActions, TidyOtherActions, TidyDropActions
     DEF WorkerStep
<1>2. CASE UNCHANGED vars
  BY <1>2 DEF vars, Tidied, Tidy, Staged, Remembers, CleanupWork
<1> QED
  BY <1>1, <1>2, TidyWorldActions DEF Next

LEMMA TidyHolds == Spec => [](SagaInvariant /\ Tidied)
<1>1. Init => Tidied
  BY DEF Init, Tidied, Tidy, Staged, Remembers, Bare, Switched
<1> QED
  BY <1>1, TidyStep, SagaInvariantHolds, PTL DEF Spec

\* An item that counts as settled has left no temporary, uncatalogued or set-aside file,
\* whatever crashed, failed or was taken over on the way (NothingForgotten).
THEOREM NothingIsForgotten == Spec => []NothingForgotten
<1>1. SagaInvariant /\ Tidied => NothingForgotten
  BY DEF SagaInvariant, Tidied, Tidy, ItemAgrees, NothingForgotten, ItemTerminal, Moved, Switched, Bare
<1> QED
  BY <1>1, TidyHolds, PTL

\* No step removes or overwrites what is not the item's own.
LEMMA ForeignStep ==
    ASSUME SagaInvariant, Tidied, [Next]_vars
    PROVE  \A i \in Item : /\ file[i].temp = "foreign" => file'[i].temp = "foreign"
                           /\ file[i].final = "foreign" => file'[i].final = "foreign"
<1> DEFINE Spared == \A i \in Item : /\ file[i].temp = "foreign" => file'[i].temp = "foreign"
                                     /\ file[i].final = "foreign" => file'[i].final = "foreign"
<1>t. TypeOK /\ \A w \in Worker : work[w].item \in Item
  BY DEF SagaInvariant, TypeOK, WorkRow
<1>e. ASSUME NEW i \in Item, \A j \in Item \ {i} : file'[j] = file[j],
             file[i].temp = "foreign" => file'[i].temp = "foreign",
             file[i].final = "foreign" => file'[i].final = "foreign"
      PROVE  Spared
  BY <1>e
<1> HIDE DEF Spared
<1>u. ASSUME UNCHANGED file PROVE Spared
  BY <1>u DEF Spared
<1>w. ASSUME NEW w \in Worker, WorkerStep(w) \/ IoError(w) \/ SpoilBatch(w) \/ Crash(w) PROVE Spared
  <2> DEFINE i == work[w].item
  <2>i. i \in Item
    BY <1>t
  <2>1. CASE CreateTemp(w)
    <3>1. file' = [file EXCEPT ![i].temp = "empty"] /\ file[i].temp # "foreign"
      BY <2>1 DEF CreateTemp, Refuses
    <3> QED
      BY <1>e, <1>t, <2>i, <3>1, FileEffect
  <2>2. CASE CopyBatch(w) \/ SpoilBatch(w)
    <3>1. file[i].temp # "foreign" /\ \E c : file' = [file EXCEPT ![i].temp = c]
      BY <2>2 DEF CopyBatch, SpoilBatch
    <3> QED
      BY <1>e, <1>t, <2>i, <3>1, FileEffect
  <2>3. CASE FinalizeTarget(w)
    <3>1. CASE file[i].final = "none"
      <4>1. file' = [file EXCEPT ![i].final = file[i].temp, ![i].temp = "none"]
        BY <2>3, <3>1 DEF FinalizeTarget
      <4>2. op.owner = w /\ work[w].at = "finalize" /\ item[i].phase = "target_verified"
        BY <2>3 DEF FinalizeTarget, Permitted, Locked, Owns
      <4>3. op.mode # "cleanup_only" /\ Staged(i)
        BY <2>i, <4>2 DEF Tidied, Remembers
      <4>4. file[i].temp # "foreign"
        BY <3>1, <4>2, <4>3 DEF Staged, Bare
      <4> QED
        <5>1. /\ \A j \in Item \ {i} : file'[j] = file[j]
              /\ file'[i].temp = "none" /\ file'[i].final = file[i].temp
          BY <1>t, <2>i, <4>1 DEF TypeOK, FileRow
        <5> QED
          BY <1>e, <2>i, <3>1, <4>4, <5>1
    <3>2. CASE file[i].final # "none"
      BY <1>u, <2>3, <3>2 DEF FinalizeTarget
    <3> QED
      BY <3>1, <3>2
  <2>4. CASE QuarantineSource(w) \/ DeleteSource(w)
    <3>1. \/ file' = [file EXCEPT ![i].source = FALSE, ![i].aside = TRUE]
          \/ file' = [file EXCEPT ![i].aside = FALSE]
      BY <2>4 DEF QuarantineSource, DeleteSource
    <3> QED
      BY <1>e, <1>t, <2>i, <3>1, SourceEffect
  <2>5. CASE DropFinal(w)
    <3>1. file' = [file EXCEPT ![i].final = "none"] /\ file[i].final # "foreign"
      BY <2>5 DEF DropFinal, Refuses, OwnFinal
    <3> QED
      BY <1>e, <1>t, <2>i, <3>1, FileEffect
  <2>6. CASE DropTemp(w)
    <3>1. file' = [file EXCEPT ![i].temp = "none"] /\ file[i].temp # "foreign"
      BY <2>6 DEF DropTemp, Refuses, OwnTemp
    <3> QED
      BY <1>e, <1>t, <2>i, <3>1, FileEffect
  <2>7. CASE ~(\/ CreateTemp(w) \/ CopyBatch(w) \/ SpoilBatch(w) \/ FinalizeTarget(w)
               \/ QuarantineSource(w) \/ DeleteSource(w) \/ DropFinal(w) \/ DropTemp(w))
    <3>1. UNCHANGED file
      BY <1>w, <2>7
         DEF WorkerStep, Claim, Begin, FinishApply, CancelPlanned, EndCancelled, StartItem,
             HandleFailure, EndInterrupted, Abandon, FinishCleanup, StartCleanup, Refuse,
             PermissionLost, StageTempCreateIntent, TempWritten, HashTemp, RecordHash,
             VerifyFinal, SwitchMetadata, RecheckFinal, StageCleanup, MarkDelete, GiveUp,
             IoError, Crash
    <3> QED
      BY <1>u, <3>1
  <2> QED
    BY <2>1, <2>2, <2>3, <2>4, <2>5, <2>6, <2>7
<1>1. ASSUME NEW i \in Item, ForeignFile(i) PROVE Spared
  <2>1. \/ file[i].temp = "none" /\ file' = [file EXCEPT ![i].temp = "foreign"]
        \/ file[i].final = "none" /\ file' = [file EXCEPT ![i].final = "foreign"]
    BY <1>1 DEF ForeignFile
  <2>2. CASE file[i].temp = "none" /\ file' = [file EXCEPT ![i].temp = "foreign"]
    BY <1>e, <1>t, <2>2, FileEffect
  <2>3. CASE file[i].final = "none" /\ file' = [file EXCEPT ![i].final = "foreign"]
    BY <1>e, <1>t, <2>3, FileEffect
  <2> QED
    BY <2>1, <2>2, <2>3
<1>2. ASSUME NEW i \in Item, DeleteSegment(i) PROVE Spared
  <2>1. CASE file' = [file EXCEPT ![i].source = FALSE]
    BY <1>e, <1>t, <2>1, SourceEffect
  <2>2. CASE seg[i].at # "source" /\ file' = [file EXCEPT ![i].final = "none"]
    <3>1. file[i].final = "full"
      BY <1>2, <2>2 DEF DeleteSegment, SagaInvariant, ItemAgrees, TypeOK, SegRow
    <3> QED
      BY <1>e, <1>t, <2>2, <3>1, FileEffect
  <2> QED
    BY <1>2, <2>1, <2>2 DEF DeleteSegment
<1>3. CASE \/ Cancel \/ Retry \/ ExpireDeadLease \/ ExpireSlowLease
           \/ LosePermission \/ RestorePermission \/ RunOutOfSpace \/ FreeSpace
           \/ \E i \in Item : TouchSegment(i)
  <2>1. UNCHANGED file
    BY <1>3 DEF Cancel, Retry, ExpireDeadLease, ExpireSlowLease, LosePermission, RestorePermission,
                RunOutOfSpace, FreeSpace, TouchSegment
  <2> QED
    BY <1>u, <2>1
<1>4. CASE UNCHANGED vars
  BY <1>4, <1>u DEF vars, Spared
<1>5. CASE Next
  <2>1. CASE \E w \in Worker : WorkerStep(w) \/ IoError(w) \/ SpoilBatch(w) \/ Crash(w)
    BY <1>w, <2>1 DEF Spared
  <2>2. CASE \E i \in Item : DeleteSegment(i) \/ ForeignFile(i)
    BY <1>1, <1>2, <2>2 DEF Spared
  <2> QED
    BY <1>3, <1>5, <2>1, <2>2 DEF Next
<1> QED
  BY <1>4, <1>5 DEF Spared

\* Neither a copy nor a cleanup, nor anything else the saga does, touches a file that
\* is not the item's own (ForeignFilesKept).
THEOREM ForeignFilesAreKept == Spec => ForeignFilesKept
<1>1. SagaInvariant /\ Tidied /\ [Next]_vars =>
          [\A i \in Item : /\ file[i].temp = "foreign" => file'[i].temp = "foreign"
                           /\ file[i].final = "foreign" => file'[i].final = "foreign"]_vars
  BY ForeignStep
<1> QED
  BY <1>1, TidyHolds, PTL DEF Spec, ForeignFilesKept

-----------------------------------------------------------------------------
(* The saga implements SegmentMove.                                     *)

place == [i \in Item |-> seg[i].at]
copies == [i \in Item |-> Copies(i)]

\* An item whose move looks the same from outside.
Unseen(i) == seg'[i].at = seg[i].at /\ Copies(i)' = Copies(i)

LEMMA UnseenStep ==
    ASSUME \A i \in Item : Unseen(i)
    PROVE  UNCHANGED <<place, copies>>
BY DEF Unseen, place, copies

LEMMA KeptUnseen ==
    ASSUME \A i \in Item : Kept(i)
    PROVE  \A i \in Item : Unseen(i)
BY DEF Kept, Unseen, Copies

\* One item is seen to change, the others are not.
LEMMA OneSeen ==
    ASSUME NEW i \in Item, \A j \in Item \ {i} : Unseen(j)
    PROVE  /\ place' = [place EXCEPT ![i] = seg'[i].at]
           /\ copies' = [copies EXCEPT ![i] = Copies(i)']
           /\ place[i] = seg[i].at /\ copies[i] = Copies(i)
BY DEF Unseen, place, copies

LEMMA PlaceFixed ==
    ASSUME NEW i \in Item, \A j \in Item \ {i} : Unseen(j), seg'[i].at = seg[i].at
    PROVE  place' = place
BY DEF Unseen, place

LEMMA FilesFixed ==
    ASSUME TypeOK, UNCHANGED <<file, seg>>
    PROVE  \A i \in Item : Unseen(i)
BY DEF Unseen, Copies

\* Every step either is not seen from outside or is a step of SegmentMove.
LEMMA MoveStep ==
    ASSUME SagaInvariant, Next
    PROVE  Moves!Next \/ UNCHANGED <<place, copies>>
<1>t. /\ TypeOK
      /\ \A j \in Item : file[j] \in FileRow /\ seg[j] \in SegRow
      /\ file \in [Item -> FileRow] /\ seg \in [Item -> SegRow]
      /\ \A w \in Worker : work[w].item \in Item
  BY DEF SagaInvariant, TypeOK, WorkRow
<1>1. ASSUME NEW w \in Worker, FinalizeTarget(w) PROVE Moves!Next \/ UNCHANGED <<place, copies>>
  <2>1. PICK i \in Item : i = work[w].item
    BY <1>t
  <2>2. /\ seg' = seg /\ file[i].source /\ item[i].phase = "target_verified"
        /\ \/ /\ file[i].final = "none"
              /\ file' = [file EXCEPT ![i].final = file[i].temp, ![i].temp = "none"]
           \/ file' = file
    BY <1>1, <2>1 DEF FinalizeTarget, Refuses
  <2>3. seg[i].at = "source"
    BY <1>t, <2>2 DEF SagaInvariant, ItemAgrees, Moved, Switched, SegRow
  <2>4. \A j \in Item \ {i} : Unseen(j)
    BY <1>t, <2>2 DEF Unseen, Copies
  <2>5. seg'[i].at = "source" /\ Copies(i)' \in {Copies(i), Copies(i) \cup {"target"}}
    BY <1>t, <2>2, <2>3 DEF Copies, FileRow
  <2>6. CASE Copies(i)' = Copies(i)
    BY <2>2, <2>4, <2>6, UnseenStep DEF Unseen
  <2>7. CASE Copies(i)' = Copies(i) \cup {"target"}
    <3>1. /\ place[i] = "source"
          /\ copies' = [copies EXCEPT ![i] = copies[i] \cup {"target"}]
      BY <2>3, <2>4, <2>7, OneSeen
    <3>2. place' = place
      BY <2>3, <2>4, <2>5, PlaceFixed
    <3>3. Moves!Copy(i)
      BY <3>1, <3>2 DEF Moves!Copy, place, copies
    <3> QED
      BY <3>3 DEF Moves!Next
  <2> QED
    BY <2>5, <2>6, <2>7
<1>2. ASSUME NEW w \in Worker, SwitchMetadata(w) PROVE Moves!Next \/ UNCHANGED <<place, copies>>
  <2>1. PICK i \in Item : i = work[w].item
    BY <1>t
  <2>2. file' = file /\ op.owner = w /\ work[w].at = "switch"
    BY <1>2 DEF SwitchMetadata, Permitted, Locked, Owns
  <2>3. CASE seg' = seg
    BY <1>t, <2>2, <2>3, FilesFixed, UnseenStep
  <2>4. CASE seg[i].at = "source" /\ seg' = [seg EXCEPT ![i].at = "target"]
    <3>1. \A j \in Item \ {i} : Unseen(j)
      BY <1>t, <2>2, <2>4 DEF Unseen, Copies
    <3>2. /\ seg'[i].at = "target"
          /\ Copies(i)' = Copies(i)
          /\ "target" \in Copies(i)
      BY <1>t, <2>1, <2>2, <2>4 DEF SagaInvariant, Knows, Copies, SegRow
    <3>3. Moves!Switch(i)
      BY <2>4, <3>1, <3>2, OneSeen DEF Moves!Switch, place, copies
    <3> QED
      BY <3>3 DEF Moves!Next
  <2> QED
    BY <1>2, <2>1, <2>3, <2>4 DEF SwitchMetadata
<1>3. ASSUME NEW w \in Worker, QuarantineSource(w) PROVE Moves!Next \/ UNCHANGED <<place, copies>>
  <2>1. PICK i \in Item : i = work[w].item
    BY <1>t
  <2>2. /\ seg' = seg
        /\ file[i].source \/ file[i].aside
        /\ file' = [file EXCEPT ![i].source = FALSE, ![i].aside = TRUE]
    BY <1>3, <2>1 DEF QuarantineSource, Refuses
  <2>3. \A j \in Item \ {i} : Unseen(j)
    BY <1>t, <2>2 DEF Unseen, Copies
  <2>4. file'[i].aside /\ file'[i].final = file[i].final
    BY <1>t, <2>2 DEF FileRow
  <2>5. Unseen(i)
    BY <2>2, <2>4 DEF Unseen, Copies
  <2> QED
    BY <2>3, <2>5, UnseenStep
<1>4. ASSUME NEW w \in Worker, DeleteSource(w) PROVE Moves!Next \/ UNCHANGED <<place, copies>>
  <2>1. PICK i \in Item : i = work[w].item
    BY <1>t
  <2>2. /\ seg' = seg /\ ~file[i].source /\ item[i].phase = "source_delete_committing"
        /\ file' = [file EXCEPT ![i].aside = FALSE]
    BY <1>4, <2>1 DEF DeleteSource
  <2>3. seg[i].at # "source"
    BY <2>2 DEF SagaInvariant, ItemAgrees, Moved, Switched
  <2>4. \A j \in Item \ {i} : Unseen(j)
    BY <1>t, <2>2 DEF Unseen, Copies
  <2>5. Copies(i)' = Copies(i) \ {"source"} /\ seg'[i].at = seg[i].at
    BY <1>t, <2>2 DEF Copies, FileRow
  <2>6. /\ place[i] # "source"
        /\ copies' = [copies EXCEPT ![i] = copies[i] \ {"source"}]
    BY <2>3, <2>4, <2>5, OneSeen
  <2>7. place' = place
    BY <2>4, <2>5, PlaceFixed
  <2>8. Moves!Discard(i, "source")
    BY <2>6, <2>7 DEF Moves!Discard, place, copies
  <2> QED
    BY <2>8 DEF Moves!Next
<1>5. ASSUME NEW w \in Worker, DropFinal(w) PROVE Moves!Next \/ UNCHANGED <<place, copies>>
  <2>1. PICK i \in Item : i = work[w].item
    BY <1>t
  <2>2. seg' = seg /\ file' = [file EXCEPT ![i].final = "none"] /\ work[w].at = "dropFinal"
    BY <1>5, <2>1 DEF DropFinal
  <2>3. CASE file[i].final = "none"
    <3>1. \A j \in Item : Unseen(j)
      BY <1>t, <2>2, <2>3 DEF Unseen, Copies, FileRow
    <3> QED
      BY <3>1, UnseenStep
  <2>4. CASE file[i].final # "none"
    <3>1. op.owner = w
      BY <1>5, <2>1, <2>4 DEF DropFinal, Permitted, Locked, Owns
    <3>2. seg[i].at # "target"
      BY <2>1, <2>2, <3>1 DEF SagaInvariant, Knows, Before, ItemAgrees
    <3>3. \A j \in Item \ {i} : Unseen(j)
      BY <1>t, <2>2 DEF Unseen, Copies
    <3>4. Copies(i)' = Copies(i) \ {"target"} /\ seg'[i].at = seg[i].at
      BY <1>t, <2>2 DEF Copies, FileRow
    <3>5. /\ place[i] # "target"
          /\ copies' = [copies EXCEPT ![i] = copies[i] \ {"target"}]
      BY <3>2, <3>3, <3>4, OneSeen
    <3>6. place' = place
      BY <3>3, <3>4, PlaceFixed
    <3>7. Moves!Discard(i, "target")
      BY <3>5, <3>6 DEF Moves!Discard, place, copies
    <3> QED
      BY <3>7 DEF Moves!Next
  <2> QED
    BY <2>3, <2>4
<1>6. ASSUME NEW i \in Item, DeleteSegment(i) PROVE Moves!Next \/ UNCHANGED <<place, copies>>
  <2>1. /\ seg[i].at # "deleted" /\ seg' = [seg EXCEPT ![i].at = "deleted"]
        /\ file' = IF seg[i].at = "source" THEN [file EXCEPT ![i].source = FALSE]
                   ELSE [file EXCEPT ![i].final = "none"]
    BY <1>6 DEF DeleteSegment
  <2>2. seg[i].at = "source" => ~file[i].aside
    BY DEF SagaInvariant, ItemAgrees
  <2>3. \A j \in Item \ {i} : Unseen(j)
    BY <1>t, <2>1 DEF Unseen, Copies
  <2>4. seg'[i].at = "deleted" /\ Copies(i)' = Copies(i) \ {seg[i].at}
    BY <1>t, <2>1, <2>2 DEF Copies, FileRow, SegRow
  <2>5. Moves!Delete(i)
    BY <2>1, <2>3, <2>4, OneSeen DEF Moves!Delete, place, copies
  <2> QED
    BY <2>5 DEF Moves!Next
<1>7. ASSUME NEW i \in Item, TouchSegment(i) \/ ForeignFile(i) PROVE UNCHANGED <<place, copies>>
  <2>1. \A j \in Item : /\ seg'[j].at = seg[j].at
                        /\ file'[j].source = file[j].source /\ file'[j].aside = file[j].aside
                        /\ (file'[j].final = "full") = (file[j].final = "full")
    <3>1. CASE TouchSegment(i)
      BY <3>1, <1>t DEF TouchSegment, SegRow
    <3>2. CASE ForeignFile(i)
      BY <3>2, <1>t DEF ForeignFile, FileRow
    <3> QED
      BY <1>7, <3>1, <3>2
  <2>2. \A j \in Item : Unseen(j)
    BY <2>1 DEF Unseen, Copies
  <2> QED
    BY <2>2, UnseenStep
<1>8. ASSUME NEW w \in Worker,
             CreateTemp(w) \/ CopyBatch(w) \/ SpoilBatch(w) \/ DropTemp(w)
      PROVE  UNCHANGED <<place, copies>>
  <2>1. PICK i \in Item, c \in Content : seg' = seg /\ file' = [file EXCEPT ![i].temp = c]
    BY <1>8, <1>t DEF CreateTemp, CopyBatch, SpoilBatch, DropTemp, Copied, Content
  <2>2. \A j \in Item : Unseen(j)
    BY <1>t, <2>1 DEF Unseen, Copies, FileRow
  <2> QED
    BY <2>2, UnseenStep
<1>9. ASSUME NEW w \in Worker, WorkerStep(w) \/ IoError(w) \/ SpoilBatch(w) \/ Crash(w)
      PROVE  Moves!Next \/ UNCHANGED <<place, copies>>
  <2>1. ASSUME UNCHANGED <<file, seg>> PROVE UNCHANGED <<place, copies>>
    BY <1>t, <2>1, FilesFixed, UnseenStep
  <2> QED
    BY <1>1, <1>2, <1>3, <1>4, <1>5, <1>8, <1>9, <2>1
       DEF WorkerStep, Claim, Begin, FinishApply, CancelPlanned, EndCancelled, StartItem,
           HandleFailure, EndInterrupted, Abandon, FinishCleanup, StartCleanup, Refuse,
           PermissionLost, StageTempCreateIntent, TempWritten, HashTemp, RecordHash, VerifyFinal,
           RecheckFinal, StageCleanup, MarkDelete, GiveUp, IoError, Crash
<1>10. CASE Cancel \/ Retry \/ ExpireDeadLease \/ ExpireSlowLease
            \/ LosePermission \/ RestorePermission \/ RunOutOfSpace \/ FreeSpace
  <2>1. UNCHANGED <<file, seg>>
    BY <1>10 DEF Cancel, Retry, ExpireDeadLease, ExpireSlowLease, LosePermission,
                 RestorePermission, RunOutOfSpace, FreeSpace
  <2> QED
    BY <1>t, <2>1, FilesFixed, UnseenStep
<1> QED
  BY <1>6, <1>7, <1>9, <1>10 DEF Next

\* To whoever plays recordings back, the saga of phases, crashes, takeovers
\* and cleanups is a copy, at most one switch to a copy that is there, and the
\* removal of copies the catalogue does not name.
THEOREM Implementation == Spec => MovesSafely
<1>1. Init => Moves!Init
  BY DEF Init, Moves!Init, Copies
<1>2. SagaInvariant /\ [Next]_vars => [Moves!Next]_<<place, copies>>
  <2>1. CASE UNCHANGED vars
    BY <2>1 DEF vars, place, copies, Copies
  <2> QED
    BY <2>1, MoveStep
<1> QED
  BY <1>1, <1>2, SagaInvariantHolds, PTL DEF Spec, MovesSafely, Moves!Spec, place, copies

=============================================================================

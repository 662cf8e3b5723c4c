------------------------ MODULE RetentionCycleProofs ------------------------
(***************************************************************************)
(* Proofs about RetentionCycle: its types, the truth of the status column, *)
(* that a claim consumes nothing but its own watermark, and, as long as no *)
(* process crashes, that no wake-up is lost.                               *)
(***************************************************************************)
EXTENDS RetentionCycle, TLAPS

\* The thread runs the generation that has the signal.
Current(w) ==
    signal.status = "running" /\ signal.owner = w /\ run[w].pc \in Generation

\* The watermark k is not the last one requested.
Asked(k) == signal.requested > k

\* Claims and operations carry watermarks that have been requested.
Known ==
    /\ signal.consumed <= signal.requested
    /\ \A w \in Worker : run[w].pc \in Generation => run[w].claimed <= signal.requested
    /\ \A w \in Worker : Current(w) => run[w].claimed = signal.claimed
    /\ \A x \in Camera \X Watermark : ops[x].state # "none" => x[2] <= signal.requested

\* A change that a snapshot missed has been asked for beyond its watermark.
RunSnapshot ==
    \A w \in Worker, c \in Camera :
        /\ run[w].pc \in Generation \ {"claimed"}
        /\ c \in run[w].todo \ run[w].fresh
        /\ debt[c] = "owed"
        => Asked(run[w].claimed)
OpSnapshot ==
    \A x \in Camera \X Watermark :
        ops[x].state = "running" /\ ~ops[x].fresh /\ debt[x[1]] = "owed" => Asked(x[2])

\* An operation that is over and left its camera owed may be replayed: what is
\* left has been asked for, or is about to be.
ReplaySafe ==
    \A x \in Camera \X Watermark :
        ops[x].state = "terminal" /\ debt[x[1]] = "owed" => Asked(x[2]) \/ Owing

\* The camera is still to be visited, or being visited.
Ahead(w, c) == c \in run[w].todo /\ ~(run[w].pc = "between" /\ At(w, c))

\* What the current generation has left behind is asked for, or is about to be.
Visited ==
    \A w \in Worker, c \in Camera :
        /\ Current(w)
        /\ run[w].pc # "claimed"
        /\ debt[c] = "owed"
        /\ ~Ahead(w, c)
        => Asked(run[w].claimed) \/ Owing

Covered == RunSnapshot /\ OpSnapshot /\ ReplaySafe /\ Visited /\ NoLostWork

-----------------------------------------------------------------------------
(* Types.                                                                  *)

LEMMA MaxType == MaxWatermark \in Nat /\ DueWatermark \in Watermark
BY BoundAssumption DEF Watermark

LEMMA SpendType ==
    ASSUME spent \in [DOMAIN Bound -> Nat], NEW b \in DOMAIN Bound, Spend(b)
    PROVE  spent' \in [DOMAIN Bound -> Nat]
BY DEF Spend

\* The signal is advanced, by one or up to some watermark.
Advances == \E n \in Watermark : Advance(n)

LEMMA ZeroAdvances == Advance(0) => Advances
BY MaxType DEF Advances, Watermark

LEMMA ChangeAdvances ==
    ASSUME NEW c \in Camera, EditRules(c) \/ FinalizeSegment(c)
    PROVE  Advances /\ Spend("changes")
<1>1. 0 \in Watermark /\ SegmentWatermark \in Watermark
  BY BoundAssumption DEF Watermark
<1> QED
  BY <1>1 DEF Advances, EditRules, FinalizeSegment, Change

LEMMA AdvanceType ==
    ASSUME signal \in Signal, Advances
    PROVE  signal' \in Signal
<1> PICK n \in Watermark : Advance(n)
  BY DEF Advances
<1>1. Larger(signal.requested + 1, n) \in Watermark
  BY MaxType DEF Advance, Signal, Watermark, Larger
<1>2. (IF signal.status = "running" THEN signal.status ELSE "pending")
        \in {"idle", "pending", "running"}
  BY DEF Signal
<1> QED
  BY <1>1, <1>2 DEF Advance, Signal

LEMMA PublishType ==
    ASSUME signal \in Signal, NEW n \in Watermark, Publish(n)
    PROVE  signal' \in Signal
<1> DEFINE requested == Larger(signal.requested, n)
           status == IF signal.status # "running" /\ requested > signal.consumed
                     THEN "pending" ELSE signal.status
<1>1. requested \in Watermark
  BY DEF Larger, Signal
<1>2. status \in {"idle", "pending", "running"}
  BY DEF Signal
<1>3. signal' = [signal EXCEPT !.requested = requested, !.status = status]
  BY DEF Publish
<1> HIDE DEF requested, status
<1> QED
  BY <1>1, <1>2, <1>3 DEF Signal

LEMMA AcknowledgeType ==
    ASSUME TypeOK, NEW w \in Worker, Acknowledge(w)
    PROVE  signal' \in Signal
<1> DEFINE consumed == Larger(signal.consumed, run[w].claimed)
           status == IF signal.requested > consumed THEN "pending" ELSE "idle"
<1>1. consumed \in Watermark /\ 0 \in Watermark
  BY MaxType DEF Larger, Signal, TypeOK, Run, Watermark
<1>2. status \in {"idle", "pending", "running"}
  OBVIOUS
<1>3. signal' = [signal EXCEPT !.consumed = consumed, !.status = status,
                               !.claimed = 0, !.owner = NoWorker, !.live = FALSE]
  BY DEF Acknowledge
<1>4. signal \in Signal
  BY DEF TypeOK
<1> HIDE DEF consumed, status
<1> QED
  BY <1>1, <1>2, <1>3, <1>4 DEF Signal, Owner
LEMMA RunType ==
    ASSUME run \in [Worker -> Run], NEW w \in Worker, NEW pc \in Pc, Goto(w, pc)
    PROVE  run' \in [Worker -> Run]
BY DEF Goto, Run

\* A camera is taken off the snapshots, and off the list.
LEMMA ForgetType ==
    ASSUME NEW r \in Run, NEW c \in Camera
    PROVE  /\ [r EXCEPT !.fresh = @ \ {c}] \in Run
           /\ [r EXCEPT !.kept = @ \ {c}] \in Run
           /\ [r EXCEPT !.kept = @ \ {c}, !.fresh = @ \ {c}] \in Run
BY DEF Run

LEMMA LeftType ==
    ASSUME TypeOK, NEW w \in Worker, NEW c \in Camera
    PROVE  [run EXCEPT ![w] = Left(w, c)] \in [Worker -> Run]
<1>1. Left(w, c) \in Run
  BY DEF Left, TypeOK, Run, Pc
<1> QED
  BY <1>1 DEF TypeOK

\* The row of one operation is changed.
LEMMA OpRowType ==
    ASSUME NEW op \in OpRow
    PROVE  /\ [op EXCEPT !.live = FALSE] \in OpRow
           /\ [op EXCEPT !.fresh = FALSE] \in OpRow
           /\ [op EXCEPT !.kept = FALSE] \in OpRow
           /\ [op EXCEPT !.kept = FALSE, !.fresh = FALSE] \in OpRow
BY DEF OpRow

LEMMA IndexOf ==
    ASSUME TypeOK, NEW w \in Worker, NEW c \in Camera
    PROVE  /\ OpOf(w, c) \in Camera \X Watermark
           /\ OpOf(w, c)[1] = c
           /\ OpOf(w, c)[2] = run[w].claimed
BY DEF TypeOK, OpOf, Run

LEMMA FinishType ==
    ASSUME TypeOK, NEW w \in Worker, NEW c \in Camera, FinishOperation(w, c)
    PROVE  ops' \in [Camera \X Watermark -> OpRow]
<1>1. TerminalOp \in OpRow
  BY DEF TerminalOp, NoOp, OpRow, Owner
<1> QED
  BY <1>1 DEF FinishOperation, TypeOK

LEMMA OffType == Off \in Run
BY MaxType DEF Off, Run, Pc, Watermark

LEMMA AbortType ==
    ASSUME TypeOK, NEW w \in Worker, Abort(w)
    PROVE  /\ leader' \in [owner : Owner, live : BOOLEAN]
           /\ run' \in [Worker -> Run]
           /\ recover' \in [Worker -> BOOLEAN]
BY OffType DEF Abort, ReleaseLeader, TypeOK

\* The initial state has the right types.
LEMMA InitType == Init => TypeOK
<1> SUFFICES ASSUME Init PROVE TypeOK
  OBVIOUS
<1>0. 0 \in Watermark
  BY MaxType DEF Watermark
<1>1. signal \in Signal
  BY <1>0 DEF Init, Signal, Owner
<1>2. NoOp \in OpRow
  BY DEF NoOp, OpRow, Owner
<1>3. spent \in [DOMAIN Bound -> Nat]
  BY DEF Init
<1> QED
  BY <1>1, <1>2, <1>3, OffType DEF Init, TypeOK, Owner

\* What happens around the cycle preserves the types.
LEMMA AroundType ==
    ASSUME TypeOK,
           \/ \E c \in Camera : EditRules(c) \/ FinalizeSegment(c)
           \/ \E c \in Camera : ToggleCamera(c)
           \/ \E w \in Worker : RecoveryDue(w) \/ Crash(w)
           \/ Lapse
    PROVE  TypeOK'
<1>b. /\ "changes" \in DOMAIN Bound /\ "delays" \in DOMAIN Bound
      /\ "stalls" \in DOMAIN Bound /\ "crashes" \in DOMAIN Bound
      /\ "recoveries" \in DOMAIN Bound
  BY DEF Bound
<1>1. CASE \E c \in Camera : EditRules(c)
  <2> PICK c \in Camera : EditRules(c)
    BY <1>1
  <2>1. signal' \in Signal /\ spent' \in [DOMAIN Bound -> Nat]
    BY <1>b, AdvanceType, ChangeAdvances, SpendType DEF TypeOK
  <2>2. \A x \in Camera \X Watermark :
            /\ ops[x] \in OpRow
            /\ [ops[x] EXCEPT !.kept = FALSE, !.fresh = FALSE] \in OpRow
    BY OpRowType DEF TypeOK
  <2>3. ops' \in [Camera \X Watermark -> OpRow]
    BY <2>2 DEF EditRules
  <2>4. \A w \in Worker : run[w] \in Run
    BY DEF TypeOK
  <2>5. run' \in [Worker -> Run]
    BY <2>4, ForgetType DEF EditRules
  <2> QED
    BY <2>1, <2>3, <2>5 DEF EditRules, Change, TypeOK
<1>2. CASE \E c \in Camera : FinalizeSegment(c)
  <2> PICK c \in Camera : FinalizeSegment(c)
    BY <1>2
  <2>1. signal' \in Signal /\ spent' \in [DOMAIN Bound -> Nat]
    BY <1>b, AdvanceType, ChangeAdvances, SpendType DEF TypeOK
  <2>2. \A x \in Camera \X Watermark :
            ops[x] \in OpRow /\ [ops[x] EXCEPT !.fresh = FALSE] \in OpRow
    BY OpRowType DEF TypeOK
  <2>3. ops' \in [Camera \X Watermark -> OpRow]
    BY <2>2 DEF FinalizeSegment
  <2>4. \A w \in Worker : run[w] \in Run
    BY DEF TypeOK
  <2>5. run' \in [Worker -> Run]
    BY <2>4, ForgetType DEF FinalizeSegment
  <2> QED
    BY <2>1, <2>3, <2>5 DEF FinalizeSegment, Change, TypeOK
<1>t. CASE \E c \in Camera : ToggleCamera(c)
  <2> PICK c \in Camera : ToggleCamera(c)
    BY <1>t
  <2>1. spent' \in [DOMAIN Bound -> Nat]
    BY <1>b, SpendType DEF ToggleCamera, TypeOK
  <2>2. \A x \in Camera \X Watermark :
            ops[x] \in OpRow /\ [ops[x] EXCEPT !.kept = FALSE] \in OpRow
    BY OpRowType DEF TypeOK
  <2>3. ops' \in [Camera \X Watermark -> OpRow]
    BY <2>2 DEF ToggleCamera
  <2>4. \A w \in Worker : run[w] \in Run
    BY DEF TypeOK
  <2>5. run' \in [Worker -> Run]
    BY <2>4, ForgetType DEF ToggleCamera
  <2> QED
    BY <2>1, <2>3, <2>5 DEF ToggleCamera, TypeOK
<1>3. CASE \E w \in Worker : RecoveryDue(w)
  BY <1>3, <1>b, SpendType DEF RecoveryDue, TypeOK
<1>4. CASE \E w \in Worker : Crash(w)
  BY <1>4, <1>b, SpendType, OffType DEF Crash, TypeOK
<1>5. CASE Lapse
  <2>1. spent' \in [DOMAIN Bound -> Nat]
    BY <1>5, <1>b, SpendType
       DEF Lapse, LapseLeader, LapseSignal, LapseOperation, Unattended, TypeOK
  <2>2. CASE LapseLeader
    BY <2>1, <2>2 DEF LapseLeader, TypeOK
  <2>3. CASE LapseSignal
    BY <2>1, <2>3 DEF LapseSignal, TypeOK, Signal
  <2>4. CASE \E x \in Camera \X Watermark : LapseOperation(x)
    <3> PICK x \in Camera \X Watermark : LapseOperation(x)
      BY <2>4
    <3>1. ops' \in [Camera \X Watermark -> OpRow]
      BY OpRowType DEF LapseOperation, TypeOK
    <3> QED
      BY <2>1, <3>1 DEF LapseOperation, TypeOK
  <2> QED
    BY <1>5, <2>2, <2>3, <2>4 DEF Lapse
<1> QED
  BY <1>1, <1>2, <1>t, <1>3, <1>4, <1>5

\* The steps of a cycle preserve the types.
LEMMA CycleType ==
    ASSUME TypeOK, NEW w \in Worker, Cycle(w)
    PROVE  TypeOK'
<1>b. "delays" \in DOMAIN Bound
  BY DEF Bound
<1>p. /\ {"off", "led", "forcing", "ready", "claimed", "scan", "judge"} \subseteq Pc
      /\ {"held", "deleting", "owing", "between", "yielding", "end"} \subseteq Pc
  BY DEF Pc
<1>1. CASE BecomeLeader(w)
  BY <1>1, <1>p, OffType DEF BecomeLeader, TypeOK, Run, Owner
<1>2. CASE NotLeader(w)
  BY <1>2 DEF NotLeader, TypeOK
<1>3. CASE PublishDue(w)
  <2>1. signal' \in Signal
    BY <1>3, MaxType, PublishType DEF PublishDue, TypeOK, Watermark
  <2>2. run' \in [Worker -> Run]
    BY <1>3, <1>p, RunType DEF PublishDue, TypeOK
  <2> QED
    BY <1>3, <2>1, <2>2 DEF PublishDue, TypeOK
<1>4. CASE ForceRecovery(w)
  BY <1>4, <1>p, AdvanceType, ZeroAdvances, RunType DEF ForceRecovery, TypeOK
<1>5. CASE LeaderLost(w)
  BY <1>5, AbortType DEF LeaderLost, TypeOK
<1>6. CASE StartGeneration(w)
  <2>1. signal' \in Signal
    <3>1. signal \in Signal /\ w \in Owner
      BY DEF TypeOK, Owner
    <3>2. signal' = [signal EXCEPT !.status = "running", !.claimed = signal.requested,
                                   !.owner = w, !.live = TRUE]
      BY <1>6 DEF StartGeneration, ClaimSignal
    <3> QED
      BY <3>1, <3>2 DEF Signal
  <2>2. run' \in [Worker -> Run]
    <3>1. [run[w] EXCEPT !.pc = "claimed", !.claimed = signal.requested] \in Run
      BY <1>p DEF TypeOK, Run, Signal
    <3> QED
      BY <1>6, <3>1 DEF StartGeneration, TypeOK
  <2> QED
    BY <1>6, <2>1, <2>2 DEF StartGeneration, TypeOK
<1>7. CASE NothingToClaim(w)
  BY <1>7, <1>p, RunType DEF NothingToClaim, TypeOK
<1>8. CASE EndCycle(w)
  BY <1>8, OffType DEF EndCycle, ReleaseLeader, TypeOK
<1>9. CASE ListCameras(w)
  <2>1. [run[w] EXCEPT !.pc = "scan", !.todo = Camera, !.fresh = Camera] \in Run
    BY <1>p DEF TypeOK, Run
  <2> QED
    BY <1>9, <2>1 DEF ListCameras, TypeOK
<1>10. CASE OweAdvance(w)
  BY <1>10, <1>p, AdvanceType, ZeroAdvances, RunType DEF OweAdvance, TypeOK
<1>11. CASE YieldToPressure(w)
  BY <1>11, <1>p, <1>b, SpendType, RunType DEF YieldToPressure, TypeOK, Signal
<1>12. CASE AdvanceAndStop(w)
  <2>1. [run[w] EXCEPT !.pc = "scan", !.todo = {}, !.kept = {}, !.fresh = {}] \in Run
    BY <1>p DEF TypeOK, Run
  <2> QED
    BY <1>12, <2>1, AdvanceType, ZeroAdvances DEF AdvanceAndStop, TypeOK
<1>13. CASE EndGeneration(w)
  <2>1. signal' \in Signal
    BY <1>13, AcknowledgeType DEF EndGeneration
  <2>2. run' \in [Worker -> Run]
    BY <1>13, <1>p, OffType DEF EndGeneration, TypeOK, Run
  <2> QED
    BY <1>13, <2>1, <2>2 DEF EndGeneration, TypeOK
<1>14. CASE SignalLost(w)
  BY <1>14, AbortType DEF SignalLost, TypeOK
<1> QED
  BY <1>1, <1>2, <1>3, <1>4, <1>5, <1>6, <1>7, <1>8, <1>9, <1>10, <1>11, <1>12,
     <1>13, <1>14 DEF Cycle

LEMMA SettleType ==
    ASSUME TypeOK, NEW c \in Camera, NEW fresh, NEW outcome \in {"none", "scheduled"},
           Settle(c, fresh, outcome)
    PROVE  debt' \in [Camera -> {"none", "owed", "scheduled"}]
BY DEF Settle, TypeOK

\* The steps of a visit to a camera preserve the types.
LEMMA VisitType ==
    ASSUME TypeOK, NEW w \in Worker, NEW c \in Camera, Visit(w, c)
    PROVE  TypeOK'
<1>b. "delays" \in DOMAIN Bound
  BY DEF Bound
<1>p. {"scan", "judge", "held", "deleting", "owing", "between"} \subseteq Pc
  BY DEF Pc
<1>1. CASE ReadRules(w, c)
  <2> DEFINE r == [run[w] EXCEPT !.pc = "judge", !.kept = run[w].kept \cup {c}]
  <2>1. r \in Run
    BY <1>p DEF TypeOK, Run
  <2>2. run' = [run EXCEPT ![w] = r]
    BY <1>1 DEF ReadRules
  <2> HIDE DEF r
  <2>3. run' \in [Worker -> Run]
    BY <2>1, <2>2 DEF TypeOK
  <2> QED
    BY <1>1, <2>3 DEF ReadRules, TypeOK
<1>2. CASE Replay(w, c)
  BY <1>2, <1>p, RunType DEF Replay, TypeOK
<1>3. CASE Compliant(w, c)
  BY <1>3, <1>p, RunType, SettleType DEF Compliant, TypeOK
<1>4. CASE Contended(w, c)
  BY <1>4, <1>p, <1>b, RunType, SpendType DEF Contended, TypeOK
<1>5. CASE ClaimOperation(w, c)
  <2> DEFINE x == OpOf(w, c)
             r == IF ops[x].state = "running"
                  THEN [ops[x] EXCEPT !.owner = w, !.live = TRUE]
                  ELSE [state |-> "running", owner |-> w, live |-> TRUE,
                        kept |-> c \in run[w].kept, fresh |-> c \in run[w].fresh]
  <2>1. r \in OpRow
    <3>1. ops[x] \in OpRow /\ w \in Owner
      BY IndexOf DEF TypeOK, Owner
    <3>2. [ops[x] EXCEPT !.owner = w, !.live = TRUE] \in OpRow
      BY <3>1 DEF OpRow
    <3>3. [state |-> "running", owner |-> w, live |-> TRUE,
           kept |-> c \in run[w].kept, fresh |-> c \in run[w].fresh] \in OpRow
      BY <3>1 DEF OpRow
    <3> QED
      BY <3>2, <3>3
  <2>2. ops' = [ops EXCEPT ![x] = r]
    BY <1>5 DEF ClaimOperation
  <2>3. ops' \in [Camera \X Watermark -> OpRow]
    <3> HIDE DEF x, r
    <3> QED
      BY <2>1, <2>2 DEF TypeOK
  <2> QED
    BY <1>5, <1>p, <2>3, RunType DEF ClaimOperation, TypeOK
<1>6. CASE Supersede(w, c)
  BY <1>6, <1>p, FinishType, RunType DEF Supersede, TypeOK
<1>7. CASE StartDeleting(w, c)
  BY <1>7, <1>p, RunType DEF StartDeleting, TypeOK
<1>8. CASE Complete(w, c)
  <2>1. debt' \in [Camera -> {"none", "owed", "scheduled"}]
    BY <1>8, SettleType DEF Complete
  <2> QED
    BY <1>8, <1>p, <2>1, FinishType, RunType DEF Complete, TypeOK
<1>9. CASE Preempt(w, c)
  BY <1>9, <1>p, <1>b, FinishType, RunType, SpendType DEF Preempt, TypeOK
<1>10. CASE Fail(w, c)
  <2>1. spent' \in [DOMAIN Bound -> Nat]
    BY <1>10, <1>b, SpendType DEF Fail, TypeOK
  <2>2. /\ ops' \in [Camera \X Watermark -> OpRow]
        /\ debt' \in [Camera -> {"none", "owed", "scheduled"}]
    BY <1>10, FinishType, SettleType DEF Fail, TypeOK
  <2> QED
    BY <1>10, <2>1, <2>2, AbortType DEF Fail, TypeOK
<1>11. CASE NextCamera(w, c)
  <2>1. signal' \in Signal
    BY <1>11 DEF NextCamera, TypeOK, Signal
  <2> QED
    BY <1>11, <2>1, LeftType DEF NextCamera, TypeOK
<1>12. CASE SkipCamera(w, c)
  BY <1>12, LeftType, SettleType DEF SkipCamera, TypeOK
<1> QED
  BY <1>1, <1>2, <1>3, <1>4, <1>5, <1>6, <1>7, <1>8, <1>9, <1>10, <1>11,
     <1>12 DEF Visit

\* Rows, handles and flags keep their types.
THEOREM TypeCorrect == Spec => []TypeOK
<1>1. Init => TypeOK
  BY InitType
<1>2. TypeOK /\ [Next]_vars => TypeOK'
  <2> SUFFICES ASSUME TypeOK, [Next]_vars PROVE TypeOK'
    OBVIOUS
  <2>1. CASE Next
    BY <2>1, AroundType, CycleType, VisitType DEF Next
  <2>2. CASE UNCHANGED vars
    BY <2>2 DEF vars, TypeOK
  <2> QED
    BY <2>1, <2>2
<1> QED
  BY <1>1, <1>2, PTL DEF Spec

-----------------------------------------------------------------------------
(* Watermarks.                                                             *)

\* The numbers behind the types.
LEMMA Numbers ==
    ASSUME TypeOK
    PROVE  /\ signal.requested \in Nat /\ signal.consumed \in Nat /\ signal.claimed \in Nat
           /\ \A w \in Worker : run[w].claimed \in Nat
           /\ \A x \in Camera \X Watermark : x[2] \in Nat
BY MaxType DEF TypeOK, Signal, Run, Watermark

\* What a step does to the signal, when it is neither a claim nor an
\* acknowledgement: it may ask for more.
Asks ==
    /\ signal'.requested >= signal.requested
    /\ signal'.consumed = signal.consumed
    /\ signal'.claimed = signal.claimed
    /\ signal'.owner = signal.owner
    /\ signal'.status = IF signal.status = "running" THEN "running"
                        ELSE IF signal'.requested > signal.requested THEN "pending"
                        ELSE signal.status

LEMMA AdvanceAsks ==
    ASSUME TypeOK, Advances
    PROVE  Asks /\ signal'.requested > signal.requested
<1> PICK n \in Watermark : Advance(n)
  BY DEF Advances
<1>1. n \in Nat
  BY MaxType DEF Watermark
<1>2. signal' = [signal EXCEPT !.requested = Larger(signal.requested + 1, n),
                    !.status = IF signal.status = "running" THEN "running" ELSE "pending"]
  BY DEF Advance, TypeOK, Signal
<1>3. /\ signal'.requested = Larger(signal.requested + 1, n)
      /\ signal'.consumed = signal.consumed /\ signal'.claimed = signal.claimed
      /\ signal'.owner = signal.owner
      /\ signal'.status = IF signal.status = "running" THEN "running" ELSE "pending"
  BY <1>2 DEF TypeOK, Signal
<1>4. signal'.requested > signal.requested
  BY <1>1, <1>3, Numbers DEF Larger
<1>5. signal'.requested \in Nat
  BY <1>1, <1>3, Numbers DEF Larger
<1> QED
  BY <1>3, <1>4, <1>5, Numbers DEF Asks

LEMMA PublishAsks ==
    ASSUME TypeOK, Known, StatusTruthful, NEW n \in Nat, Publish(n)
    PROVE  Asks
BY Numbers DEF Publish, Asks, TypeOK, Signal, Larger, Known, StatusTruthful

\* A step that asks, enters no generation, changes no claim and creates no
\* operation beyond the watermark keeps the watermarks in order.
LEMMA AskingKnown ==
    ASSUME TypeOK, TypeOK', Known, StatusTruthful, Asks,
           \A w \in Worker : run'[w].pc \in Generation =>
               run[w].pc \in Generation /\ run'[w].claimed = run[w].claimed,
           \A x \in Camera \X Watermark : ops'[x].state # "none" =>
               ops[x].state # "none" \/ x[2] <= signal.requested
    PROVE  Known' /\ StatusTruthful'
<1>n. /\ signal'.requested \in Nat /\ signal'.consumed \in Nat /\ signal'.claimed \in Nat
      /\ \A w \in Worker : run'[w].claimed \in Nat
  BY Numbers, MaxType DEF TypeOK, Signal, Run, Watermark
<1>1. StatusTruthful'
  <2>1. signal.consumed <= signal.requested
    BY DEF Known
  <2>2. (signal.status = "running" =>
            signal.consumed < signal.claimed /\ signal.claimed <= signal.requested)'
    BY <1>n, Numbers DEF StatusTruthful, Asks
  <2>3. (signal.status = "idle" <=> signal.requested = signal.consumed)'
    <3>1. CASE signal.status = "running"
      BY <1>n, <3>1, Numbers DEF StatusTruthful, Asks
    <3>2. CASE signal.status # "running" /\ signal'.requested > signal.requested
      BY <1>n, <2>1, <3>2, Numbers DEF StatusTruthful, Asks
    <3>3. CASE signal.status # "running" /\ signal'.requested = signal.requested
      BY <1>n, <3>3, Numbers DEF StatusTruthful, Asks
    <3> QED
      BY <1>n, <3>1, <3>2, <3>3, Numbers DEF Asks
  <2> QED
    BY <2>2, <2>3 DEF StatusTruthful
<1>2. \A w \in Worker : Current(w)' => Current(w)
  BY DEF Current, Asks, TypeOK, Signal
<1>3. (signal.consumed <= signal.requested)'
  BY <1>n, Numbers DEF Asks, Known
<1>4. (\A w \in Worker : run[w].pc \in Generation => run[w].claimed <= signal.requested)'
  BY <1>n, Numbers DEF Asks, Known
<1>5. (\A w \in Worker : Current(w) => run[w].claimed = signal.claimed)'
  BY <1>2 DEF Asks, Known, Current
<1>6. (\A x \in Camera \X Watermark :
          ops[x].state # "none" => x[2] <= signal.requested)'
  BY <1>n, Numbers DEF Asks, Known
<1> QED
  BY <1>1, <1>3, <1>4, <1>5, <1>6 DEF Known

\* The generations go on, or stop, but none starts.
NoneStarts ==
    \A w \in Worker : run'[w].pc \in Generation =>
        run[w].pc \in Generation /\ run'[w].claimed = run[w].claimed

\* No operation appears beyond the watermark requested.
OpsKnown ==
    \A x \in Camera \X Watermark : ops'[x].state # "none" =>
        ops[x].state # "none" \/ x[2] <= signal.requested

LEMMA GotoMoves ==
    ASSUME TypeOK, NEW w \in Worker, NEW pc, Goto(w, pc),
           pc \in Generation => run[w].pc \in Generation
    PROVE  NoneStarts
BY DEF Goto, NoneStarts, TypeOK, Run

LEMMA AbortMoves ==
    ASSUME TypeOK, NEW w \in Worker, Abort(w)
    PROVE  NoneStarts
BY DEF Abort, NoneStarts, TypeOK, Run, Off, Generation

LEMMA LeftMoves ==
    ASSUME TypeOK, NEW w \in Worker, NEW c \in Camera, run[w].pc \in Generation,
           run' = [run EXCEPT ![w] = Left(w, c)]
    PROVE  NoneStarts
BY DEF Left, NoneStarts, TypeOK, Run

LEMMA FinishKnown ==
    ASSUME TypeOK, NEW w \in Worker, NEW c \in Camera, FinishOperation(w, c)
    PROVE  OpsKnown
BY IndexOf DEF FinishOperation, OperationOwned, OpsKnown, TypeOK

\* The steps of a cycle keep the watermarks in order.
LEMMA CycleKnown ==
    ASSUME TypeOK, TypeOK', Known, StatusTruthful, NEW w \in Worker, Cycle(w)
    PROVE  Known' /\ StatusTruthful'
<1>g. /\ {"off", "led", "forcing", "ready", "end"} \cap Generation = {}
      /\ {"claimed", "scan", "judge", "held", "deleting", "owing", "between", "yielding"}
             \subseteq Generation
  BY DEF Generation, Pc
<1>s. signal' = signal => Asks
  BY Numbers DEF Asks, TypeOK, Signal
<1>o. ops' = ops => OpsKnown
  BY DEF OpsKnown
<1>k. Asks /\ NoneStarts /\ OpsKnown => Known' /\ StatusTruthful'
  BY AskingKnown DEF NoneStarts, OpsKnown
<1>1. CASE BecomeLeader(w)
  <2>1. NoneStarts
    BY <1>1, <1>g DEF BecomeLeader, NoneStarts, TypeOK, Run, Off
  <2> QED
    BY <1>1, <1>s, <1>o, <1>k, <2>1 DEF BecomeLeader
<1>2. CASE NotLeader(w)
  BY <1>2, <1>s, <1>o, <1>k DEF NotLeader, NoneStarts
<1>3. CASE PublishDue(w)
  <2>1. Asks
    BY <1>3, MaxType, PublishAsks DEF PublishDue, Watermark
  <2>2. NoneStarts
    BY <1>3, <1>g, GotoMoves DEF PublishDue
  <2> QED
    BY <1>3, <1>o, <1>k, <2>1, <2>2 DEF PublishDue
<1>4. CASE ForceRecovery(w)
  <2>1. NoneStarts
    BY <1>4, <1>g, GotoMoves DEF ForceRecovery
  <2> QED
    BY <1>4, AdvanceAsks, ZeroAdvances, <1>o, <1>k, <2>1 DEF ForceRecovery
<1>5. CASE LeaderLost(w)
  BY <1>5, <1>s, <1>o, <1>k, AbortMoves DEF LeaderLost
<1>6. CASE StartGeneration(w)
  <2>1. /\ signal'.requested = signal.requested /\ signal'.consumed = signal.consumed
        /\ signal'.claimed = signal.requested /\ signal'.status = "running"
        /\ signal'.owner = w
    BY <1>6 DEF StartGeneration, ClaimSignal, TypeOK, Signal
  <2>2. /\ run'[w].claimed = signal.requested
        /\ \A v \in Worker \ {w} : run'[v] = run[v]
    BY <1>6 DEF StartGeneration, TypeOK, Run
  <2>3. StatusTruthful'
    BY <1>6, <2>1, Numbers DEF StatusTruthful, StartGeneration, Claimable
  <2> QED
    BY <1>6, <2>1, <2>2, <2>3, Numbers DEF Known, Current, StartGeneration
<1>7. CASE NothingToClaim(w)
  BY <1>7, <1>g, <1>s, <1>o, <1>k, GotoMoves DEF NothingToClaim
<1>8. CASE EndCycle(w)
  <2>1. NoneStarts
    BY <1>8, <1>g DEF EndCycle, NoneStarts, TypeOK, Run, Off
  <2> QED
    BY <1>8, <1>s, <1>o, <1>k, <2>1 DEF EndCycle
<1>9. CASE ListCameras(w)
  <2>1. NoneStarts
    BY <1>9, <1>g DEF ListCameras, NoneStarts, TypeOK, Run
  <2> QED
    BY <1>9, <1>s, <1>o, <1>k, <2>1 DEF ListCameras
<1>10. CASE OweAdvance(w)
  <2>1. NoneStarts
    BY <1>10, <1>g, GotoMoves DEF OweAdvance
  <2> QED
    BY <1>10, AdvanceAsks, ZeroAdvances, <1>o, <1>k, <2>1 DEF OweAdvance
<1>11. CASE YieldToPressure(w)
  <2>1. Asks
    BY <1>11, Numbers DEF YieldToPressure, Asks, TypeOK, Signal
  <2>2. NoneStarts
    BY <1>11, <1>g, GotoMoves DEF YieldToPressure
  <2> QED
    BY <1>11, <1>o, <1>k, <2>1, <2>2 DEF YieldToPressure
<1>12. CASE AdvanceAndStop(w)
  <2>1. NoneStarts
    BY <1>12, <1>g DEF AdvanceAndStop, NoneStarts, TypeOK, Run
  <2> QED
    BY <1>12, AdvanceAsks, ZeroAdvances, <1>o, <1>k, <2>1 DEF AdvanceAndStop
<1>13. CASE EndGeneration(w)
  <2> DEFINE consumed == Larger(signal.consumed, run[w].claimed)
  <2>1. /\ signal'.requested = signal.requested /\ signal'.consumed = consumed
        /\ signal'.status = IF signal.requested > consumed THEN "pending" ELSE "idle"
    BY <1>13 DEF EndGeneration, Acknowledge, TypeOK, Signal
  <2>2. run[w].claimed <= signal.requested
    BY <1>13, <1>g DEF EndGeneration, Known
  <2>3. consumed <= signal.requested /\ consumed \in Nat
    BY <2>2, Numbers DEF Known, Larger
  <2>4. StatusTruthful'
    <3> HIDE DEF consumed
    <3> QED
      BY <2>1, <2>3, Numbers DEF StatusTruthful
  <2>5. /\ run'[w].pc = "end"
        /\ \A v \in Worker \ {w} : run'[v] = run[v]
    BY <1>13 DEF EndGeneration, TypeOK, Run, Off
  <2>6. \A v \in Worker : ~Current(v)'
    BY <2>1 DEF Current
  <2> QED
    <3> HIDE DEF consumed
    <3> QED
      BY <1>13, <1>g, <2>1, <2>3, <2>4, <2>5, <2>6 DEF Known, EndGeneration
<1>14. CASE SignalLost(w)
  BY <1>14, <1>s, <1>o, <1>k, AbortMoves DEF SignalLost
<1> QED
  BY <1>1, <1>2, <1>3, <1>4, <1>5, <1>6, <1>7, <1>8, <1>9, <1>10, <1>11, <1>12,
     <1>13, <1>14 DEF Cycle

\* The steps of a visit keep the watermarks in order.
LEMMA VisitKnown ==
    ASSUME TypeOK, TypeOK', Known, StatusTruthful,
           NEW w \in Worker, NEW c \in Camera, Visit(w, c)
    PROVE  Known' /\ StatusTruthful'
<1>g. {"claimed", "scan", "judge", "held", "deleting", "owing", "between", "yielding"}
          \subseteq Generation
  BY DEF Generation, Pc
<1>s. signal' = signal => Asks
  BY Numbers DEF Asks, TypeOK, Signal
<1>o. ops' = ops => OpsKnown
  BY DEF OpsKnown
<1>k. Asks /\ NoneStarts /\ OpsKnown => Known' /\ StatusTruthful'
  BY AskingKnown DEF NoneStarts, OpsKnown
<1>1. CASE ReadRules(w, c)
  <2>1. NoneStarts
    BY <1>1, <1>g DEF ReadRules, NoneStarts, TypeOK, Run
  <2> QED
    BY <1>1, <1>s, <1>o, <1>k, <2>1 DEF ReadRules
<1>2. CASE Replay(w, c)
  BY <1>2, <1>g, <1>s, <1>o, <1>k, GotoMoves DEF Replay
<1>3. CASE Compliant(w, c)
  BY <1>3, <1>g, <1>s, <1>o, <1>k, GotoMoves DEF Compliant
<1>4. CASE Contended(w, c)
  BY <1>4, <1>g, <1>s, <1>o, <1>k, GotoMoves DEF Contended
<1>5. CASE ClaimOperation(w, c)
  <2>1. run[w].claimed <= signal.requested
    BY <1>5, <1>g DEF ClaimOperation, Known
  <2>2. OpsKnown
    BY <1>5, <2>1, IndexOf DEF ClaimOperation, OpsKnown, TypeOK
  <2> QED
    BY <1>5, <1>g, <1>s, <1>k, <2>2, GotoMoves DEF ClaimOperation
<1>6. CASE Supersede(w, c)
  BY <1>6, <1>g, <1>s, <1>k, FinishKnown, GotoMoves DEF Supersede
<1>7. CASE StartDeleting(w, c)
  BY <1>7, <1>g, <1>s, <1>o, <1>k, GotoMoves DEF StartDeleting
<1>8. CASE Complete(w, c)
  BY <1>8, <1>g, <1>s, <1>k, FinishKnown, GotoMoves DEF Complete
<1>9. CASE Preempt(w, c)
  BY <1>9, <1>g, <1>s, <1>k, FinishKnown, GotoMoves DEF Preempt
<1>10. CASE Fail(w, c)
  <2>1. OpsKnown
    BY <1>10, <1>o, FinishKnown DEF Fail
  <2> QED
    BY <1>10, <1>s, <1>k, <2>1, AbortMoves DEF Fail
<1>11. CASE NextCamera(w, c)
  <2>1. Asks
    BY <1>11, Numbers DEF NextCamera, Asks, TypeOK, Signal
  <2>2. NoneStarts
    BY <1>11, <1>g, LeftMoves DEF NextCamera
  <2> QED
    BY <1>11, <1>o, <1>k, <2>1, <2>2 DEF NextCamera
<1>12. CASE SkipCamera(w, c)
  BY <1>12, <1>g, <1>s, <1>o, <1>k, LeftMoves DEF SkipCamera
<1> QED
  BY <1>1, <1>2, <1>3, <1>4, <1>5, <1>6, <1>7, <1>8, <1>9, <1>10, <1>11,
     <1>12 DEF Visit

\* A change only marks snapshots as outdated, those of its camera.
LEMMA ChangeKeeps ==
    ASSUME TypeOK, NEW c \in Camera, EditRules(c) \/ FinalizeSegment(c)
    PROVE  /\ \A w \in Worker : /\ run'[w].pc = run[w].pc
                                /\ run'[w].claimed = run[w].claimed
                                /\ run'[w].todo = run[w].todo
                                /\ run'[w].fresh = run[w].fresh \ {c}
           /\ \A x \in Camera \X Watermark :
                  /\ ops'[x].state = ops[x].state
                  /\ x[1] # c => ops'[x].fresh = ops[x].fresh
<1>1. \A w \in Worker : run[w] \in Run
  BY DEF TypeOK
<1>2. \A x \in Camera \X Watermark : ops[x] \in OpRow
  BY DEF TypeOK
<1>3. CASE EditRules(c)
  <2>1. \A w \in Worker : run'[w] = [run[w] EXCEPT !.kept = run[w].kept \ {c},
                                                  !.fresh = run[w].fresh \ {c}]
    BY <1>3 DEF EditRules
  <2>2. \A x \in Camera \X Watermark : ops'[x] =
           IF x[1] = c THEN [ops[x] EXCEPT !.kept = FALSE, !.fresh = FALSE] ELSE ops[x]
    BY <1>3 DEF EditRules
  <2>3. \A w \in Worker : /\ run'[w].pc = run[w].pc
                          /\ run'[w].claimed = run[w].claimed
                          /\ run'[w].todo = run[w].todo
                          /\ run'[w].fresh = run[w].fresh \ {c}
    <3> TAKE w \in Worker
    <3>1. run[w] \in Run
      BY <1>1
    <3> QED
      BY <2>1, <3>1 DEF Run
  <2>4. \A x \in Camera \X Watermark :
            /\ ops'[x].state = ops[x].state
            /\ x[1] # c => ops'[x].fresh = ops[x].fresh
    <3> TAKE x \in Camera \X Watermark
    <3>1. ops[x] \in OpRow
      BY <1>2
    <3> QED
      BY <2>2, <3>1 DEF OpRow
  <2> QED
    BY <2>3, <2>4
<1>4. CASE FinalizeSegment(c)
  <2>1. \A w \in Worker : run'[w] = [run[w] EXCEPT !.fresh = run[w].fresh \ {c}]
    BY <1>4 DEF FinalizeSegment
  <2>2. \A x \in Camera \X Watermark : ops'[x] =
           IF x[1] = c THEN [ops[x] EXCEPT !.fresh = FALSE] ELSE ops[x]
    BY <1>4 DEF FinalizeSegment
  <2>3. \A w \in Worker : /\ run'[w].pc = run[w].pc
                          /\ run'[w].claimed = run[w].claimed
                          /\ run'[w].todo = run[w].todo
                          /\ run'[w].fresh = run[w].fresh \ {c}
    <3> TAKE w \in Worker
    <3>1. run[w] \in Run
      BY <1>1
    <3> QED
      BY <2>1, <3>1 DEF Run
  <2>4. \A x \in Camera \X Watermark :
            /\ ops'[x].state = ops[x].state
            /\ x[1] # c => ops'[x].fresh = ops[x].fresh
    <3> TAKE x \in Camera \X Watermark
    <3>1. ops[x] \in OpRow
      BY <1>2
    <3> QED
      BY <2>2, <3>1 DEF OpRow
  <2> QED
    BY <2>3, <2>4
<1> QED
  BY <1>3, <1>4

\* Switching a camera on or off only marks its snapshots as different.
LEMMA ToggleKeeps ==
    ASSUME TypeOK, NEW c \in Camera, ToggleCamera(c)
    PROVE  /\ \A w \in Worker : /\ run'[w].pc = run[w].pc
                                /\ run'[w].claimed = run[w].claimed
                                /\ run'[w].todo = run[w].todo
                                /\ run'[w].fresh = run[w].fresh
           /\ \A x \in Camera \X Watermark :
                  ops'[x].state = ops[x].state /\ ops'[x].fresh = ops[x].fresh
<1>1. \A w \in Worker : run'[w] = [run[w] EXCEPT !.kept = run[w].kept \ {c}]
  BY DEF ToggleCamera
<1>2. \A x \in Camera \X Watermark :
          ops'[x] = IF x[1] = c THEN [ops[x] EXCEPT !.kept = FALSE] ELSE ops[x]
  BY DEF ToggleCamera
<1>3. \A w \in Worker : run[w] \in Run
  BY DEF TypeOK
<1>4. \A x \in Camera \X Watermark : ops[x] \in OpRow
  BY DEF TypeOK
<1>5. \A w \in Worker : /\ run'[w].pc = run[w].pc
                        /\ run'[w].claimed = run[w].claimed
                        /\ run'[w].todo = run[w].todo
                        /\ run'[w].fresh = run[w].fresh
  <2> TAKE w \in Worker
  <2>1. run[w] \in Run
    BY <1>3
  <2> QED
    BY <1>1, <2>1 DEF Run
<1>6. \A x \in Camera \X Watermark :
          ops'[x].state = ops[x].state /\ ops'[x].fresh = ops[x].fresh
  <2> TAKE x \in Camera \X Watermark
  <2>1. ops[x] \in OpRow
    BY <1>4
  <2> QED
    BY <1>2, <2>1 DEF OpRow
<1> QED
  BY <1>5, <1>6

\* So does everything around the cycle.
LEMMA AroundKnown ==
    ASSUME TypeOK, TypeOK', Known, StatusTruthful,
           \/ \E c \in Camera : EditRules(c) \/ FinalizeSegment(c)
           \/ \E c \in Camera : ToggleCamera(c)
           \/ \E w \in Worker : RecoveryDue(w) \/ Crash(w)
           \/ Lapse
    PROVE  Known' /\ StatusTruthful'
<1>s. signal' = signal => Asks
  BY Numbers DEF Asks, TypeOK, Signal
<1>r. run' = run => NoneStarts
  BY DEF NoneStarts
<1>o. ops' = ops => OpsKnown
  BY DEF OpsKnown
<1>k. Asks /\ NoneStarts /\ OpsKnown => Known' /\ StatusTruthful'
  BY AskingKnown DEF NoneStarts, OpsKnown
<1>1. CASE \E c \in Camera : EditRules(c)
  <2>1. NoneStarts
    BY <1>1, ChangeKeeps DEF NoneStarts
  <2>2. OpsKnown
    BY <1>1, ChangeKeeps DEF OpsKnown
  <2> QED
    BY <1>1, <1>k, <2>1, <2>2, AdvanceAsks, ChangeAdvances
<1>2. CASE \E c \in Camera : FinalizeSegment(c)
  <2>1. NoneStarts
    BY <1>2, ChangeKeeps DEF NoneStarts
  <2>2. OpsKnown
    BY <1>2, ChangeKeeps DEF OpsKnown
  <2> QED
    BY <1>2, <1>k, <2>1, <2>2, AdvanceAsks, ChangeAdvances
<1>t. CASE \E c \in Camera : ToggleCamera(c)
  <2> PICK c \in Camera : ToggleCamera(c)
    BY <1>t
  <2>1. NoneStarts /\ OpsKnown
    BY ToggleKeeps DEF NoneStarts, OpsKnown
  <2> QED
    BY <1>s, <1>k, <2>1 DEF ToggleCamera
<1>3. CASE \E w \in Worker : RecoveryDue(w)
  BY <1>3, <1>s, <1>r, <1>o, <1>k DEF RecoveryDue
<1>4. CASE \E w \in Worker : Crash(w)
  <2>1. NoneStarts
    BY <1>4 DEF Crash, NoneStarts, TypeOK, Run, Off, Generation
  <2> QED
    BY <1>4, <1>s, <1>o, <1>k, <2>1 DEF Crash
<1>5. CASE LapseLeader
  BY <1>5, <1>s, <1>r, <1>o, <1>k DEF LapseLeader
<1>6. CASE LapseSignal
  <2>1. Asks
    BY <1>6, Numbers DEF LapseSignal, Asks, TypeOK, Signal
  <2> QED
    BY <1>6, <1>r, <1>o, <1>k, <2>1 DEF LapseSignal
<1>7. CASE \E x \in Camera \X Watermark : LapseOperation(x)
  <2>1. OpsKnown
    BY <1>7 DEF LapseOperation, OpsKnown, TypeOK, OpRow
  <2> QED
    BY <1>7, <1>s, <1>r, <1>k, <2>1 DEF LapseOperation
<1> QED
  BY <1>1, <1>2, <1>t, <1>3, <1>4, <1>5, <1>6, <1>7 DEF Lapse

Ordered == TypeOK /\ Known /\ StatusTruthful

\* Watermarks stay in order: no claim and no operation is ahead of the signal,
\* the current claim is that of its thread, and the status tells the truth.
THEOREM WatermarksOrdered == Spec => []Ordered
<1>1. Init => Ordered
  <2> SUFFICES ASSUME Init PROVE Ordered
    OBVIOUS
  <2>1. TypeOK
    BY InitType
  <2>2. Known
    BY DEF Init, Known, Current, Off, NoOp, Generation
  <2>3. StatusTruthful
    BY DEF Init, StatusTruthful
  <2> QED
    BY <2>1, <2>2, <2>3 DEF Ordered
<1>2. Ordered /\ [Next]_vars => Ordered'
  <2> SUFFICES ASSUME Ordered, [Next]_vars PROVE Ordered'
    OBVIOUS
  <2>1. CASE Next
    <3>1. TypeOK'
      BY <2>1, AroundType, CycleType, VisitType DEF Next, Ordered
    <3>2. Known' /\ StatusTruthful'
      BY <2>1, <3>1, AroundKnown, CycleKnown, VisitKnown DEF Next, Ordered
    <3> QED
      BY <3>1, <3>2 DEF Ordered
  <2>2. CASE UNCHANGED vars
    BY <2>2 DEF vars, Ordered, TypeOK, Known, Current, StatusTruthful
  <2> QED
    BY <2>1, <2>2
<1> QED
  BY <1>1, <1>2, PTL DEF Spec

\* The status column tells whether there is work, in every reachable state.
THEOREM StatusIsTruthful == Spec => []StatusTruthful
<1>1. Ordered => StatusTruthful
  BY DEF Ordered
<1> QED
  BY <1>1, WatermarksOrdered, PTL

\* Only an acknowledgement consumes, and what it consumes is its own claim.
LEMMA ConsumedStep ==
    ASSUME TypeOK, Known, [Next]_vars
    PROVE  signal'.consumed # signal.consumed => signal'.consumed = signal.claimed
<1>t. signal \in Signal
  BY DEF TypeOK
<1>e. ASSUME NEW w \in Worker, EndGeneration(w)
      PROVE  signal'.consumed # signal.consumed => signal'.consumed = signal.claimed
  <2>1. Current(w)
    BY <1>e DEF EndGeneration, SignalOwned, Current, Generation, Pc
  <2>2. run[w].claimed = signal.claimed
    BY <2>1 DEF Known
  <2>3. signal'.consumed = Larger(signal.consumed, run[w].claimed)
    BY <1>e, <1>t DEF EndGeneration, Acknowledge, Signal
  <2> QED
    BY <2>2, <2>3 DEF Larger
<1>a. ASSUME NEW n, Advance(n) PROVE signal'.consumed = signal.consumed
  BY <1>a, <1>t DEF Advance, Signal
<1>p. ASSUME NEW n, Publish(n) PROVE signal'.consumed = signal.consumed
  BY <1>p, <1>t DEF Publish, Signal
<1>1. ASSUME NEW w \in Worker, Cycle(w), ~EndGeneration(w)
      PROVE  signal'.consumed = signal.consumed
  <2>1. CASE PublishDue(w)
    BY <1>p, <2>1 DEF PublishDue
  <2>2. CASE ForceRecovery(w) \/ OweAdvance(w) \/ AdvanceAndStop(w)
    BY <1>a, <2>2 DEF ForceRecovery, OweAdvance, AdvanceAndStop
  <2>3. CASE StartGeneration(w)
    BY <1>t, <2>3 DEF StartGeneration, ClaimSignal, Signal
  <2>4. CASE YieldToPressure(w)
    BY <1>t, <2>4 DEF YieldToPressure, Signal
  <2> QED
    BY <1>1, <2>1, <2>2, <2>3, <2>4
       DEF Cycle, BecomeLeader, NotLeader, LeaderLost, NothingToClaim, EndCycle, ListCameras,
           SignalLost
<1>2. ASSUME NEW w \in Worker, NEW c \in Camera, Visit(w, c)
      PROVE  signal'.consumed = signal.consumed
  <2>1. CASE NextCamera(w, c)
    BY <1>t, <2>1 DEF NextCamera, Signal
  <2> QED
    BY <1>2, <2>1
       DEF Visit, SkipCamera, ReadRules, Replay, Compliant, Contended, ClaimOperation, Supersede,
           StartDeleting, Complete, Preempt, Fail
<1>3. ASSUME NEW c \in Camera, EditRules(c) \/ ToggleCamera(c) \/ FinalizeSegment(c)
      PROVE  signal'.consumed = signal.consumed
  BY <1>3, <1>a DEF EditRules, ToggleCamera, FinalizeSegment, Change
<1>4. CASE Lapse
  BY <1>4, <1>t DEF Lapse, LapseLeader, LapseSignal, LapseOperation, Signal
<1>5. ASSUME NEW w \in Worker, RecoveryDue(w) \/ Crash(w)
      PROVE  signal'.consumed = signal.consumed
  BY <1>5 DEF RecoveryDue, Crash
<1>6. CASE UNCHANGED vars
  BY <1>6 DEF vars
<1> QED
  BY <1>e, <1>1, <1>2, <1>3, <1>4, <1>5, <1>6 DEF Next

\* The consumed watermark only ever becomes that of the claim in force: a thread whose claim
\* was taken over consumes nothing (acknowledge_work_signal).
THEOREM ClaimsAreAcknowledged == Spec => AcknowledgesClaim
<1>1. Ordered /\ [Next]_vars =>
        [signal'.consumed # signal.consumed => signal'.consumed = signal.claimed]_vars
  BY ConsumedStep DEF Ordered
<1> QED
  BY <1>1, WatermarksOrdered, PTL DEF Spec, AcknowledgesClaim

-----------------------------------------------------------------------------
(* Wake-ups.                                                               *)

\* Only one camera is at hand.
LEMMA OneAtHand ==
    ASSUME NEW w \in Worker, NEW c \in Camera, NEW d \in Camera, At(w, c), At(w, d)
    PROVE  c = d
BY CameraAssumption DEF At

\* Once the signal is advanced everything known has been asked for.
LEMMA AdvanceCovers ==
    ASSUME TypeOK, TypeOK', Known, Advances, NoneStarts,
           \A x \in Camera \X Watermark : ops'[x].state # "none" => ops[x].state # "none"
    PROVE  Covered'
<1>1. /\ signal'.requested > signal.requested /\ signal'.consumed = signal.consumed
      /\ signal'.requested \in Nat
  BY AdvanceAsks, MaxType DEF Asks, TypeOK, Signal, Watermark
<1>2. \A w \in Worker : run'[w].pc \in Generation => Asked(run[w].claimed)'
  BY <1>1, Numbers DEF NoneStarts, Known, Asked
<1>3. \A w \in Worker : run'[w].pc \in Generation => run'[w].claimed = run[w].claimed
  BY DEF NoneStarts
<1>4. \A x \in Camera \X Watermark : ops'[x].state # "none" => Asked(x[2])'
  BY <1>1, Numbers DEF Known, Asked
<1>5. RunSnapshot'
  BY <1>2, <1>3 DEF RunSnapshot, Asked
<1>6. OpSnapshot' /\ ReplaySafe'
  BY <1>4 DEF OpSnapshot, ReplaySafe, Asked
<1>7. Visited'
  BY <1>2, <1>3 DEF Visited, Current, Asked
<1>8. NoLostWork'
  BY <1>1, Numbers DEF NoLostWork, Known
<1> QED
  BY <1>5, <1>6, <1>7, <1>8 DEF Covered

\* The ways in which a step that does not advance the signal could lose work.
NoNewDebt == \A c \in Camera : debt'[c] = "owed" => debt[c] = "owed"
StillOwing == Owing => Owing'
SnapshotsKept ==
    \A w \in Worker, c \in Camera :
        run'[w].pc \in Generation \ {"claimed"} /\ c \in run'[w].todo \ run'[w].fresh
            => run[w].pc # "claimed" /\ c \in run[w].todo \ run[w].fresh
OpsCovered ==
    \A x \in Camera \X Watermark : debt'[x[1]] = "owed" =>
        /\ ops'[x].state = "running" /\ ~ops'[x].fresh =>
               (ops[x].state = "running" /\ ~ops[x].fresh) \/ Asked(x[2])
        /\ ops'[x].state = "terminal" =>
               ops[x].state = "terminal" \/ Asked(x[2]) \/ Owing'
NoneForgotten ==
    \A w \in Worker, c \in Camera :
        /\ Current(w)
        /\ run'[w].pc \in Generation \ {"claimed"}
        /\ debt'[c] = "owed"
        /\ ~Ahead(w, c)'
        => \/ (run[w].pc # "claimed" /\ ~Ahead(w, c))
           \/ Asked(run[w].claimed)
           \/ Owing'

LEMMA QuietCovered ==
    ASSUME TypeOK, TypeOK', Known, Covered, Asks, NoneStarts, NoNewDebt, StillOwing,
           SnapshotsKept, OpsCovered, NoneForgotten
    PROVE  Covered'
<1>1. \A k \in Nat : signal.requested > k => signal'.requested > k
  <2>1. signal'.requested \in Nat
    BY MaxType DEF TypeOK, Signal, Watermark
  <2> QED
    BY <2>1, Numbers DEF Asks
<1>2. \A w \in Worker : Current(w)' => Current(w) /\ run'[w].claimed = run[w].claimed
  BY DEF Current, Asks, NoneStarts, TypeOK, Signal
<1>3. RunSnapshot'
  <2> SUFFICES ASSUME NEW w \in Worker, NEW c \in Camera,
                      run'[w].pc \in Generation \ {"claimed"},
                      c \in run'[w].todo \ run'[w].fresh, debt'[c] = "owed"
               PROVE  signal'.requested > run'[w].claimed
    BY DEF RunSnapshot, Asked
  <2>1. Asked(run[w].claimed)
    BY DEF Covered, RunSnapshot, SnapshotsKept, NoNewDebt, NoneStarts
  <2> QED
    BY <1>1, <2>1, Numbers DEF NoneStarts, Asked
<1>4. OpSnapshot' /\ ReplaySafe'
  <2> SUFFICES ASSUME NEW x \in Camera \X Watermark, debt'[x[1]] = "owed"
               PROVE  /\ ops'[x].state = "running" /\ ~ops'[x].fresh =>
                             signal'.requested > x[2]
                      /\ ops'[x].state = "terminal" => signal'.requested > x[2] \/ Owing'
    BY DEF OpSnapshot, ReplaySafe, Asked
  <2>1. debt[x[1]] = "owed" /\ x[2] \in Nat
    BY Numbers DEF NoNewDebt
  <2>2. ops'[x].state = "running" /\ ~ops'[x].fresh => Asked(x[2])
    BY <2>1 DEF Covered, OpSnapshot, OpsCovered
  <2>3. ops'[x].state = "terminal" => Asked(x[2]) \/ Owing'
    BY <2>1 DEF Covered, ReplaySafe, OpsCovered, StillOwing
  <2> QED
    BY <1>1, <2>1, <2>2, <2>3 DEF Asked
<1>5. Visited'
  <2> SUFFICES ASSUME NEW w \in Worker, NEW c \in Camera, Current(w)',
                      run'[w].pc # "claimed", debt'[c] = "owed", ~Ahead(w, c)'
               PROVE  signal'.requested > run'[w].claimed \/ Owing'
    BY DEF Visited, Asked
  <2>1. Current(w) /\ run'[w].claimed = run[w].claimed /\ run'[w].pc \in Generation
    BY <1>2 DEF Current
  <2>2. Asked(run[w].claimed) \/ Owing'
    BY <2>1 DEF Covered, Visited, NoneForgotten, NoNewDebt, StillOwing
  <2> QED
    BY <1>1, <2>1, <2>2, Numbers DEF Asked
<1>6. NoLostWork'
  <2>1. signal'.requested \in Nat
    BY MaxType DEF TypeOK, Signal, Watermark
  <2> QED
    BY <2>1, Numbers DEF Covered, NoLostWork, NoNewDebt, StillOwing, Asks
<1> QED
  BY <1>3, <1>4, <1>5, <1>6 DEF Covered

\* What a quiet step must guarantee of the threads.
Quiet == NoneStarts /\ StillOwing /\ SnapshotsKept /\ NoneForgotten

OthersKept(w) == \A v \in Worker \ {w} : run'[v] = run[v]

\* A thread that is not about to advance the signal may stop at any time.
LEMMA LeaveQuiet ==
    ASSUME NEW w \in Worker, OthersKept(w), NoNewDebt,
           run[w].pc # "owing", run'[w].pc \notin Generation
    PROVE  Quiet
<1>1. NoneStarts /\ SnapshotsKept
  BY DEF OthersKept, NoneStarts, SnapshotsKept
<1>2. StillOwing
  BY DEF OthersKept, StillOwing, Owing
<1>3. NoneForgotten
  BY DEF OthersKept, NoneForgotten, Ahead, At
<1> QED
  BY <1>1, <1>2, <1>3 DEF Quiet

LEMMA SameQuiet ==
    ASSUME \A w \in Worker : /\ run'[w].pc = run[w].pc
                             /\ run'[w].claimed = run[w].claimed
                             /\ run'[w].todo = run[w].todo
                             /\ run'[w].fresh = run[w].fresh
    PROVE  Quiet
BY DEF Quiet, NoneStarts, StillOwing, Owing, SnapshotsKept, NoneForgotten, Ahead, At

LEMMA IdleQuiet ==
    ASSUME run' = run
    PROVE  Quiet
BY DEF Quiet, NoneStarts, StillOwing, Owing, SnapshotsKept, NoneForgotten, Ahead, At

\* A thread goes on with the camera at hand; when it is done with it, the camera
\* is owed nothing, or what it is owed has been asked for.
LEMMA StayQuiet ==
    ASSUME NEW w \in Worker, OthersKept(w),
           run[w].pc \in Generation \ {"claimed", "owing"},
           run'[w].claimed = run[w].claimed, run'[w].todo = run[w].todo,
           run'[w].fresh = run[w].fresh,
           run'[w].pc = "between" =>
               \A c \in Camera : At(w, c) /\ debt'[c] = "owed" =>
                   Asked(run[w].claimed) \/ Owing
    PROVE  Quiet
<1>1. NoneStarts /\ SnapshotsKept
  BY DEF OthersKept, NoneStarts, SnapshotsKept
<1>2. StillOwing
  BY DEF OthersKept, StillOwing, Owing
<1>3. NoneForgotten
  <2> SUFFICES ASSUME NEW v \in Worker, NEW c \in Camera, debt'[c] = "owed",
                      run'[v].pc \in Generation \ {"claimed"}, ~Ahead(v, c)'
               PROVE  (run[v].pc # "claimed" /\ ~Ahead(v, c))
                          \/ Asked(run[v].claimed) \/ Owing'
    BY DEF NoneForgotten
  <2>1. CASE v # w
    <3>1. run'[v] = run[v]
      BY <2>1 DEF OthersKept
    <3> QED
      BY <3>1 DEF Ahead, At
  <2>2. CASE v = w /\ c \notin run[w].todo
    BY <2>2 DEF Ahead
  <2>3. CASE v = w /\ c \in run[w].todo
    <3>1. run'[w].pc = "between" /\ At(w, c)
      BY <2>3 DEF Ahead, At
    <3> QED
      BY <1>2, <2>3, <3>1 DEF StillOwing
  <2> QED
    BY <2>1, <2>2, <2>3
<1> QED
  BY <1>1, <1>2, <1>3 DEF Quiet

\* The forms in which the actions take these steps.
LEMMA GotoKeeps ==
    ASSUME TypeOK, NEW w \in Worker, NEW pc, Goto(w, pc)
    PROVE  /\ OthersKept(w)
           /\ run'[w].pc = pc /\ run'[w].claimed = run[w].claimed
           /\ run'[w].todo = run[w].todo /\ run'[w].fresh = run[w].fresh
BY DEF Goto, OthersKept, TypeOK, Run

LEMMA AbortKeeps ==
    ASSUME TypeOK, NEW w \in Worker, Abort(w)
    PROVE  OthersKept(w) /\ run'[w].pc \notin Generation
BY DEF Abort, OthersKept, TypeOK, Off, Generation

\* The steps of a cycle lose no wake-up.
LEMMA CycleCovered ==
    ASSUME TypeOK, TypeOK', Known, StatusTruthful, Covered, NEW w \in Worker, Cycle(w)
    PROVE  Covered'
<1>g. /\ {"off", "led", "forcing", "ready", "end"} \cap Generation = {}
      /\ {"claimed", "scan", "judge", "held", "deleting", "owing", "between", "yielding"}
             \subseteq Generation
  BY DEF Generation, Pc
<1>s. signal' = signal => Asks
  BY Numbers DEF Asks, TypeOK, Signal
<1>o. ops' = ops => OpsCovered
  BY DEF OpsCovered
<1>d. debt' = debt => NoNewDebt
  BY DEF NoNewDebt
<1>k. Asks /\ Quiet /\ NoNewDebt /\ OpsCovered => Covered'
  BY QuietCovered DEF Quiet
<1>a. Advance(0) /\ NoneStarts /\ ops' = ops => Covered'
  BY AdvanceCovers, ZeroAdvances
<1>1. CASE BecomeLeader(w)
  <2>1. OthersKept(w) /\ run'[w].pc = "led" /\ run[w].pc = "off"
    BY <1>1 DEF BecomeLeader, OthersKept, TypeOK, Off
  <2> QED
    BY <1>1, <1>g, <1>s, <1>o, <1>d, <1>k, <2>1, LeaveQuiet DEF BecomeLeader
<1>2. CASE NotLeader(w)
  BY <1>2, <1>s, <1>o, <1>d, <1>k, IdleQuiet DEF NotLeader
<1>3. CASE PublishDue(w)
  <2>1. Asks
    BY <1>3, MaxType, PublishAsks DEF PublishDue, Watermark
  <2>2. OthersKept(w) /\ run'[w].pc \in {"forcing", "ready"} /\ run[w].pc = "led"
    BY <1>3, GotoKeeps DEF PublishDue
  <2> QED
    BY <1>3, <1>g, <1>o, <1>d, <1>k, <2>1, <2>2, LeaveQuiet DEF PublishDue
<1>4. CASE ForceRecovery(w)
  BY <1>4, <1>g, <1>a, GotoMoves DEF ForceRecovery
<1>5. CASE LeaderLost(w)
  <2>1. OthersKept(w) /\ run'[w].pc \notin Generation /\ run[w].pc # "owing"
    BY <1>5, AbortKeeps DEF LeaderLost
  <2> QED
    BY <1>5, <1>s, <1>o, <1>d, <1>k, <2>1, LeaveQuiet DEF LeaderLost
<1>6. CASE StartGeneration(w)
  <2>1. /\ signal'.requested = signal.requested /\ signal'.consumed = signal.consumed
        /\ signal'.owner = w
    BY <1>6 DEF StartGeneration, ClaimSignal, TypeOK, Signal
  <2>2. run'[w].pc = "claimed" /\ OthersKept(w) /\ ops' = ops /\ debt' = debt
    BY <1>6 DEF StartGeneration, OthersKept, TypeOK, Run
  <2>3. Owing => Owing'
    BY <1>6, <2>2 DEF StartGeneration, Owing, OthersKept
  <2>4. RunSnapshot'
    BY <2>1, <2>2 DEF Covered, RunSnapshot, OthersKept, Asked
  <2>5. OpSnapshot' /\ ReplaySafe'
    BY <2>1, <2>2, <2>3 DEF Covered, OpSnapshot, ReplaySafe, Asked
  <2>6. Visited'
    BY <2>1, <2>2 DEF Visited, Current
  <2>7. NoLostWork'
    BY <2>1, <2>2, <2>3 DEF Covered, NoLostWork
  <2> QED
    BY <2>4, <2>5, <2>6, <2>7 DEF Covered
<1>7. CASE NothingToClaim(w)
  <2>1. OthersKept(w) /\ run'[w].pc = "end" /\ run[w].pc = "ready"
    BY <1>7, GotoKeeps DEF NothingToClaim
  <2> QED
    BY <1>7, <1>g, <1>s, <1>o, <1>d, <1>k, <2>1, LeaveQuiet DEF NothingToClaim
<1>8. CASE EndCycle(w)
  <2>1. OthersKept(w) /\ run'[w].pc = "off" /\ run[w].pc = "end"
    BY <1>8 DEF EndCycle, OthersKept, TypeOK, Off
  <2> QED
    BY <1>8, <1>g, <1>s, <1>o, <1>d, <1>k, <2>1, LeaveQuiet DEF EndCycle
<1>9. CASE ListCameras(w)
  <2>1. /\ OthersKept(w) /\ run[w].pc = "claimed" /\ run'[w].pc = "scan"
        /\ run'[w].claimed = run[w].claimed
        /\ run'[w].todo = Camera /\ run'[w].fresh = Camera
    BY <1>9 DEF ListCameras, OthersKept, TypeOK, Run
  <2>2. NoneStarts /\ SnapshotsKept
    BY <1>g, <2>1 DEF NoneStarts, SnapshotsKept, OthersKept
  <2>3. StillOwing
    BY <2>1 DEF StillOwing, Owing, OthersKept
  <2>4. NoneForgotten
    BY <2>1 DEF NoneForgotten, OthersKept, Ahead, At
  <2> QED
    BY <1>9, <1>s, <1>o, <1>d, <1>k, <2>2, <2>3, <2>4 DEF ListCameras, Quiet
<1>10. CASE OweAdvance(w)
  BY <1>10, <1>g, <1>a, GotoMoves DEF OweAdvance
<1>11. CASE YieldToPressure(w)
  <2>1. Asks
    BY <1>11, Numbers DEF YieldToPressure, Asks, TypeOK, Signal
  <2>2. Quiet
    <3>1. Goto(w, "yielding") /\ run[w].pc = "between"
      BY <1>11 DEF YieldToPressure
    <3> QED
      BY <1>g, <3>1, GotoKeeps, StayQuiet
  <2> QED
    BY <1>11, <1>o, <1>d, <1>k, <2>1, <2>2 DEF YieldToPressure
<1>12. CASE AdvanceAndStop(w)
  <2>1. NoneStarts
    BY <1>12, <1>g DEF AdvanceAndStop, NoneStarts, TypeOK, Run
  <2> QED
    BY <1>12, <1>a, <2>1 DEF AdvanceAndStop
<1>13. CASE EndGeneration(w)
  <2> DEFINE consumed == Larger(signal.consumed, run[w].claimed)
  <2>1. /\ signal'.requested = signal.requested /\ signal'.consumed = consumed
        /\ signal'.status # "running"
    BY <1>13 DEF EndGeneration, Acknowledge, TypeOK, Signal
  <2>2. /\ OthersKept(w) /\ run[w].pc = "scan" /\ run'[w].pc = "end"
        /\ ops' = ops /\ debt' = debt
    BY <1>13 DEF EndGeneration, OthersKept, TypeOK, Off
  <2>3. Owing => Owing'
    BY <2>2 DEF Owing, OthersKept
  <2>4. ASSUME NEW c \in Camera, debt[c] = "owed"
        PROVE  signal.requested > consumed \/ Owing
    <3>1. Current(w) /\ run[w].todo = {}
      BY <1>13, <1>g, <2>2 DEF EndGeneration, SignalOwned, Current
    <3>2. Asked(run[w].claimed) \/ Owing
      BY <2>2, <2>4, <3>1 DEF Covered, Visited, Ahead
    <3>3. signal.requested > signal.consumed
      BY <3>1, Numbers DEF StatusTruthful, Current
    <3> QED
      BY <3>2, <3>3 DEF Asked, Larger
  <2> HIDE DEF consumed
  <2>5. RunSnapshot'
    BY <1>g, <2>1, <2>2 DEF Covered, RunSnapshot, OthersKept, Asked
  <2>6. OpSnapshot' /\ ReplaySafe'
    BY <2>1, <2>2, <2>3 DEF Covered, OpSnapshot, ReplaySafe, Asked
  <2>7. Visited'
    BY <2>1 DEF Visited, Current
  <2>8. NoLostWork'
    BY <2>1, <2>2, <2>3, <2>4 DEF NoLostWork
  <2> QED
    BY <2>5, <2>6, <2>7, <2>8 DEF Covered
<1>14. CASE SignalLost(w)
  <2>1. OthersKept(w) /\ run'[w].pc \notin Generation /\ run[w].pc # "owing"
    BY <1>14, AbortKeeps DEF SignalLost
  <2> QED
    BY <1>14, <1>s, <1>o, <1>d, <1>k, <2>1, LeaveQuiet DEF SignalLost
<1> QED
  BY <1>1, <1>2, <1>3, <1>4, <1>5, <1>6, <1>7, <1>8, <1>9, <1>10, <1>11, <1>12,
     <1>13, <1>14 DEF Cycle

\* What is owed when an operation is over has been asked for, or is about to be.
LEMMA FinishCovered ==
    ASSUME TypeOK, NEW w \in Worker, NEW c \in Camera, FinishOperation(w, c),
           debt'[c] = "owed" => Asked(run[w].claimed) \/ Owing'
    PROVE  OpsCovered
<1>1. \A x \in Camera \X Watermark :
          ops'[x] = IF x = OpOf(w, c) THEN TerminalOp ELSE ops[x]
  BY IndexOf DEF FinishOperation, TypeOK
<1> QED
  BY <1>1, IndexOf DEF OpsCovered, TerminalOp, NoOp

\* A thread leaves a camera that is owed nothing, or whose debt has been asked for.
LEMMA LeaveCameraQuiet ==
    ASSUME TypeOK, NEW w \in Worker, NEW c \in Camera, At(w, c), NoNewDebt,
           run' = [run EXCEPT ![w] = Left(w, c)],
           run[w].pc \in Generation \ {"claimed", "owing"},
           Ahead(w, c) /\ debt'[c] = "owed" => Asked(run[w].claimed)
    PROVE  Quiet
<1>1. /\ OthersKept(w) /\ run'[w].pc = "scan"
      /\ run'[w].claimed = run[w].claimed
      /\ run'[w].todo = run[w].todo \ {c} /\ run'[w].fresh = run[w].fresh \ {c}
  BY DEF Left, OthersKept, TypeOK, Run
<1>2. NoneStarts /\ SnapshotsKept
  BY <1>1 DEF NoneStarts, SnapshotsKept, OthersKept
<1>3. StillOwing
  BY <1>1 DEF StillOwing, Owing, OthersKept
<1>4. NoneForgotten
  <2> SUFFICES ASSUME NEW v \in Worker, NEW e \in Camera, debt'[e] = "owed",
                      run'[v].pc \in Generation \ {"claimed"}, ~Ahead(v, e)'
               PROVE  (run[v].pc # "claimed" /\ ~Ahead(v, e)) \/ Asked(run[v].claimed)
    BY DEF NoneForgotten
  <2>1. CASE v # w
    BY <1>1, <2>1 DEF OthersKept, Ahead, At
  <2>2. CASE v = w
    <3>1. e \notin run[w].todo \/ e = c
      BY <1>1, <2>2 DEF Ahead
    <3> QED
      BY <2>2, <3>1 DEF Ahead
  <2> QED
    BY <2>1, <2>2
<1> QED
  BY <1>2, <1>3, <1>4 DEF Quiet

\* So do the steps of a visit.
LEMMA VisitCovered ==
    ASSUME TypeOK, TypeOK', Known, Covered,
           NEW w \in Worker, NEW c \in Camera, Visit(w, c)
    PROVE  Covered'
<1>g. /\ {"judge", "scan", "held", "deleting", "owing", "between"} \subseteq Generation
      /\ {"judge", "scan", "held", "deleting", "between"} \cap {"claimed", "owing"} = {}
  BY DEF Generation, Pc
<1>s. signal' = signal => Asks
  BY Numbers DEF Asks, TypeOK, Signal
<1>o. ops' = ops => OpsCovered
  BY DEF OpsCovered
<1>d. debt' = debt => NoNewDebt
  BY DEF NoNewDebt
<1>k. Asks /\ Quiet /\ NoNewDebt /\ OpsCovered => Covered'
  BY QuietCovered DEF Quiet
<1>h. ASSUME NEW pc \in Generation \ {"between"}, Goto(w, pc),
             run[w].pc \in Generation \ {"claimed", "owing"}
      PROVE  Quiet
  BY <1>h, GotoKeeps, StayQuiet
<1>b. ASSUME Goto(w, "between"), run[w].pc \in Generation \ {"claimed", "owing"},
             At(w, c), debt'[c] = "owed" => Asked(run[w].claimed) \/ Owing
      PROVE  Quiet
  <2>1. \A e \in Camera : At(w, e) => e = c
    BY <1>b, OneAtHand
  <2> QED
    BY <1>b, <2>1, GotoKeeps, StayQuiet
<1>w. Goto(w, "owing") => Owing'
  BY GotoKeeps DEF Owing
<1>1. CASE ReadRules(w, c)
  <2>1. /\ OthersKept(w) /\ run[w].pc = "scan" /\ run'[w].pc = "judge"
        /\ run'[w].claimed = run[w].claimed
        /\ run'[w].todo = run[w].todo /\ run'[w].fresh = run[w].fresh
    BY <1>1 DEF ReadRules, OthersKept, TypeOK, Run
  <2>2. Quiet
    BY <1>g, <2>1, StayQuiet
  <2> QED
    BY <1>1, <1>s, <1>o, <1>d, <1>k, <2>2 DEF ReadRules
<1>2. CASE Replay(w, c)
  <2>1. debt'[c] = "owed" => Asked(run[w].claimed) \/ Owing
    BY <1>2, IndexOf DEF Replay, Covered, ReplaySafe
  <2>2. Quiet
    BY <1>2, <1>g, <1>b, <2>1 DEF Replay
  <2> QED
    BY <1>2, <1>s, <1>o, <1>d, <1>k, <2>2 DEF Replay
<1>3. CASE Compliant(w, c)
  <2>1. NoNewDebt
    BY <1>3 DEF Compliant, Settle, NoNewDebt, TypeOK
  <2>2. debt'[c] = "owed" => Asked(run[w].claimed)
    BY <1>3, <1>g DEF Compliant, Settle, TypeOK, Covered, RunSnapshot, At
  <2>3. Quiet
    BY <1>3, <1>g, <1>b, <2>2 DEF Compliant
  <2> QED
    BY <1>3, <1>s, <1>o, <1>k, <2>1, <2>3 DEF Compliant
<1>4. CASE Contended(w, c)
  <2>1. Quiet
    BY <1>4, <1>g, <1>h DEF Contended
  <2> QED
    BY <1>4, <1>s, <1>o, <1>d, <1>k, <2>1 DEF Contended
<1>5. CASE ClaimOperation(w, c)
  <2>1. Quiet
    BY <1>5, <1>g, <1>h DEF ClaimOperation
  <2>2. debt[c] = "owed" /\ c \notin run[w].fresh => Asked(run[w].claimed)
    BY <1>5, <1>g DEF ClaimOperation, Covered, RunSnapshot, At
  <2>3. \A x \in Camera \X Watermark \ {OpOf(w, c)} : ops'[x] = ops[x]
    BY <1>5, IndexOf DEF ClaimOperation, TypeOK
  <2>4. /\ ops'[OpOf(w, c)].state = "running"
        /\ ~ops'[OpOf(w, c)].fresh =>
               \/ ops[OpOf(w, c)].state = "running" /\ ~ops[OpOf(w, c)].fresh
               \/ c \notin run[w].fresh
    <3>1. ops[OpOf(w, c)] \in OpRow
      BY IndexOf DEF TypeOK
    <3> QED
      BY <1>5, <3>1, IndexOf DEF ClaimOperation, TypeOK, OpRow
  <2>5. OpsCovered
    <3> SUFFICES ASSUME NEW x \in Camera \X Watermark, debt'[x[1]] = "owed"
                 PROVE  /\ ops'[x].state = "running" /\ ~ops'[x].fresh =>
                              (ops[x].state = "running" /\ ~ops[x].fresh) \/ Asked(x[2])
                        /\ ops'[x].state = "terminal" =>
                              ops[x].state = "terminal" \/ Asked(x[2]) \/ Owing'
      BY DEF OpsCovered
    <3>1. debt' = debt
      BY <1>5 DEF ClaimOperation
    <3>2. CASE x = OpOf(w, c)
      BY <2>2, <2>4, <3>1, <3>2, IndexOf
    <3>3. CASE x # OpOf(w, c)
      BY <2>3, <3>3
    <3> QED
      BY <3>2, <3>3
  <2> QED
    BY <1>5, <1>s, <1>d, <1>k, <2>1, <2>5 DEF ClaimOperation
<1>6. CASE Supersede(w, c)
  <2>1. Quiet
    BY <1>6, <1>g, <1>h DEF Supersede
  <2>2. OpsCovered
    BY <1>6, <1>w, FinishCovered DEF Supersede
  <2> QED
    BY <1>6, <1>s, <1>d, <1>k, <2>1, <2>2 DEF Supersede
<1>7. CASE StartDeleting(w, c)
  <2>1. Quiet
    BY <1>7, <1>g, <1>h DEF StartDeleting
  <2> QED
    BY <1>7, <1>s, <1>o, <1>d, <1>k, <2>1 DEF StartDeleting
<1>8. CASE Complete(w, c)
  <2>1. NoNewDebt
    BY <1>8 DEF Complete, Settle, NoNewDebt, TypeOK
  <2>2. debt'[c] = "owed" => Asked(run[w].claimed)
    BY <1>8, IndexOf
       DEF Complete, Settle, TypeOK, Covered, OpSnapshot, FinishOperation, OperationOwned
  <2>3. Quiet
    BY <1>8, <1>g, <1>b, <2>2 DEF Complete
  <2>4. OpsCovered
    BY <1>8, <2>2, FinishCovered DEF Complete
  <2> QED
    BY <1>8, <1>s, <1>k, <2>1, <2>3, <2>4 DEF Complete
<1>9. CASE Preempt(w, c)
  <2>1. Quiet
    BY <1>9, <1>g, <1>h DEF Preempt
  <2>2. OpsCovered
    BY <1>9, <1>w, FinishCovered DEF Preempt
  <2> QED
    BY <1>9, <1>s, <1>d, <1>k, <2>1, <2>2 DEF Preempt
<1>10. CASE Fail(w, c)
  <2>1. NoNewDebt
    BY <1>10, <1>d DEF Fail, Settle, NoNewDebt, TypeOK
  <2>2. Quiet
    <3>1. OthersKept(w) /\ run'[w].pc \notin Generation /\ run[w].pc # "owing"
      BY <1>10, AbortKeeps DEF Fail
    <3> QED
      BY <2>1, <3>1, LeaveQuiet
  <2>3. OpsCovered
    <3>1. CASE OperationOwned(w, c)
      <4>1. FinishOperation(w, c) /\ debt'[c] # "owed"
        BY <1>10, <3>1 DEF Fail, Settle, TypeOK
      <4> QED
        BY <4>1, FinishCovered
    <3>2. CASE ~OperationOwned(w, c)
      BY <1>10, <1>o, <3>2 DEF Fail
    <3> QED
      BY <3>1, <3>2
  <2> QED
    BY <1>10, <1>s, <1>k, <2>1, <2>2, <2>3 DEF Fail
<1>11. CASE NextCamera(w, c)
  <2>1. Asks
    BY <1>11, Numbers DEF NextCamera, Asks, TypeOK, Signal
  <2>2. Quiet
    BY <1>11, <1>g, <1>d, LeaveCameraQuiet DEF NextCamera, Ahead
  <2> QED
    BY <1>11, <1>o, <1>d, <1>k, <2>1, <2>2 DEF NextCamera
<1>12. CASE SkipCamera(w, c)
  <2>1. NoNewDebt
    BY <1>12 DEF SkipCamera, Settle, NoNewDebt, TypeOK
  <2>2. debt'[c] = "owed" => Asked(run[w].claimed)
    BY <1>12, <1>g DEF SkipCamera, Settle, TypeOK, Covered, RunSnapshot, At
  <2>3. Quiet
    BY <1>12, <1>g, <2>1, <2>2, LeaveCameraQuiet DEF SkipCamera
  <2> QED
    BY <1>12, <1>s, <1>o, <1>k, <2>1, <2>3 DEF SkipCamera
<1> QED
  BY <1>1, <1>2, <1>3, <1>4, <1>5, <1>6, <1>7, <1>8, <1>9, <1>10, <1>11,
     <1>12 DEF Visit

\* What happens around the cycle loses no wake-up either, unless a crash does.
LEMMA AroundCovered ==
    ASSUME TypeOK, TypeOK', Known, Covered,
           \/ \E c \in Camera : EditRules(c) \/ FinalizeSegment(c)
           \/ \E c \in Camera : ToggleCamera(c)
           \/ \E w \in Worker : RecoveryDue(w)
           \/ Lapse
    PROVE  Covered'
<1>s. signal' = signal => Asks
  BY Numbers DEF Asks, TypeOK, Signal
<1>o. ops' = ops => OpsCovered
  BY DEF OpsCovered
<1>d. debt' = debt => NoNewDebt
  BY DEF NoNewDebt
<1>k. Asks /\ Quiet /\ NoNewDebt /\ OpsCovered => Covered'
  BY QuietCovered DEF Quiet
<1>1. CASE \E c \in Camera : EditRules(c) \/ FinalizeSegment(c)
  <2> PICK c \in Camera : EditRules(c) \/ FinalizeSegment(c)
    BY <1>1
  <2>1. Advances
    BY ChangeAdvances
  <2>2. /\ NoneStarts
        /\ \A x \in Camera \X Watermark : ops'[x].state # "none" => ops[x].state # "none"
    BY ChangeKeeps DEF NoneStarts
  <2> QED
    BY <2>1, <2>2, AdvanceCovers
<1>t. CASE \E c \in Camera : ToggleCamera(c)
  <2> PICK c \in Camera : ToggleCamera(c)
    BY <1>t
  <2>1. Quiet
    BY ToggleKeeps, SameQuiet
  <2>2. OpsCovered
    BY ToggleKeeps DEF OpsCovered, ToggleCamera
  <2> QED
    BY <1>s, <1>d, <1>k, <2>1, <2>2 DEF ToggleCamera
<1>2. CASE \E w \in Worker : RecoveryDue(w)
  BY <1>2, <1>s, <1>o, <1>d, <1>k, IdleQuiet DEF RecoveryDue
<1>3. CASE LapseLeader
  BY <1>3, <1>s, <1>o, <1>d, <1>k, IdleQuiet DEF LapseLeader
<1>4. CASE LapseSignal
  <2>1. Asks
    BY <1>4, Numbers DEF LapseSignal, Asks, TypeOK, Signal
  <2> QED
    BY <1>4, <1>o, <1>d, <1>k, <2>1, IdleQuiet DEF LapseSignal
<1>5. CASE \E x \in Camera \X Watermark : LapseOperation(x)
  <2>1. OpsCovered
    BY <1>5 DEF LapseOperation, OpsCovered, TypeOK, OpRow
  <2> QED
    BY <1>5, <1>s, <1>d, <1>k, <2>1, IdleQuiet DEF LapseOperation
<1> QED
  BY <1>1, <1>t, <1>2, <1>3, <1>4, <1>5 DEF Lapse

\* Crashes are counted.
LEMMA CrashesCounted ==
    ASSUME TypeOK, [Next]_vars, spent'.crashes = 0
    PROVE  spent.crashes = 0 /\ \A w \in Worker : ~Crash(w)
<1>1. spent.crashes \in Nat /\ DOMAIN spent = DOMAIN Bound
  BY DEF TypeOK, Bound
<1>2. \A b \in DOMAIN Bound : Spend(b) =>
          spent'.crashes = spent.crashes + (IF b = "crashes" THEN 1 ELSE 0)
  BY <1>1 DEF Spend, Bound, TypeOK
<1>3. \/ spent' = spent
      \/ \E b \in DOMAIN Bound : Spend(b)
  <2>b. {"changes", "delays", "stalls", "crashes", "recoveries"} = DOMAIN Bound
    BY DEF Bound
  <2>1. CASE \E c \in Camera : EditRules(c) \/ FinalizeSegment(c)
    BY <2>b, <2>1, ChangeAdvances
  <2>t. CASE \E c \in Camera : ToggleCamera(c)
    BY <2>b, <2>t DEF ToggleCamera
  <2>2. CASE \E w \in Worker : RecoveryDue(w) \/ Crash(w)
    BY <2>b, <2>2 DEF RecoveryDue, Crash
  <2>3. CASE \E w \in Worker : Cycle(w)
    BY <2>b, <2>3
       DEF Cycle, BecomeLeader, NotLeader, PublishDue, ForceRecovery, LeaderLost,
           StartGeneration, NothingToClaim, EndCycle, ListCameras, OweAdvance,
           YieldToPressure, AdvanceAndStop, EndGeneration, SignalLost
  <2>4. CASE \E w \in Worker, c \in Camera : Visit(w, c)
    BY <2>b, <2>4
       DEF Visit, SkipCamera, ReadRules, Replay, Compliant, Contended, ClaimOperation, Supersede,
           StartDeleting, Complete, Preempt, Fail, NextCamera
  <2>5. CASE Lapse
    BY <2>b, <2>5 DEF Lapse, LapseLeader, LapseSignal, LapseOperation, Unattended
  <2>6. CASE UNCHANGED vars
    BY <2>6 DEF vars
  <2> QED
    BY <2>1, <2>t, <2>2, <2>3, <2>4, <2>5, <2>6 DEF Next
<1>4. spent.crashes = 0
  BY <1>1, <1>2, <1>3
<1>5. "crashes" \in DOMAIN Bound
  BY DEF Bound
<1>6. \A w \in Worker : ~Crash(w)
  BY <1>1, <1>2, <1>5 DEF Crash
<1> QED
  BY <1>4, <1>6

\* No wake-up is lost as long as no process has crashed.  A crash between
\* finishing an operation and advancing the signal, which are committed apart,
\* loses one.
THEOREM NoWakeUpLost == Spec => [](spent.crashes = 0 => NoLostWork)
<1> DEFINE Safe == spent.crashes = 0 => Covered
<1>1. Init => Safe
  BY DEF Init, Covered, RunSnapshot, OpSnapshot, ReplaySafe, Visited, NoLostWork
<1>2. Ordered /\ Ordered' /\ Safe /\ [Next]_vars => Safe'
  <2> SUFFICES ASSUME Ordered, Ordered', Safe, [Next]_vars, spent'.crashes = 0
               PROVE  Covered'
    OBVIOUS
  <2>1. Covered /\ \A w \in Worker : ~Crash(w)
    BY CrashesCounted DEF Ordered
  <2>2. CASE Next
    BY <2>1, <2>2, AroundCovered, CycleCovered, VisitCovered DEF Next, Ordered
  <2>3. CASE UNCHANGED vars
    BY <2>1, <2>3
       DEF vars, Covered, RunSnapshot, OpSnapshot, ReplaySafe, Visited, NoLostWork,
           Asked, Owing, Current, Ahead, At
  <2> QED
    BY <2>2, <2>3
<1>3. Safe => (spent.crashes = 0 => NoLostWork)
  BY DEF Covered
<1> HIDE DEF Safe
<1> QED
  BY <1>1, <1>2, <1>3, WatermarksOrdered, PTL DEF Spec
=============================================================================

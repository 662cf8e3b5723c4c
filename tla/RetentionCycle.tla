--------------------------- MODULE RetentionCycle ---------------------------
(***************************************************************************)
(* Automatic retention: the coalesced work signal "retention_evaluate"     *)
(* (StorageWorkSignal, services/storage_operations_foundation.py), the     *)
(* cycle of the background thread of each API process                      *)
(* (services/automatic_retention.py) and the generation it runs            *)
(* (services/retention_automation.py): one fenced operation per camera and *)
(* watermark.  Cameras are visited in the order of their ids.              *)
(*                                                                         *)
(* debt is what the signal exists for: a camera whose rules or recordings  *)
(* changed is owed an evaluation that began after the change; an           *)
(* evaluation that failed or found nothing it may delete leaves the camera *)
(* to the scheduled recovery.  The page loop of an operation is one step:  *)
(* only how it ends matters here.                                          *)
(***************************************************************************)
EXTENDS Naturals

CONSTANTS
    Camera,         \* ids of the cameras with recordings
    Worker,         \* the retention threads, one per API process
    NoWorker,       \* no owner
    MaxWatermark,   \* bound on the watermark
    DueWatermark,   \* the watermark of the earliest due moment
    SegmentWatermark, \* the watermark of a segment, its id
    StaleClock,     \* may a statement run with a database time in the past?
    MaxChanges,     \* bound on changes of rules and recordings
    MaxDelays,      \* bound on conflicts, failures and yields to disk pressure
    MaxStalls,      \* bound on leases a live process fails to renew
    MaxCrashes,     \* bound on crashes
    MaxRecoveries   \* bound on scheduled recoveries that come due

ASSUME CameraAssumption == Camera \subseteq Nat
ASSUME WorkerAssumption == NoWorker \notin Worker
ASSUME BoundAssumption ==
    /\ MaxWatermark \in Nat
    /\ {DueWatermark, SegmentWatermark} \subseteq 0 .. MaxWatermark
    /\ StaleClock \in BOOLEAN
    /\ {MaxChanges, MaxDelays, MaxStalls, MaxCrashes, MaxRecoveries} \subseteq Nat

VARIABLES
    signal,    \* the row of the work signal
    leader,    \* the worker lease row "automatic-retention"
    ops,       \* the operation of each camera and watermark
    debt,      \* what each camera is owed
    run,       \* what each thread is doing
    recover,   \* whether the scheduled recovery of each thread is due
    spent      \* how much of each bound is used up

vars == <<signal, leader, ops, debt, run, recover, spent>>

-----------------------------------------------------------------------------
Watermark == 0 .. MaxWatermark
Owner == Worker \cup {NoWorker}

Signal == [status : {"idle", "pending", "running"}, requested : Watermark,
           consumed : Watermark, claimed : Watermark, owner : Owner, live : BOOLEAN]

\* kept: the stored policy snapshot equals the camera's rules; fresh: nothing
\* about the camera changed since the generation of the snapshot read it.
OpRow == [state : {"none", "running", "terminal"}, owner : Owner,
          live : BOOLEAN, kept : BOOLEAN, fresh : BOOLEAN]
NoOp == [state |-> "none", owner |-> NoWorker, live |-> FALSE,
         kept |-> FALSE, fresh |-> FALSE]
TerminalOp == [NoOp EXCEPT !.state = "terminal"]

Pc == {"off", "led", "forcing", "ready", "claimed", "scan", "judge", "held", "deleting",
       "owing", "between", "yielding", "end"}
Run == [pc : Pc, forced : BOOLEAN, claimed : Watermark,
        todo : SUBSET Camera, kept : SUBSET Camera, fresh : SUBSET Camera]
Off == [pc |-> "off", forced |-> FALSE, claimed |-> 0,
        todo |-> {}, kept |-> {}, fresh |-> {}]

Bound == [changes |-> MaxChanges, delays |-> MaxDelays, stalls |-> MaxStalls,
          crashes |-> MaxCrashes, recoveries |-> MaxRecoveries]
Spend(what) ==
    /\ spent[what] < Bound[what]
    /\ spent' = [spent EXCEPT ![what] = @ + 1]

\* The thread runs a generation, with a WorkSignalHandle.
Generation == Pc \ {"off", "led", "forcing", "ready", "end"}
SeenLive(live) == live \/ StaleClock
Larger(m, n) == IF m > n THEN m ELSE n

\* The camera at hand.
At(w, c) == c \in run[w].todo /\ \A d \in run[w].todo : c <= d
OpOf(w, c) == <<c, run[w].claimed>>

\* Slip: whoever owns the signal now, the handle is taken for valid.
SignalOwnedByAny(w) == signal.status = "running"

\* acknowledge_work_signal and heartbeat_work_signal match status, token, fence
\* and lease.
SignalOwned(w) ==
    /\ signal.status = "running"
    /\ signal.owner = w
    /\ SeenLive(signal.live)

OperationOwned(w, c) ==
    LET op == ops[OpOf(w, c)] IN
    op.state = "running" /\ op.owner = w /\ SeenLive(op.live)

\* Some operation of the camera holds a lease, which conflicts with a new one.
Busy(c) == \E k \in Watermark : ops[<<c, k>>].state = "running" /\ ops[<<c, k>>].live

Init ==
    /\ signal = [status |-> "idle", requested |-> 0, consumed |-> 0,
                 claimed |-> 0, owner |-> NoWorker, live |-> FALSE]
    /\ leader = [owner |-> NoWorker, live |-> FALSE]
    /\ ops = [x \in Camera \X Watermark |-> NoOp]
    /\ debt = [c \in Camera |-> "none"]
    /\ run = [w \in Worker |-> Off]
    /\ recover = [w \in Worker |-> TRUE]
    /\ spent = [b \in DOMAIN Bound |-> 0]

Goto(w, pc) == run' = [run EXCEPT ![w].pc = pc]

-----------------------------------------------------------------------------
(* The signal.                                                             *)

\* advance_work_signal (n = 0), also run inside the transactions of other services,
\* and the recorder's form of it, which goes up to n at least.
Advance(n) ==
    /\ signal.requested < MaxWatermark
    /\ signal' = [signal EXCEPT !.requested = Larger(@ + 1, n),
                                !.status = IF @ = "running" THEN @ ELSE "pending"]

\* Slip: publishing marks the signal pending whatever is left to consume.
PublishPending(n) ==
    signal' = [signal EXCEPT
        !.requested = Larger(@, n),
        !.status = IF @ = "running" THEN @ ELSE "pending"]

\* publish_work_signal.
Publish(n) ==
    LET requested == Larger(signal.requested, n) IN
    signal' = [signal EXCEPT
        !.requested = requested,
        !.status = IF @ # "running" /\ requested > signal.consumed THEN "pending" ELSE @]

\* Slip: a claim that ran out is never taken over.
ClaimablePending ==
    signal.status = "pending" /\ signal.requested > signal.consumed

Claimable ==
    /\ signal.requested > signal.consumed
    /\ ~(signal.status = "running" /\ signal.live)

\* claim_work_signal.
ClaimSignal(w) ==
    signal' = [signal EXCEPT !.status = "running", !.claimed = signal.requested,
                             !.owner = w, !.live = TRUE]

\* Slip: the acknowledgement consumes all that is requested by now.
AcknowledgeAll(w) ==
    signal' = [signal EXCEPT !.consumed = signal.requested, !.status = "idle",
                             !.claimed = 0, !.owner = NoWorker, !.live = FALSE]

\* acknowledge_work_signal.
Acknowledge(w) ==
    LET consumed == Larger(signal.consumed, run[w].claimed) IN
    signal' = [signal EXCEPT
        !.consumed = consumed,
        !.status = IF signal.requested > consumed THEN "pending" ELSE "idle",
        !.claimed = 0, !.owner = NoWorker, !.live = FALSE]

-----------------------------------------------------------------------------
(* What happens around it.                                                 *)

\* The transaction that changes a camera also advances the signal.
Change(c, n) ==
    /\ Spend("changes")
    /\ Advance(n)
    /\ debt' = [debt EXCEPT ![c] = "owed"]
    /\ UNCHANGED <<leader, recover>>

\* A rule of the camera changes: no snapshot taken so far equals the rules.
EditRules(c) ==
    /\ Change(c, 0)
    /\ ops' = [x \in Camera \X Watermark |->
                IF x[1] = c THEN [ops[x] EXCEPT !.kept = FALSE, !.fresh = FALSE] ELSE ops[x]]
    /\ run' = [w \in Worker |->
                [run[w] EXCEPT !.kept = @ \ {c}, !.fresh = @ \ {c}]]

\* The camera is switched on or off: its snapshots no longer match, and the signal
\* is left alone, for what the camera is owed is the same.  Switching there and
\* back is as if nothing happened.
ToggleCamera(c) ==
    /\ Spend("changes")
    /\ ops' = [x \in Camera \X Watermark |->
                IF x[1] = c THEN [ops[x] EXCEPT !.kept = FALSE] ELSE ops[x]]
    /\ run' = [w \in Worker |-> [run[w] EXCEPT !.kept = @ \ {c}]]
    /\ UNCHANGED <<signal, leader, debt, recover>>

\* The recorder finalizes a segment, beyond every high watermark read so far.
FinalizeSegment(c) ==
    /\ \E n \in {0, SegmentWatermark} : Change(c, n)
    /\ ops' = [x \in Camera \X Watermark |->
                IF x[1] = c THEN [ops[x] EXCEPT !.fresh = FALSE] ELSE ops[x]]
    /\ run' = [w \in Worker |-> [run[w] EXCEPT !.fresh = @ \ {c}]]

\* automatic_retention_interval_seconds have passed since the last recovery: an
\* hour by default, which outlasts the leases a dead process left behind.
RecoveryDue(w) ==
    /\ ~recover[w]
    /\ leader.live => \E v \in Worker : leader.owner = v /\ run[v].pc # "off"
    /\ Spend("recoveries")
    /\ recover' = [recover EXCEPT ![w] = TRUE]
    /\ UNCHANGED <<signal, leader, ops, debt, run>>

-----------------------------------------------------------------------------
(* run_automatic_retention_cycle.  An exception anywhere ends the cycle,   *)
(* releases the leader lease if it is still the thread's, and leaves the   *)
(* signal, if claimed, to run out.                                         *)

LeaderOwned(w) == leader.owner = w /\ leader.live
ReleaseLeader(w) ==
    leader' = IF leader.owner = w THEN [leader EXCEPT !.live = FALSE] ELSE leader

Abort(w) ==
    /\ run' = [run EXCEPT ![w] = Off]
    /\ ReleaseLeader(w)
    /\ UNCHANGED recover

\* Becoming the leader; next_recovery_at is read before.
BecomeLeader(w) ==
    /\ run[w].pc = "off"
    /\ ~leader.live
    /\ leader' = [owner |-> w, live |-> TRUE]
    /\ run' = [run EXCEPT ![w] = [Off EXCEPT !.pc = "led", !.forced = recover[w]]]
    /\ UNCHANGED <<signal, ops, debt, recover, spent>>

\* Another thread leads.  The cycle returns "not_leader" as if it had run: a
\* recovery that was due is over.
NotLeader(w) ==
    /\ run[w].pc = "off"
    /\ leader.live
    /\ recover' = [recover EXCEPT ![w] = FALSE]
    /\ UNCHANGED <<signal, leader, ops, debt, run, spent>>

\* ensure_retention_signal and publish_due_retention_signal.
PublishDue(w) ==
    /\ run[w].pc = "led"
    /\ \E n \in {0, DueWatermark} : Publish(n)
    /\ Goto(w, IF run[w].forced THEN "forcing" ELSE "ready")
    /\ UNCHANGED <<leader, ops, debt, recover, spent>>

ForceRecovery(w) ==
    /\ run[w].pc = "forcing"
    /\ Advance(0)
    /\ Goto(w, "ready")
    /\ UNCHANGED <<leader, ops, debt, recover, spent>>

\* assert_owned of the heartbeat, before the signal is touched and after the
\* generation.
LeaderLost(w) ==
    /\ run[w].pc \in {"led", "end"}
    /\ ~LeaderOwned(w)
    /\ Abort(w)
    /\ UNCHANGED <<signal, ops, debt, spent>>

StartGeneration(w) ==
    /\ run[w].pc = "ready"
    /\ Claimable
    /\ ClaimSignal(w)
    /\ run' = [run EXCEPT ![w] =
                [@ EXCEPT !.pc = "claimed", !.claimed = signal.requested]]
    /\ UNCHANGED <<leader, ops, debt, recover, spent>>

NothingToClaim(w) ==
    /\ run[w].pc = "ready"
    /\ ~Claimable
    /\ Goto(w, "end")
    /\ UNCHANGED <<signal, leader, ops, debt, recover, spent>>

\* After the generation: next_recovery_at moves if this cycle was the recovery.
EndCycle(w) ==
    /\ run[w].pc = "end"
    /\ recover' = [recover EXCEPT ![w] = @ /\ ~run[w].forced]
    /\ run' = [run EXCEPT ![w] = Off]
    /\ ReleaseLeader(w)
    /\ UNCHANGED <<signal, ops, debt, spent>>

-----------------------------------------------------------------------------
(* run_retention_signal_generation.                                        *)

\* The high watermark and the cameras are read after the claim.
ListCameras(w) ==
    /\ run[w].pc = "claimed"
    /\ run' = [run EXCEPT ![w] =
                [@ EXCEPT !.pc = "scan", !.todo = Camera, !.fresh = Camera]]
    /\ UNCHANGED <<signal, leader, ops, debt, recover, spent>>

\* camera_policy_snapshot.
ReadRules(w, c) ==
    /\ run[w].pc = "scan"
    /\ At(w, c)
    /\ run' = [run EXCEPT ![w] =
                [@ EXCEPT !.pc = "judge", !.kept = run[w].kept \cup {c}]]
    /\ UNCHANGED <<signal, leader, ops, debt, recover, spent>>

\* The evaluation is over; it settles the debt if it saw the last change.
Settle(c, fresh, outcome) ==
    debt' = [debt EXCEPT ![c] = IF fresh THEN outcome ELSE @]

\* The camera is done with.
Left(w, c) ==
    [run[w] EXCEPT !.pc = "scan", !.todo = @ \ {c}, !.kept = @ \ {c}, !.fresh = @ \ {c}]

\* A camera deleted meanwhile, or without rules, is passed over.
SkipCamera(w, c) ==
    /\ run[w].pc = "scan"
    /\ At(w, c)
    /\ Settle(c, c \in run[w].fresh, "none")
    /\ run' = [run EXCEPT ![w] = Left(w, c)]
    /\ UNCHANGED <<signal, leader, ops, recover, spent>>

\* The operation of this watermark is over: its result is replayed.
Replay(w, c) ==
    /\ run[w].pc = "judge"
    /\ At(w, c)
    /\ ops[OpOf(w, c)].state = "terminal"
    /\ Goto(w, "between")
    /\ UNCHANGED <<signal, leader, ops, debt, recover, spent>>

\* No operation yet and no violation: nothing is recorded.
Compliant(w, c) ==
    /\ run[w].pc = "judge"
    /\ At(w, c)
    /\ ops[OpOf(w, c)].state = "none"
    /\ Settle(c, c \in run[w].fresh, "none")
    /\ Goto(w, "between")
    /\ UNCHANGED <<signal, leader, ops, recover, spent>>

\* A conflicting operation, or a live owner of this one: retryable.
Contended(w, c) ==
    /\ run[w].pc = "judge"
    /\ At(w, c)
    /\ ops[OpOf(w, c)].state # "terminal"
    /\ Spend("delays")
    /\ Goto(w, "owing")
    /\ UNCHANGED <<signal, leader, ops, debt, recover>>

\* _claim_camera_operation: a new operation with the snapshot just read, or the
\* interrupted one with the snapshot it stored.
ClaimOperation(w, c) ==
    LET x == OpOf(w, c) IN
    /\ run[w].pc = "judge"
    /\ At(w, c)
    /\ ops[x].state # "terminal"
    /\ ~Busy(c)
    /\ ops' = [ops EXCEPT ![x] =
                IF @.state = "running"
                THEN [@ EXCEPT !.owner = w, !.live = TRUE]
                ELSE [state |-> "running", owner |-> w, live |-> TRUE,
                      kept |-> c \in run[w].kept, fresh |-> c \in run[w].fresh]]
    /\ Goto(w, "held")
    /\ UNCHANGED <<signal, leader, debt, recover, spent>>

\* finish_operation.
FinishOperation(w, c) ==
    /\ OperationOwned(w, c)
    /\ ops' = [ops EXCEPT ![OpOf(w, c)] = TerminalOp]

\* The stored snapshot differs from the rules: nothing is deleted under it.
Supersede(w, c) ==
    /\ run[w].pc = "held"
    /\ At(w, c)
    /\ ~ops[OpOf(w, c)].kept
    /\ FinishOperation(w, c)
    /\ Goto(w, "owing")
    /\ UNCHANGED <<signal, leader, debt, recover, spent>>

StartDeleting(w, c) ==
    /\ run[w].pc = "held"
    /\ At(w, c)
    /\ ops[OpOf(w, c)].kept
    /\ Goto(w, "deleting")
    /\ UNCHANGED <<signal, leader, ops, debt, recover, spent>>

\* The page loop ends without violation, or with nothing it may delete.
Complete(w, c) ==
    /\ run[w].pc = "deleting"
    /\ At(w, c)
    /\ FinishOperation(w, c)
    /\ \E outcome \in {"none", "scheduled"} :
           Settle(c, ops[OpOf(w, c)].fresh, outcome)
    /\ Goto(w, "between")
    /\ UNCHANGED <<signal, leader, recover, spent>>

\* Disk pressure ends the page loop early; the signal is advanced afterwards.
Preempt(w, c) ==
    /\ run[w].pc = "deleting"
    /\ At(w, c)
    /\ SignalOwned(w)
    /\ FinishOperation(w, c)
    /\ Spend("delays")
    /\ Goto(w, "owing")
    /\ UNCHANGED <<signal, leader, debt, recover>>

\* An exception in the operation, a lost lease among them: it is finished as
\* failed, which fails too if the operation is no longer the thread's.
Fail(w, c) ==
    /\ run[w].pc \in {"held", "deleting"}
    /\ At(w, c)
    /\ IF SignalOwned(w) /\ signal.live /\ OperationOwned(w, c) /\ ops[OpOf(w, c)].live
       THEN Spend("delays") ELSE UNCHANGED spent
    /\ IF OperationOwned(w, c)
       THEN FinishOperation(w, c) /\ Settle(c, debt[c] = "owed", "scheduled")
       ELSE UNCHANGED <<ops, debt>>
    /\ Abort(w)
    /\ UNCHANGED signal

\* advance_retention_signal for work left undone; it needs no ownership.
OweAdvance(w) ==
    /\ run[w].pc = "owing"
    /\ Advance(0)
    /\ Goto(w, "between")
    /\ UNCHANGED <<leader, ops, debt, recover, spent>>

\* heartbeat_work_signal between two cameras.
NextCamera(w, c) ==
    /\ run[w].pc = "between"
    /\ At(w, c)
    /\ SignalOwned(w)
    /\ signal' = [signal EXCEPT !.live = TRUE]
    /\ run' = [run EXCEPT ![w] = Left(w, c)]
    /\ UNCHANGED <<leader, ops, debt, recover, spent>>

\* Disk pressure ends the generation early.
YieldToPressure(w) ==
    /\ run[w].pc = "between"
    /\ SignalOwned(w)
    /\ signal' = [signal EXCEPT !.live = TRUE]
    /\ Spend("delays")
    /\ Goto(w, "yielding")
    /\ UNCHANGED <<leader, ops, debt, recover>>

AdvanceAndStop(w) ==
    /\ run[w].pc = "yielding"
    /\ Advance(0)
    /\ run' = [run EXCEPT ![w] =
                [@ EXCEPT !.pc = "scan", !.todo = {}, !.kept = {}, !.fresh = {}]]
    /\ UNCHANGED <<leader, ops, debt, recover, spent>>

EndGeneration(w) ==
    /\ run[w].pc = "scan"
    /\ run[w].todo = {}
    /\ SignalOwned(w)
    /\ Acknowledge(w)
    /\ run' = [run EXCEPT ![w] = [Off EXCEPT !.pc = "end", !.forced = run[w].forced]]
    /\ UNCHANGED <<leader, ops, debt, recover, spent>>

\* A heartbeat or the acknowledgement finds the signal lost.
SignalLost(w) ==
    /\ \/ run[w].pc = "between"
       \/ run[w].pc = "scan" /\ run[w].todo = {}
    /\ ~(SignalOwned(w) /\ signal.live)
    /\ Abort(w)
    /\ UNCHANGED <<signal, ops, debt, spent>>

-----------------------------------------------------------------------------
(* Crashes and leases that run out.  The lease of a dead or departed owner *)
(* always does; that of a live one if its thread stalls.                   *)

\* The process dies, and recovers when it is started again, or the database fails
\* the thread and its cycle ends without having released anything.
Crash(w) ==
    /\ run[w].pc # "off"
    /\ Spend("crashes")
    /\ run' = [run EXCEPT ![w] = Off]
    /\ \E restarted \in BOOLEAN : recover' = [recover EXCEPT ![w] = @ \/ restarted]
    /\ UNCHANGED <<signal, leader, ops, debt>>

Unattended(attended) == IF attended THEN Spend("stalls") ELSE UNCHANGED spent

LapseLeader ==
    /\ leader.live
    /\ Unattended(\E w \in Worker : leader.owner = w /\ run[w].pc # "off")
    /\ leader' = [leader EXCEPT !.live = FALSE]
    /\ UNCHANGED <<signal, ops, debt, run, recover>>

LapseSignal ==
    /\ signal.live
    /\ Unattended(\E w \in Worker : signal.owner = w /\ run[w].pc \in Generation)
    /\ signal' = [signal EXCEPT !.live = FALSE]
    /\ UNCHANGED <<leader, ops, debt, run, recover>>

LapseOperation(x) ==
    /\ ops[x].live
    /\ Unattended(\E w \in Worker : /\ ops[x].owner = w
                                     /\ run[w].pc \in {"held", "deleting"}
                                     /\ run[w].claimed = x[2]
                                     /\ At(w, x[1]))
    /\ ops' = [ops EXCEPT ![x].live = FALSE]
    /\ UNCHANGED <<signal, leader, debt, run, recover>>

-----------------------------------------------------------------------------
Visit(w, c) ==
    \/ SkipCamera(w, c) \/ ReadRules(w, c) \/ Replay(w, c) \/ Compliant(w, c)
    \/ Contended(w, c) \/ ClaimOperation(w, c) \/ Supersede(w, c) \/ StartDeleting(w, c)
    \/ Complete(w, c) \/ Preempt(w, c) \/ Fail(w, c) \/ NextCamera(w, c)

Cycle(w) ==
    \/ BecomeLeader(w) \/ NotLeader(w) \/ PublishDue(w) \/ ForceRecovery(w)
    \/ LeaderLost(w) \/ StartGeneration(w) \/ NothingToClaim(w) \/ EndCycle(w)
    \/ ListCameras(w) \/ OweAdvance(w) \/ YieldToPressure(w) \/ AdvanceAndStop(w)
    \/ EndGeneration(w) \/ SignalLost(w)

Lapse == LapseLeader \/ LapseSignal \/ \E x \in Camera \X Watermark : LapseOperation(x)

Next ==
    \/ \E c \in Camera : EditRules(c) \/ ToggleCamera(c) \/ FinalizeSegment(c)
    \/ \E w \in Worker : RecoveryDue(w) \/ Cycle(w) \/ Crash(w)
    \/ \E w \in Worker, c \in Camera : Visit(w, c)
    \/ Lapse

Spec == Init /\ [][Next]_vars

\* Every thread keeps cycling (polling each 30 seconds) and running out of time
\* is certain for a lease nobody renews.
Fairness ==
    /\ \A w \in Worker : WF_vars(Cycle(w) \/ \E c \in Camera : Visit(w, c))
    /\ \A w \in Worker : WF_vars(RecoveryDue(w))
    /\ WF_vars(LapseLeader)
    /\ WF_vars(LapseSignal)
    /\ \A x \in Camera \X Watermark : WF_vars(LapseOperation(x))

FairSpec == Spec /\ Fairness

-----------------------------------------------------------------------------
\* Types of the rows, the handles and the flags.
TypeOK ==
    /\ signal \in Signal
    /\ leader \in [owner : Owner, live : BOOLEAN]
    /\ ops \in [Camera \X Watermark -> OpRow]
    /\ debt \in [Camera -> {"none", "owed", "scheduled"}]
    /\ run \in [Worker -> Run]
    /\ recover \in [Worker -> BOOLEAN]
    /\ spent \in [DOMAIN Bound -> Nat]

\* Someone is about to advance the signal for work it left undone.
Owing == \E w \in Worker : run[w].pc = "owing"

\* No wake-up is lost: while a camera is owed an evaluation the signal requests
\* more than was consumed, or the thread that cut the evaluation short is about
\* to advance it.
NoLostWork ==
    \A c \in Camera :
        debt[c] = "owed" => signal.requested > signal.consumed \/ Owing

\* The status column tells whether there is work: idle exactly when all that was
\* requested has been consumed, running with a claim beyond what was consumed.
StatusTruthful ==
    /\ signal.status = "idle" <=> signal.requested = signal.consumed
    /\ signal.status = "running" =>
           signal.consumed < signal.claimed /\ signal.claimed <= signal.requested

\* The consumed watermark grows to that of the claim in force and to nothing
\* else: a thread whose claim was taken over consumes nothing.
AcknowledgesClaim ==
    [][signal'.consumed # signal.consumed => signal'.consumed = signal.claimed]_vars

\* Only a crash can make the code forget a wake-up; then a scheduled recovery
\* is needed, and each further crash may forget it again.
Recoverable ==
    \/ MaxCrashes = 0
    \/ MaxRecoveries - spent.recoveries > MaxCrashes - spent.crashes

\* A camera that is owed an evaluation gets one, or is left to the scheduled
\* recovery after an evaluation that failed or found nothing to delete.
OwedAttended ==
    \A c \in Camera : debt[c] = "owed" /\ Recoverable ~> debt[c] # "owed"
=============================================================================

------------------------- MODULE OperationConflicts -------------------------
(***************************************************************************)
(* The admission of storage operations: the rows of StorageOperation       *)
(* (services/storage_operations_foundation.py), the worker lease that      *)
(* serialises admission (the "coordinator") and the calls of               *)
(* claim_operation_with_conflicts, reclaim_operation_with_conflicts and    *)
(* run_coordinated_operation_transition                                    *)
(* (services/storage_operation_conflicts.py).                              *)
(*                                                                         *)
(* Every statement of a call runs in its own transaction and the process   *)
(* may pause between any two of them, so each is an action of its own.     *)
(* Time is abstracted to what the code asks of it: whether a lease is      *)
(* still live.  A statement compares the lease with a database time read   *)
(* at the start of its transaction, which may be in the past when the      *)
(* statement runs: with StaleClock an expired lease may still be seen as   *)
(* live, while a live lease is never seen as expired.                      *)
(***************************************************************************)
EXTENDS FiniteSets, Naturals

CONSTANTS
    Client,        \* threads that submit operations
    Worker,        \* background threads that pick existing operations up
    NoProc,        \* no process
    NoOp,          \* no operation
    ImmediateOp,   \* identities claimed with start_immediately = True
    QueuedOp,      \* identities claimed with start_immediately = False
    RecoveredOp,   \* identities some background worker reclaims
    RecorderOp,    \* identities whose scope the recorder may be writing in
    Conflict,      \* pairs whose types and scopes conflict
    StaleClock,    \* may a statement run with a database time in the past?
    Pauses,        \* may a live process fail to renew its leases in time?
    Purges,        \* does terminal history age out while calls are running?
    AdmissionStalls, \* may a call stall, or fail, while it holds the coordinator?
    MaxCrashes     \* bound on process crashes

Op == ImmediateOp \cup QueuedOp
Proc == Client \cup Worker

ASSUME ProcAssumption == NoProc \notin Proc
ASSUME OpAssumption == NoOp \notin Op /\ ImmediateOp \cap QueuedOp = {}
ASSUME ConflictAssumption ==
    /\ Conflict \subseteq Op \X Op
    /\ \A a, b \in Op : <<a, b>> \in Conflict => <<b, a>> \in Conflict
    /\ \A a \in Op : <<a, a>> \notin Conflict
ASSUME SwitchAssumption ==
    /\ StaleClock \in BOOLEAN
    /\ Pauses \in BOOLEAN
    /\ Purges \in BOOLEAN
    /\ AdmissionStalls \in BOOLEAN
    /\ MaxCrashes \in Nat

VARIABLES
    rows,     \* the table of operations
    coord,    \* the worker lease row "storage-operation-coordinator"
    call,     \* what each process is doing
    admit,    \* how the current generation of each operation got started
    crashes   \* number of crashes so far

vars == <<rows, coord, call, admit, crashes>>

-----------------------------------------------------------------------------
(* An owner token is a secret minted for one claim and dropped with the    *)
(* handle, so the process holding it names it: a process has at most one   *)
(* handle, and only while its pc is one of Holding.  "requeued" is the     *)
(* code's queued row with prior ownership (fencing_token > 0), "terminal"  *)
(* any of its five terminal statuses.                                      *)

Status == {"absent", "queued", "requeued", "running", "cancel_requested", "terminal"}
Owned == {"running", "cancel_requested"}
Row == [status : Status, owner : Proc \cup {NoProc}, live : BOOLEAN]

NoRow == [status |-> "absent", owner |-> NoProc, live |-> FALSE]
TerminalRow == [status |-> "terminal", owner |-> NoProc, live |-> FALSE]

\* How a generation was started: its claim is not yet returned to the caller,
\* it was returned by a coordinated call, by an uncoordinated one, or its lease
\* ran out since.
Admission == {"none", "claimed", "granted", "direct", "lapsed"}

Kind == {"none", "claim", "reclaim", "continue"}
Pc == {"idle", "direct", "acquire", "entered", "owned", "scanned", "checked",
       "claimed", "changed", "returning", "closing", "working"}
Call == [pc : Pc, kind : Kind, op : Op \cup {NoOp}]
NoCall == [pc |-> "idle", kind |-> "none", op |-> NoOp]

\* The call is past the conflict scan and may still start its operation.
PastScan == {"scanned", "checked", "claimed", "changed"}
\* The call is inside the coordinator's try ... finally.
Inside == {"entered", "owned", "returning", "closing"} \cup PastScan
\* The process has an OperationHandle.
Holding == {"claimed", "returning", "working"}

SeenLive(live) == live \/ StaleClock

\* assert_owned of the coordinator session, which also renews the lease.
CoordinatorOwned(p) == coord.holder = p /\ SeenLive(coord.live)

\* _owned_operation_query: token, fencing token, status and lease all match.
OperationOwned(p) ==
    LET r == rows[call[p].op] IN
    /\ r.owner = p
    /\ r.status \in Owned
    /\ SeenLive(r.live)

\* Slip: an operation that was asked to stop no longer counts as active.
ActiveUncancelled(r) ==
    r.status = "queued" \/ (r.status \in {"running", "requeued"} /\ r.live)

\* _conflict_active_filter, with a fresh and with a possibly stale time.
Active(r) == r.status = "queued" \/ (r.status \in Owned \cup {"requeued"} /\ r.live)
SeenActive(r) ==
    r.status = "queued" \/ (r.status \in Owned \cup {"requeued"} /\ SeenLive(r.live))

Rivals(o) == {b \in Op : <<o, b>> \in Conflict}

Init ==
    /\ rows = [o \in Op |-> NoRow]
    /\ coord = [holder |-> NoProc, live |-> FALSE]
    /\ call = [p \in Proc |-> NoCall]
    /\ admit = [o \in Op |-> "none"]
    /\ crashes = 0

Goto(p, pc) == call' = [call EXCEPT ![p].pc = pc]
Return(p) == call' = [call EXCEPT ![p] = NoCall]

-----------------------------------------------------------------------------
(* Starting a call.                                                        *)

\* claim_operation_with_conflicts looks the identity up without a lock; a row
\* that exists is claimed without the coordinator.
BeginClaim(p, o) ==
    /\ p \in Client
    /\ call[p] = NoCall
    /\ call' = [call EXCEPT ![p] =
            [pc |-> IF rows[o].status = "absent" THEN "acquire" ELSE "direct",
             kind |-> "claim", op |-> o]]
    /\ UNCHANGED <<rows, coord, admit, crashes>>

\* Slip: the candidates leave out operations with a cancellation pending.
ReclaimUncancelled(p, o) ==
    /\ p \in Worker
    /\ call[p] = NoCall
    /\ o \in RecoveredOp
    /\ \/ rows[o].status \in {"queued", "requeued"}
       \/ rows[o].status = "running" /\ ~rows[o].live
    /\ call' = [call EXCEPT ![p] = [pc |-> "acquire", kind |-> "reclaim", op |-> o]]
    /\ UNCHANGED <<rows, coord, admit, crashes>>

\* A background worker picks an existing queued or interrupted row.
BeginReclaim(p, o) ==
    /\ p \in Worker
    /\ call[p] = NoCall
    /\ o \in RecoveredOp
    /\ \/ rows[o].status \in {"queued", "requeued"}
       \/ rows[o].status \in Owned /\ ~rows[o].live
    /\ call' = [call EXCEPT ![p] = [pc |-> "acquire", kind |-> "reclaim", op |-> o]]
    /\ UNCHANGED <<rows, coord, admit, crashes>>

\* A cleanup continuation of a finished background operation.
BeginContinue(p, o) ==
    /\ p \in Client
    /\ call[p] = NoCall
    /\ o \in QueuedOp
    /\ rows[o].status = "terminal"
    /\ call' = [call EXCEPT ![p] = [pc |-> "acquire", kind |-> "continue", op |-> o]]
    /\ UNCHANGED <<rows, coord, admit, crashes>>

-----------------------------------------------------------------------------
(* claim_operation on the row of o by p, and reclaim_operation.            *)

\* Slip: a claim of a running operation takes it over whatever its lease says.
ClaimTakesOver(o) == o \in ImmediateOp /\ rows[o].status \in {"absent"} \cup Owned
ClaimStarts(o) == o \in ImmediateOp /\ rows[o].status = "absent"
ClaimQueues(o) ==
    /\ o \in QueuedOp
    /\ \/ rows[o].status \in {"absent", "queued"}
       \/ rows[o].status = "requeued" /\ SeenLive(rows[o].live)
ReclaimStarts(o) ==
    \/ rows[o].status \in {"queued", "requeued"}
    \/ rows[o].status \in Owned /\ ~rows[o].live

\* The terminal, running and interrupted answers, which change nothing.
ClaimAnswers(o) ==
    \/ rows[o].status = "terminal"
    \/ rows[o].status \in Owned
    \/ rows[o].status = "requeued" /\ ~rows[o].live
ReclaimAnswers(o) ==
    \/ rows[o].status = "terminal"
    \/ rows[o].status \in Owned /\ SeenLive(rows[o].live)

\* Slip: the takeover writes "running" over a pending cancellation.
StartedAfresh(p, r) ==
    [r EXCEPT !.status = "running", !.owner = p, !.live = TRUE]

\* A cancellation asked of the previous generation survives the takeover.
StartedRow(p, r) ==
    [status |-> IF r.status = "cancel_requested" THEN "cancel_requested" ELSE "running",
     owner |-> p, live |-> TRUE]
QueuedRow(r) ==
    IF r.status = "absent"
    THEN [status |-> "queued", owner |-> NoProc, live |-> TRUE]
    ELSE [r EXCEPT !.live = TRUE]

Start(p, o, how) ==
    /\ rows' = [rows EXCEPT ![o] = StartedRow(p, rows[o])]
    /\ admit' = [admit EXCEPT ![o] = how]

\* The uncoordinated claim of a row that existed when it was looked up.
DirectClaim(p) ==
    LET o == call[p].op IN
    /\ call[p].pc = "direct"
    /\ \/ ClaimStarts(o) /\ Start(p, o, "direct") /\ Goto(p, "working")
       \/ /\ ClaimQueues(o)
          /\ rows' = [rows EXCEPT ![o] = QueuedRow(rows[o])]
          /\ Return(p)
          /\ UNCHANGED admit
       \/ ClaimAnswers(o) /\ Return(p) /\ UNCHANGED <<rows, admit>>
    /\ UNCHANGED <<coord, crashes>>

-----------------------------------------------------------------------------
(* The coordinated call.                                                   *)

\* acquire_worker_lease takes a free or expired lease over.
Acquire(p) ==
    /\ call[p].pc = "acquire"
    /\ ~coord.live
    /\ coord' = [holder |-> p, live |-> TRUE]
    /\ Goto(p, "entered")
    /\ UNCHANGED <<rows, admit, crashes>>

\* A live process is between taking the coordinator and giving it back.
Admitting == \E p \in Proc : coord.holder = p /\ call[p].pc \in Inside

\* _coordinator_lease gives up after COORDINATOR_WAIT_SECONDS.
CoordinatorBusy(p) ==
    /\ call[p].pc = "acquire"
    /\ SeenLive(coord.live)
    /\ AdmissionStalls \/ ~Admitting
    /\ Return(p)
    /\ UNCHANGED <<rows, coord, admit, crashes>>

\* CoordinatorLeaseSession.assert_owned before the scan and before the change.
AssertOwned(p) ==
    /\ call[p].pc \in {"entered", "scanned"}
    /\ CoordinatorOwned(p)
    /\ coord' = [coord EXCEPT !.live = TRUE]
    /\ Goto(p, IF call[p].pc = "entered" THEN "owned" ELSE "checked")
    /\ UNCHANGED <<rows, admit, crashes>>

\* The assertion fails when the lease is lost, and on any database error.
AssertFails(p) ==
    /\ call[p].pc \in {"entered", "scanned"}
    /\ AdmissionStalls
    /\ Goto(p, "closing")
    /\ UNCHANGED <<rows, coord, admit, crashes>>

\* The heartbeat thread of the session renews the lease at any time; with a
\* stale time it revives a lease that has run out.
RenewCoordinator(p) ==
    /\ call[p].pc \in Inside
    /\ CoordinatorOwned(p)
    /\ ~coord.live
    /\ coord' = [coord EXCEPT !.live = TRUE]
    /\ UNCHANGED <<rows, call, admit, crashes>>

\* The scan finds no active row that conflicts.
ScanClear(p) ==
    /\ call[p].pc = "owned"
    /\ \A b \in Rivals(call[p].op) : ~Active(rows[b])
    /\ Goto(p, "scanned")
    /\ UNCHANGED <<rows, coord, admit, crashes>>

\* It finds one, or the recorder is writing in the scope, or the row to reclaim
\* is gone: the call ends with an error.
ScanBlocked(p) ==
    LET o == call[p].op IN
    /\ call[p].pc = "owned"
    /\ \/ \E b \in Rivals(o) : SeenActive(rows[b])
       \/ o \in RecorderOp
       \/ call[p].kind = "reclaim" /\ rows[o].status = "absent"
    /\ Goto(p, "closing")
    /\ UNCHANGED <<rows, coord, admit, crashes>>

\* claim_operation or reclaim_operation by the coordinated call.
Claim(p) ==
    LET o == call[p].op IN
    /\ call[p].pc = "checked"
    /\ \/ /\ call[p].kind = "claim" /\ ClaimStarts(o)
          /\ Start(p, o, "claimed") /\ Goto(p, "claimed")
       \/ /\ call[p].kind = "reclaim" /\ ReclaimStarts(o)
          /\ Start(p, o, "claimed") /\ Goto(p, "claimed")
       \/ /\ call[p].kind = "claim" /\ ClaimQueues(o)
          /\ rows' = [rows EXCEPT ![o] = QueuedRow(rows[o])]
          /\ Goto(p, "changed")
          /\ UNCHANGED admit
       \/ /\ \/ call[p].kind = "claim" /\ ClaimAnswers(o)
             \/ call[p].kind = "reclaim" /\ ReclaimAnswers(o)
          /\ Goto(p, "changed")
          /\ UNCHANGED <<rows, admit>>
       \/ /\ call[p].kind = "reclaim" /\ rows[o].status = "absent"
          /\ Goto(p, "closing")
          /\ UNCHANGED <<rows, admit>>
    /\ UNCHANGED <<coord, crashes>>

\* The transition of _continue_same_cleanup_operation: a terminal row goes back
\* to the queue with the next fencing token; any other row is a replay or is
\* refused.
Continue(p) ==
    LET o == call[p].op IN
    /\ call[p].pc = "checked"
    /\ call[p].kind = "continue"
    /\ \/ /\ rows[o].status = "terminal"
          /\ rows' = [rows EXCEPT ![o] =
                        [status |-> "requeued", owner |-> NoProc, live |-> TRUE]]
          /\ Goto(p, "changed")
       \/ /\ rows[o].status # "terminal"
          /\ Goto(p, "changed") \/ Goto(p, "closing")
          /\ UNCHANGED rows
    /\ UNCHANGED <<coord, admit, crashes>>

\* Slip: no assertion between the change and the return.
ReturnUnchecked(p) ==
    LET o == call[p].op IN
    /\ call[p].pc \in {"claimed", "changed"}
    /\ IF call[p].pc = "claimed"
       THEN /\ Goto(p, "returning")
            /\ admit' = IF rows[o].owner = p /\ admit[o] = "claimed"
                        THEN [admit EXCEPT ![o] = "granted"] ELSE admit
       ELSE Goto(p, "closing") /\ UNCHANGED admit
    /\ UNCHANGED <<rows, coord, crashes>>

\* The assertion after the change: only then is a handle returned.
PostCheckPasses(p) ==
    LET o == call[p].op IN
    /\ call[p].pc \in {"claimed", "changed"}
    /\ CoordinatorOwned(p)
    /\ coord' = [coord EXCEPT !.live = TRUE]
    /\ IF call[p].pc = "claimed"
       THEN /\ Goto(p, "returning")
            /\ admit' = IF rows[o].owner = p /\ admit[o] = "claimed"
                        THEN [admit EXCEPT ![o] = "granted"] ELSE admit
       ELSE Goto(p, "closing") /\ UNCHANGED admit
    /\ UNCHANGED <<rows, crashes>>

Finished(o) ==
    /\ rows' = [rows EXCEPT ![o] = TerminalRow]
    /\ admit' = [admit EXCEPT ![o] = "none"]

\* The coordinator was lost: a claimed operation is finished as failed when
\* that still succeeds; a queued row or a transition stays as it is.
PostCheckFails(p) ==
    LET o == call[p].op IN
    /\ call[p].pc \in {"claimed", "changed"}
    /\ AdmissionStalls
    /\ \/ call[p].pc = "claimed" /\ OperationOwned(p) /\ Finished(o)
       \/ UNCHANGED <<rows, admit>>
    /\ Goto(p, "closing")
    /\ UNCHANGED <<coord, crashes>>

\* CoordinatorLeaseSession.close: the release is fenced, and its failure ignored.
Close(p) ==
    /\ call[p].pc \in {"returning", "closing"}
    /\ \/ coord' = IF coord.holder = p THEN [coord EXCEPT !.live = FALSE] ELSE coord
       \/ AdmissionStalls /\ UNCHANGED coord
    /\ IF call[p].pc = "returning" THEN Goto(p, "working") ELSE Return(p)
    /\ UNCHANGED <<rows, admit, crashes>>

-----------------------------------------------------------------------------
(* The holder of a handle, and the rest of the world.                      *)

\* heartbeat_operation: a guarded update; a stale time revives a lapsed lease.
Heartbeat(p) ==
    /\ call[p].pc = "working"
    /\ OperationOwned(p)
    /\ ~rows[call[p].op].live
    /\ rows' = [rows EXCEPT ![call[p].op].live = TRUE]
    /\ UNCHANGED <<coord, call, admit, crashes>>

\* finish_operation with any terminal status.
Finish(p) ==
    /\ call[p].pc = "working"
    /\ OperationOwned(p)
    /\ Finished(call[p].op)
    /\ Return(p)
    /\ UNCHANGED <<coord, crashes>>

\* A guarded update matched no row: storage_operation_lease_lost.
LeaseLost(p) ==
    LET r == rows[call[p].op] IN
    /\ call[p].pc = "working"
    /\ ~(r.owner = p /\ r.status \in Owned /\ r.live)
    /\ Return(p)
    /\ UNCHANGED <<rows, coord, admit, crashes>>

\* request_operation_cancel: cancel_allowed is set for background operations.
RequestCancel(o) ==
    /\ o \in QueuedOp
    /\ \/ rows[o].status \in {"queued", "requeued"} /\ Finished(o)
       \/ /\ rows[o].status = "running"
          /\ rows' = [rows EXCEPT ![o].status = "cancel_requested"]
          /\ UNCHANGED admit
    /\ UNCHANGED <<coord, call, crashes>>

\* cleanup_terminal_operations deletes an old terminal row.
Purge(o) ==
    /\ Purges
    /\ rows[o].status = "terminal"
    /\ rows' = [rows EXCEPT ![o] = NoRow]
    /\ UNCHANGED <<coord, call, admit, crashes>>

\* Somebody still renews the lease of operation o.
Attended(o) ==
    \E p \in Proc : call[p].pc \in Holding /\ call[p].op = o /\ rows[o].owner = p

\* The lease of an operation runs out.
OperationLapse(o) ==
    /\ rows[o].status \in Owned \cup {"requeued"}
    /\ rows[o].live
    /\ Pauses \/ ~Attended(o)
    /\ rows' = [rows EXCEPT ![o].live = FALSE]
    /\ admit' = IF admit[o] = "none" THEN admit ELSE [admit EXCEPT ![o] = "lapsed"]
    /\ UNCHANGED <<coord, call, crashes>>

\* The coordinator lease runs out.
CoordinatorLapse ==
    /\ coord.live
    /\ AdmissionStalls \/ ~Admitting
    /\ coord' = [coord EXCEPT !.live = FALSE]
    /\ UNCHANGED <<rows, call, admit, crashes>>

\* A process dies and restarts; its handles are gone, the table keeps its rows.
Crash(p) ==
    /\ call[p] # NoCall
    /\ crashes < MaxCrashes
    /\ crashes' = crashes + 1
    /\ Return(p)
    /\ UNCHANGED <<rows, coord, admit>>

-----------------------------------------------------------------------------
CallStep(p) ==
    \/ DirectClaim(p)
    \/ Acquire(p) \/ CoordinatorBusy(p)
    \/ AssertOwned(p) \/ AssertFails(p) \/ RenewCoordinator(p)
    \/ ScanClear(p) \/ ScanBlocked(p)
    \/ Claim(p) \/ Continue(p)
    \/ PostCheckPasses(p) \/ PostCheckFails(p)
    \/ Close(p)

Next ==
    \/ \E p \in Proc, o \in Op : BeginClaim(p, o) \/ BeginReclaim(p, o) \/ BeginContinue(p, o)
    \/ \E p \in Proc : CallStep(p) \/ Heartbeat(p) \/ Finish(p) \/ LeaseLost(p) \/ Crash(p)
    \/ \E o \in Op : RequestCancel(o) \/ Purge(o) \/ OperationLapse(o)
    \/ CoordinatorLapse

Spec == Init /\ [][Next]_vars

\* A thread that is running goes on; a worker keeps picking candidates; leases
\* nobody renews run out; a poller gets the coordinator in the end.
Fairness ==
    /\ \A p \in Proc :
        /\ WF_vars(CallStep(p))
        /\ SF_vars(Acquire(p))
        /\ WF_vars(Finish(p) \/ LeaseLost(p))
    /\ \A o \in Op :
        /\ SF_vars(\E p \in Worker : BeginReclaim(p, o))
        /\ WF_vars(OperationLapse(o) /\ ~Attended(o))
    /\ WF_vars(CoordinatorLapse)

FairSpec == Spec /\ Fairness

-----------------------------------------------------------------------------
(* Properties.                                                             *)

\* Every variable has the shape its table or handle has in the code.
TypeOK ==
    /\ rows \in [Op -> Row]
    /\ coord \in [holder : Proc \cup {NoProc}, live : BOOLEAN]
    /\ call \in [Proc -> Call]
    /\ admit \in [Op -> Admission]
    /\ crashes \in Nat

\* Two conflicting operations never both run with a handle that a coordinated
\* call returned and a lease that never ran out since: the block in
\* claim_operation_with_conflicts, whatever is paused, lost or read late.
GrantedExclusive ==
    \A a, b \in Op : <<a, b>> \in Conflict =>
        ~(admit[a] = "granted" /\ admit[b] = "granted")

Exclusive == INSTANCE ExclusiveAdmission
    WITH admitted <- {o \in Op : admit[o] = "granted"}

\* The coordinated calls implement exclusive admission: a handle is returned
\* only while no conflicting one is out.
AdmitsExclusively == Exclusive!Spec

\* A requested cancellation is only ever answered by a terminal status: a
\* takeover of the operation does not forget it.
CancelSticks ==
    [][\A o \in Op : rows[o].status = "cancel_requested" =>
            rows'[o].status \in {"cancel_requested", "terminal"}]_vars

\* A generation whose lease is live is never taken over: the owner changes only
\* by the owner finishing, or after the lease ran out.
NoTakeoverOfLive ==
    [][\A o \in Op : rows[o].status \in Owned /\ rows[o].live =>
            \/ rows'[o].owner = rows[o].owner
            \/ rows'[o].status = "terminal"]_vars

\* An accepted background operation is finished in the end.
QueuedFinishes ==
    \A o \in QueuedOp : rows[o].status = "queued" ~> rows[o].status = "terminal"
=============================================================================

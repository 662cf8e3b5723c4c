---------------------- MODULE OperationConflictsProofs ----------------------
(***************************************************************************)
(* Proofs about OperationConflicts for every set of processes, every set   *)
(* of operations and every conflict relation.  Exclusion is not inductive  *)
(* by itself: it needs that a granted operation has a live row, which a    *)
(* scan therefore sees, and that a call which passed its scan and still    *)
(* has the coordinator excludes every grant to a rival.  What one step     *)
(* does to an operation in progress needs only the types.                  *)
(***************************************************************************)
EXTENDS OperationConflicts, TLAPS

\* A generation whose lease never ran out is running and live.
UnlapsedLive ==
    \A o \in Op : admit[o] \in {"claimed", "granted", "direct"} =>
        rows[o].status \in Owned /\ rows[o].live

\* What a scan found stays true while the call keeps the coordinator.
ScanHolds ==
    \A p \in Proc : call[p].pc \in PastScan /\ coord.holder = p =>
        \A b \in Rivals(call[p].op) : admit[b] # "granted"

Admitted == UnlapsedLive /\ ScanHolds /\ GrantedExclusive

-----------------------------------------------------------------------------
(* Type correctness.                                                       *)

\* Writing a row, an admission or a pc keeps the table it is written to.
LEMMA PutRow ==
    ASSUME NEW t \in [Op -> Row], NEW o, NEW r \in Row
    PROVE  [t EXCEPT ![o] = r] \in [Op -> Row]
  OBVIOUS

LEMMA PutAdmission ==
    ASSUME NEW t \in [Op -> Admission], NEW o, NEW a \in Admission
    PROVE  [t EXCEPT ![o] = a] \in [Op -> Admission]
  OBVIOUS

LEMMA PutPc ==
    ASSUME NEW p \in Proc, NEW pc \in Pc, call \in [Proc -> Call],
           Goto(p, pc)
    PROVE  call' \in [Proc -> Call]
<1>1. [call[p] EXCEPT !.pc = pc] \in Call
  BY DEF Call
<1>2. call' = [call EXCEPT ![p] = [call[p] EXCEPT !.pc = pc]]
  BY DEF Goto
<1> QED
  BY <1>1, <1>2

LEMMA PutReturn ==
    ASSUME NEW p \in Proc, call \in [Proc -> Call], Return(p)
    PROVE  call' \in [Proc -> Call]
  BY DEF Return, NoCall, Call, Pc, Kind

\* The rows the operations write are rows.
LEMMA StartType ==
    ASSUME TypeOK, NEW p \in Proc, NEW o, NEW how \in Admission, Start(p, o, how)
    PROVE  rows' \in [Op -> Row] /\ admit' \in [Op -> Admission]
<1>1. StartedRow(p, rows[o]) \in Row
  BY DEF StartedRow, Row, Status
<1> QED
  BY <1>1, PutRow, PutAdmission DEF Start, TypeOK

LEMMA QueuedType ==
    ASSUME TypeOK, NEW o \in Op
    PROVE  [rows EXCEPT ![o] = QueuedRow(rows[o])] \in [Op -> Row]
<1>1. QueuedRow(rows[o]) \in Row
  BY DEF QueuedRow, Row, Status, TypeOK
<1> QED
  BY <1>1, PutRow DEF TypeOK

LEMMA FinishedType ==
    ASSUME TypeOK, NEW o, Finished(o)
    PROVE  rows' \in [Op -> Row] /\ admit' \in [Op -> Admission]
<1>1. TerminalRow \in Row /\ "none" \in Admission
  BY DEF TerminalRow, Row, Status, Admission
<1> QED
  BY <1>1, PutRow, PutAdmission DEF Finished, TypeOK

\* Every step of a call keeps the shape of the tables.
LEMMA CallStepType ==
    ASSUME TypeOK, NEW p \in Proc, CallStep(p)
    PROVE  TypeOK'
<1> DEFINE o == call[p].op
<1>0. {"entered", "owned", "scanned", "checked", "claimed", "changed",
       "returning", "closing", "working"} \subseteq Pc
  BY DEF Pc
<1>1. CASE DirectClaim(p)
  <2>1. CASE ClaimStarts(o) /\ Start(p, o, "direct") /\ Goto(p, "working")
    BY <1>0, <1>1, <2>1, StartType, PutPc DEF DirectClaim, TypeOK, Admission
  <2>2. CASE ClaimQueues(o) /\ rows' = [rows EXCEPT ![o] = QueuedRow(rows[o])]
             /\ Return(p) /\ UNCHANGED admit
    BY <1>1, <2>2, QueuedType, PutReturn DEF DirectClaim, TypeOK, ClaimQueues, Op
  <2>3. CASE ClaimAnswers(o) /\ Return(p) /\ UNCHANGED <<rows, admit>>
    BY <1>1, <2>3, PutReturn DEF DirectClaim, TypeOK
  <2> QED
    BY <1>1, <2>1, <2>2, <2>3 DEF DirectClaim
<1>2. CASE Acquire(p)
  <2>1. coord' \in [holder : Proc \cup {NoProc}, live : BOOLEAN]
    BY <1>2 DEF Acquire
  <2> QED
    BY <1>0, <1>2, <2>1, PutPc DEF Acquire, TypeOK
<1>11. CASE CoordinatorBusy(p)
  BY <1>11, PutReturn DEF CoordinatorBusy, TypeOK
<1>3. CASE AssertOwned(p)
  BY <1>0, <1>3, PutPc DEF AssertOwned, TypeOK
<1>4. CASE AssertFails(p) \/ RenewCoordinator(p)
  BY <1>0, <1>4, PutPc DEF AssertFails, RenewCoordinator, TypeOK
<1>5. CASE ScanClear(p) \/ ScanBlocked(p)
  BY <1>0, <1>5, PutPc DEF ScanClear, ScanBlocked, TypeOK
<1>6. CASE Claim(p)
  <2>1. CASE Start(p, o, "claimed") /\ Goto(p, "claimed")
    BY <1>0, <1>6, <2>1, StartType, PutPc DEF Claim, TypeOK, Admission
  <2>2. CASE /\ ClaimQueues(o) /\ rows' = [rows EXCEPT ![o] = QueuedRow(rows[o])]
             /\ Goto(p, "changed") /\ UNCHANGED admit
    BY <1>0, <1>6, <2>2, QueuedType, PutPc DEF Claim, TypeOK, ClaimQueues, Op
  <2>3. CASE (Goto(p, "changed") \/ Goto(p, "closing")) /\ UNCHANGED <<rows, admit>>
    BY <1>0, <1>6, <2>3, PutPc DEF Claim, TypeOK
  <2> QED
    BY <1>6, <2>1, <2>2, <2>3 DEF Claim
<1>7. CASE Continue(p)
  <2>1. [status |-> "requeued", owner |-> NoProc, live |-> TRUE] \in Row
    BY DEF Row, Status
  <2> QED
    BY <1>0, <1>7, <2>1, PutRow, PutPc DEF Continue, TypeOK
<1>8. CASE PostCheckPasses(p)
  <2>1. admit' \in [Op -> Admission]
    BY <1>8, PutAdmission DEF PostCheckPasses, TypeOK, Admission
  <2> QED
    BY <1>0, <1>8, <2>1, PutPc DEF PostCheckPasses, TypeOK
<1>9. CASE PostCheckFails(p)
  BY <1>0, <1>9, FinishedType, PutPc DEF PostCheckFails, TypeOK
<1>10. CASE Close(p)
  BY <1>0, <1>10, PutPc, PutReturn DEF Close, TypeOK
<1> QED
  BY <1>1, <1>2, <1>3, <1>4, <1>5, <1>6, <1>7, <1>8, <1>9, <1>10, <1>11
  DEF CallStep

\* So does every other step.
LEMMA TypeStep == TypeOK /\ [Next]_vars => TypeOK'
<1> SUFFICES ASSUME TypeOK, [Next]_vars PROVE TypeOK'
  OBVIOUS
<1>1. ASSUME NEW p \in Proc, NEW o \in Op,
             BeginClaim(p, o) \/ BeginReclaim(p, o) \/ BeginContinue(p, o)
      PROVE  TypeOK'
  BY <1>1 DEF BeginClaim, BeginReclaim, BeginContinue, TypeOK, Call, Pc, Kind
<1>2. ASSUME NEW p \in Proc, CallStep(p) PROVE TypeOK'
  BY <1>2, CallStepType
<1>3. ASSUME NEW p \in Proc, Heartbeat(p) \/ Finish(p) \/ LeaseLost(p) \/ Crash(p)
      PROVE  TypeOK'
  <2>1. CASE Heartbeat(p)
    BY <2>1 DEF Heartbeat, TypeOK, Row
  <2>2. CASE Finish(p)
    BY <2>2, FinishedType, PutReturn DEF Finish, TypeOK
  <2>3. CASE LeaseLost(p)
    BY <2>3, PutReturn DEF LeaseLost, TypeOK
  <2>4. CASE Crash(p)
    BY <2>4, PutReturn DEF Crash, TypeOK
  <2> QED
    BY <1>3, <2>1, <2>2, <2>3, <2>4
<1>4. ASSUME NEW o \in Op, RequestCancel(o) \/ Purge(o) \/ OperationLapse(o)
      PROVE  TypeOK'
  <2>1. CASE RequestCancel(o)
    BY <2>1, FinishedType DEF RequestCancel, TypeOK, Row, Status
  <2>2. CASE Purge(o)
    <3>1. NoRow \in Row
      BY DEF NoRow, Row, Status
    <3> QED
      BY <2>2, <3>1, PutRow DEF Purge, TypeOK
  <2>3. CASE OperationLapse(o)
    <3>1. rows' \in [Op -> Row]
      BY <2>3 DEF OperationLapse, TypeOK, Row
    <3>2. admit' \in [Op -> Admission]
      BY <2>3, PutAdmission DEF OperationLapse, TypeOK, Admission
    <3> QED
      BY <2>3, <3>1, <3>2 DEF OperationLapse, TypeOK
  <2> QED
    BY <1>4, <2>1, <2>2, <2>3
<1>5. CASE CoordinatorLapse
  BY <1>5 DEF CoordinatorLapse, TypeOK
<1>6. CASE UNCHANGED vars
  BY <1>6 DEF vars, TypeOK
<1> QED
  BY <1>1, <1>2, <1>3, <1>4, <1>5, <1>6 DEF Next

\* The tables and the calls keep their shape (models/storage_operation.py).
THEOREM TypeCorrect == Spec => []TypeOK
<1>1. Init => TypeOK
  BY DEF Init, TypeOK, Row, Status, NoRow, Call, Pc, Kind, NoCall, Admission
<1> QED
  BY <1>1, TypeStep, PTL DEF Spec

-----------------------------------------------------------------------------
(* Exclusion.                                                              *)

\* A generation that starts is owned, live and not yet granted.
LEMMA StartAdmission ==
    ASSUME TypeOK, UnlapsedLive, NEW p \in Proc, NEW o,
           NEW how \in {"claimed", "direct"}, Start(p, o, how)
    PROVE  /\ UnlapsedLive'
           /\ \A b \in Op : admit'[b] = "granted" => admit[b] = "granted"
  BY DEF Start, StartedRow, TypeOK, UnlapsedLive, Owned, Row

\* Finishing takes an admission away.
LEMMA FinishedAdmission ==
    ASSUME TypeOK, UnlapsedLive, NEW o, Finished(o)
    PROVE  /\ UnlapsedLive'
           /\ \A b \in Op : admit'[b] = "granted" => admit[b] = "granted"
  BY DEF Finished, TerminalRow, TypeOK, UnlapsedLive, Owned, Row

\* A step that grants nothing and moves no call into PastScan keeps what the
\* scans found, as long as the coordinator passes to no such call.
LEMMA NoNewGrant ==
    ASSUME Admitted, TypeOK,
           \A b \in Op : admit'[b] = "granted" => admit[b] = "granted",
           \A q \in Proc : call'[q].pc \in PastScan /\ coord'.holder = q =>
               /\ call[q].pc \in PastScan /\ coord.holder = q
               /\ call'[q].op = call[q].op
    PROVE  ScanHolds' /\ GrantedExclusive'
  BY DEF Admitted, ScanHolds, GrantedExclusive, Rivals

\* A call that moves on, or returns, without passing a scan.
LEMMA MoveOn ==
    ASSUME Admitted, TypeOK, UnlapsedLive', NEW p \in Proc, NEW pc \in Pc,
           Goto(p, pc), pc \in PastScan => call[p].pc \in PastScan,
           coord'.holder = coord.holder,
           \A b \in Op : admit'[b] = "granted" => admit[b] = "granted"
    PROVE  Admitted'
<1>1. \A q \in Proc :
          /\ call'[q].op = call[q].op
          /\ call'[q].pc \in PastScan => call[q].pc \in PastScan
  BY DEF Goto, TypeOK, Call
<1>2. \A q \in Proc : call'[q].pc \in PastScan /\ coord'.holder = q =>
          /\ call[q].pc \in PastScan /\ coord.holder = q
          /\ call'[q].op = call[q].op
  BY <1>1
<1>3. ScanHolds' /\ GrantedExclusive'
  BY <1>2, NoNewGrant
<1> QED
  BY <1>3 DEF Admitted

\* Each step of a call keeps exclusion: the scan establishes what the grant
\* after it relies on.
LEMMA CallStepAdmission ==
    ASSUME Admitted, TypeOK, NEW p \in Proc, CallStep(p)
    PROVE  Admitted'
<1> DEFINE o == call[p].op
<1> USE DEF TypeOK, PastScan
<1>1. CASE DirectClaim(p)
  <2>1. CASE Start(p, o, "direct") /\ Goto(p, "working")
    BY <1>1, <2>1, StartAdmission, NoNewGrant DEF DirectClaim, Goto, Admitted
  <2>2. CASE ClaimQueues(o) /\ rows' = [rows EXCEPT ![o] = QueuedRow(rows[o])]
             /\ Return(p) /\ UNCHANGED admit
    <3>1. UnlapsedLive'
      BY <2>2 DEF ClaimQueues, QueuedRow, UnlapsedLive, Admitted, Owned
    <3> QED
      BY <1>1, <2>2, <3>1, NoNewGrant DEF DirectClaim, Return, NoCall, Admitted
  <2>3. CASE Return(p) /\ UNCHANGED <<rows, admit>>
    BY <1>1, <2>3, NoNewGrant DEF DirectClaim, Return, NoCall, Admitted, UnlapsedLive
  <2> QED
    BY <1>1, <2>1, <2>2, <2>3 DEF DirectClaim
<1>2. CASE Acquire(p)
  BY <1>2, NoNewGrant DEF Acquire, Goto, Admitted, UnlapsedLive
<1>3. CASE CoordinatorBusy(p)
  BY <1>3, NoNewGrant DEF CoordinatorBusy, Return, NoCall, Admitted, UnlapsedLive
<1>4. CASE AssertOwned(p)
  BY <1>4, NoNewGrant DEF AssertOwned, Goto, Admitted, UnlapsedLive
<1>5. CASE AssertFails(p)
  BY <1>5, NoNewGrant DEF AssertFails, Goto, Admitted, UnlapsedLive
<1>13. CASE RenewCoordinator(p)
  BY <1>13, NoNewGrant DEF RenewCoordinator, Admitted, UnlapsedLive
<1>6. CASE ScanClear(p)
  <2>1. UnlapsedLive' /\ GrantedExclusive'
    BY <1>6 DEF ScanClear, Admitted, UnlapsedLive, GrantedExclusive
  <2>2. \A b \in Rivals(o) : admit[b] # "granted"
    BY <1>6 DEF ScanClear, Active, Admitted, UnlapsedLive, Rivals
  <2>3. ScanHolds'
    BY <1>6, <2>2 DEF ScanClear, Goto, Admitted, ScanHolds, Rivals
  <2> QED
    BY <2>1, <2>3 DEF Admitted
<1>7. CASE ScanBlocked(p)
  BY <1>7, NoNewGrant DEF ScanBlocked, Goto, Admitted, UnlapsedLive
<1>8. CASE Claim(p)
  <2>1. CASE Start(p, o, "claimed") /\ Goto(p, "claimed")
    BY <1>8, <2>1, StartAdmission, NoNewGrant DEF Claim, Goto, Admitted
  <2>2. CASE /\ ClaimQueues(o) /\ rows' = [rows EXCEPT ![o] = QueuedRow(rows[o])]
             /\ Goto(p, "changed") /\ UNCHANGED admit
    <3>1. UnlapsedLive'
      BY <2>2 DEF ClaimQueues, QueuedRow, UnlapsedLive, Admitted, Owned
    <3> QED
      BY <1>8, <2>2, <3>1, NoNewGrant DEF Claim, Goto, Admitted
  <2>3. CASE (Goto(p, "changed") \/ Goto(p, "closing")) /\ UNCHANGED <<rows, admit>>
    <3>1. UnlapsedLive' /\ \A b \in Op : admit'[b] = "granted" => admit[b] = "granted"
      BY <2>3 DEF Admitted, UnlapsedLive
    <3>2. "changed" \in Pc /\ "closing" \in Pc /\ call[p].pc \in PastScan /\ UNCHANGED coord
      BY <1>8 DEF Claim, Pc
    <3> QED
      BY <2>3, <3>1, <3>2, MoveOn
  <2> QED
    BY <1>8, <2>1, <2>2, <2>3 DEF Claim
<1>9. CASE Continue(p)
  <2>1. UnlapsedLive'
    BY <1>9 DEF Continue, Admitted, UnlapsedLive, Owned
  <2>2. "changed" \in Pc /\ "closing" \in Pc /\ call[p].pc \in PastScan /\ UNCHANGED <<coord, admit>>
    BY <1>9 DEF Continue, Pc
  <2>3. Goto(p, "changed") \/ Goto(p, "closing")
    BY <1>9 DEF Continue
  <2> QED
    BY <2>1, <2>2, <2>3, MoveOn
<1>10. CASE PostCheckPasses(p)
  <2>1. UnlapsedLive'
    BY <1>10 DEF PostCheckPasses, Admitted, UnlapsedLive, Admission
  <2>4. UNCHANGED rows /\ coord'.holder = coord.holder
    BY <1>10 DEF PostCheckPasses
  <2>5. Goto(p, "returning") \/ Goto(p, "closing")
    BY <1>10 DEF PostCheckPasses
  <2>2. CASE UNCHANGED admit
    <3>1. "returning" \in Pc /\ "closing" \in Pc
      BY DEF Pc
    <3> QED
      BY <2>1, <2>2, <2>4, <2>5, <3>1, MoveOn
  <2>3. CASE admit' = [admit EXCEPT ![o] = "granted"] /\ call[p].pc = "claimed"
    <3>1. coord.holder = p /\ coord'.holder = p /\ call'[p].pc = "returning"
      <4>1. coord.holder = p
        BY <1>10 DEF PostCheckPasses, CoordinatorOwned
      <4>2. Goto(p, "returning")
        BY <1>10, <2>3 DEF PostCheckPasses
      <4>3. call'[p].pc = "returning"
        BY <4>2 DEF Goto, Call
      <4> QED
        BY <2>4, <4>1, <4>3
    <3>2. \A b \in Rivals(o) : admit[b] # "granted"
      BY <2>3, <3>1 DEF Admitted, ScanHolds
    <3>3. GrantedExclusive'
      BY <2>3, <3>2, ConflictAssumption DEF Admitted, GrantedExclusive, Rivals
    <3>4. ScanHolds'
      BY <3>1 DEF ScanHolds
    <3> QED
      BY <2>1, <3>3, <3>4 DEF Admitted
  <2> QED
    BY <1>10, <2>2, <2>3 DEF PostCheckPasses
<1>11. CASE PostCheckFails(p)
  BY <1>11, FinishedAdmission, NoNewGrant
  DEF PostCheckFails, Goto, Admitted, UnlapsedLive
<1>12. CASE Close(p)
  <2>1. UNCHANGED <<rows, admit>> /\ coord'.holder = coord.holder
    BY <1>12 DEF Close
  <2>2. UnlapsedLive'
    BY <2>1 DEF Admitted, UnlapsedLive
  <2>3. CASE Goto(p, "working")
    BY <2>1, <2>2, <2>3, MoveOn DEF Pc
  <2>4. CASE Return(p)
    BY <2>1, <2>2, <2>4, NoNewGrant DEF Return, NoCall, Admitted
  <2> QED
    BY <1>12, <2>3, <2>4 DEF Close
<1> QED
  BY <1>1, <1>2, <1>3, <1>4, <1>5, <1>6, <1>7, <1>8, <1>9, <1>10, <1>11, <1>12,
     <1>13
  DEF CallStep

\* So does every other step: it only takes admissions away.
LEMMA AdmittedStep == Admitted /\ TypeOK /\ [Next]_vars => Admitted'
<1> SUFFICES ASSUME Admitted, TypeOK, [Next]_vars PROVE Admitted'
  OBVIOUS
<1> USE DEF TypeOK, PastScan
<1>1. ASSUME NEW p \in Proc, NEW o \in Op,
             BeginClaim(p, o) \/ BeginReclaim(p, o) \/ BeginContinue(p, o)
      PROVE  Admitted'
  BY <1>1, NoNewGrant
  DEF BeginClaim, BeginReclaim, BeginContinue, Admitted, UnlapsedLive
<1>2. ASSUME NEW p \in Proc, CallStep(p) PROVE Admitted'
  BY <1>2, CallStepAdmission
<1>3. ASSUME NEW p \in Proc, Heartbeat(p) PROVE Admitted'
  <2>1. UnlapsedLive'
    BY <1>3 DEF Heartbeat, Admitted, UnlapsedLive, Row
  <2> QED
    BY <1>3, <2>1, NoNewGrant DEF Heartbeat, Admitted
<1>4. ASSUME NEW p \in Proc, Finish(p) PROVE Admitted'
  BY <1>4, FinishedAdmission, NoNewGrant DEF Finish, Return, NoCall, Admitted
<1>5. ASSUME NEW p \in Proc, LeaseLost(p) \/ Crash(p) PROVE Admitted'
  BY <1>5, NoNewGrant DEF LeaseLost, Crash, Return, NoCall, Admitted, UnlapsedLive
<1>6. ASSUME NEW o \in Op, RequestCancel(o) PROVE Admitted'
  <2>1. CASE Finished(o)
    BY <1>6, <2>1, FinishedAdmission, NoNewGrant DEF RequestCancel, Admitted
  <2>2. CASE rows' = [rows EXCEPT ![o].status = "cancel_requested"] /\ UNCHANGED admit
    <3>1. UnlapsedLive'
      BY <2>2 DEF Admitted, UnlapsedLive, Owned, Row
    <3> QED
      BY <1>6, <2>2, <3>1, NoNewGrant DEF RequestCancel, Admitted
  <2> QED
    BY <1>6, <2>1, <2>2 DEF RequestCancel
<1>7. ASSUME NEW o \in Op, Purge(o) PROVE Admitted'
  <2>1. UnlapsedLive'
    BY <1>7 DEF Purge, Admitted, UnlapsedLive, Owned
  <2> QED
    BY <1>7, <2>1, NoNewGrant DEF Purge, Admitted
<1>8. ASSUME NEW o \in Op, OperationLapse(o) PROVE Admitted'
  <2>1. UnlapsedLive'
    BY <1>8 DEF OperationLapse, Admitted, UnlapsedLive, Admission
  <2> QED
    BY <1>8, <2>1, NoNewGrant DEF OperationLapse, Admitted
<1>9. CASE CoordinatorLapse
  BY <1>9, NoNewGrant DEF CoordinatorLapse, Admitted, UnlapsedLive
<1>10. CASE UNCHANGED vars
  BY <1>10, NoNewGrant DEF vars, Admitted, UnlapsedLive
<1> QED
  BY <1>1, <1>2, <1>3, <1>4, <1>5, <1>6, <1>7, <1>8, <1>9, <1>10 DEF Next

\* The admission invariant, and with it exclusion, for every number of clients,
\* workers and operations, with stale times, lost leases, crashes and rows
\* that age out (claim_operation_with_conflicts, reclaim_operation_with_conflicts).
THEOREM AdmissionInvariant == Spec => []Admitted
<1>1. Init => Admitted
  BY DEF Init, Admitted, UnlapsedLive, ScanHolds, GrantedExclusive, NoCall, PastScan
<1>2. Spec => []TypeOK
  BY TypeCorrect
<1> QED
  BY <1>1, <1>2, AdmittedStep, PTL DEF Spec

THEOREM Exclusion == Spec => []GrantedExclusive
<1>1. Admitted => GrantedExclusive
  BY DEF Admitted
<1> QED
  BY <1>1, AdmissionInvariant, PTL

-----------------------------------------------------------------------------
(* What becomes of an operation in progress.                               *)

\* It stays with its owner, ends, or is taken over once its lease has run out, as
\* what it was: a cancellation asked of it included.
Continues(o) ==
    \/ rows'[o].status = "terminal"
    \/ rows'[o].owner = rows[o].owner /\ rows'[o].status \in {rows[o].status, "cancel_requested"}
    \/ ~rows[o].live /\ rows'[o].status = rows[o].status

LEMMA WriteRow ==
    ASSUME TypeOK, NEW o \in Op, NEW x, NEW r, rows' = [rows EXCEPT ![x] = r]
    PROVE  rows'[o] = IF o = x THEN r ELSE rows[o]
  BY DEF TypeOK

LEMMA FinishedContinues ==
    ASSUME TypeOK, NEW o \in Op, NEW x, Finished(x)
    PROVE  Continues(o)
<1>1. rows'[o] = TerminalRow \/ rows'[o] = rows[o]
  BY WriteRow DEF Finished
<1> QED
  BY <1>1 DEF Continues, TerminalRow

\* A claim starts only what is absent, a reclaim only what has nobody's live lease.
LEMMA StartContinues ==
    ASSUME TypeOK, NEW o \in Op, rows[o].status \in Owned, NEW x, NEW p, NEW how, Start(p, x, how),
           ClaimStarts(x) \/ ReclaimStarts(x)
    PROVE  Continues(o)
<1>1. CASE o = x
  <2>1. ~rows[o].live
    BY <1>1 DEF ClaimStarts, ReclaimStarts, Owned
  <2>2. rows'[o] = StartedRow(p, rows[o])
    BY <1>1, WriteRow DEF Start
  <2>3. rows'[o].status = rows[o].status
    BY <2>2 DEF StartedRow, Owned
  <2> QED
    BY <2>1, <2>3 DEF Continues
<1>2. CASE o # x
  <2>1. rows'[o] = rows[o]
    BY <1>2, WriteRow DEF Start
  <2> QED
    BY <2>1 DEF Continues
<1> QED
  BY <1>1, <1>2

LEMMA ProgressStep ==
    ASSUME TypeOK, [Next]_vars, NEW o \in Op, rows[o].status \in Owned
    PROVE  Continues(o)
<1>u. ASSUME rows'[o] = rows[o] PROVE Continues(o)
  BY <1>u DEF Continues
<1>w. ASSUME NEW x, NEW r, rows' = [rows EXCEPT ![x] = r], rows[x].status \notin Owned
      PROVE  Continues(o)
  BY <1>u, <1>w, WriteRow
<1>1. ASSUME NEW p \in Proc, DirectClaim(p) PROVE Continues(o)
  <2> DEFINE x == call[p].op
  <2>1. \/ UNCHANGED rows
        \/ ClaimStarts(x) /\ Start(p, x, "direct")
        \/ ClaimQueues(x) /\ rows' = [rows EXCEPT ![x] = QueuedRow(rows[x])]
    BY <1>1 DEF DirectClaim
  <2>2. ClaimQueues(x) => rows[x].status \notin Owned
    BY DEF ClaimQueues, Owned
  <2> QED
    BY <1>u, <1>w, <2>1, <2>2, StartContinues
<1>2. ASSUME NEW p \in Proc, Claim(p) PROVE Continues(o)
  <2> DEFINE x == call[p].op
  <2>1. \/ UNCHANGED rows
        \/ (ClaimStarts(x) \/ ReclaimStarts(x)) /\ Start(p, x, "claimed")
        \/ ClaimQueues(x) /\ rows' = [rows EXCEPT ![x] = QueuedRow(rows[x])]
    BY <1>2 DEF Claim
  <2>2. ClaimQueues(x) => rows[x].status \notin Owned
    BY DEF ClaimQueues, Owned
  <2> QED
    BY <1>u, <1>w, <2>1, <2>2, StartContinues
<1>3. ASSUME NEW p \in Proc, Continue(p) PROVE Continues(o)
  <2>1. \/ UNCHANGED rows
        \/ /\ rows[call[p].op].status \notin Owned
           /\ \E r : rows' = [rows EXCEPT ![call[p].op] = r]
    BY <1>3 DEF Continue, Owned
  <2> QED
    BY <1>u, <1>w, <2>1
<1>4. ASSUME NEW p \in Proc, PostCheckFails(p) \/ Finish(p) PROVE Continues(o)
  <2>1. UNCHANGED rows \/ Finished(call[p].op)
    BY <1>4 DEF PostCheckFails, Finish
  <2> QED
    BY <1>u, <2>1, FinishedContinues
<1>5. ASSUME NEW p \in Proc, Heartbeat(p) PROVE Continues(o)
  <2>1. rows' = [rows EXCEPT ![call[p].op].live = TRUE]
    BY <1>5 DEF Heartbeat
  <2>2. rows'[o].owner = rows[o].owner /\ rows'[o].status = rows[o].status
    BY <2>1 DEF TypeOK, Row
  <2> QED
    BY <2>2 DEF Continues
<1>6. ASSUME NEW x \in Op, OperationLapse(x) PROVE Continues(o)
  <2>1. rows' = [rows EXCEPT ![x].live = FALSE]
    BY <1>6 DEF OperationLapse
  <2>2. rows'[o].owner = rows[o].owner /\ rows'[o].status = rows[o].status
    BY <2>1 DEF TypeOK, Row
  <2> QED
    BY <2>2 DEF Continues
<1>7. ASSUME NEW x \in Op, RequestCancel(x) PROVE Continues(o)
  <2>1. CASE Finished(x)
    BY <2>1, FinishedContinues
  <2>2. CASE rows[x].status = "running" /\ rows' = [rows EXCEPT ![x].status = "cancel_requested"]
    <3>1. rows'[o].owner = rows[o].owner /\ rows'[o].status \in {rows[o].status, "cancel_requested"}
      BY <2>2 DEF TypeOK, Row
    <3> QED
      BY <3>1 DEF Continues
  <2> QED
    BY <1>7, <2>1, <2>2 DEF RequestCancel
<1>8. ASSUME NEW x \in Op, Purge(x) PROVE Continues(o)
  <2>1. rows[x].status \notin Owned /\ rows' = [rows EXCEPT ![x] = NoRow]
    BY <1>8 DEF Purge, Owned
  <2> QED
    BY <1>w, <2>1
<1>9. CASE UNCHANGED rows
  BY <1>u, <1>9
<1>10. ASSUME NEW p \in Proc, CallStep(p) PROVE Continues(o)
  BY <1>1, <1>2, <1>3, <1>4, <1>9, <1>10
     DEF CallStep, Acquire, CoordinatorBusy, AssertOwned, AssertFails, RenewCoordinator,
         ScanClear, ScanBlocked, PostCheckPasses, Close
<1>11. ASSUME NEW p \in Proc, LeaseLost(p) \/ Crash(p) PROVE Continues(o)
  BY <1>9, <1>11 DEF LeaseLost, Crash
<1>12. ASSUME NEW p \in Proc, NEW x \in Op,
              BeginClaim(p, x) \/ BeginReclaim(p, x) \/ BeginContinue(p, x)
       PROVE  Continues(o)
  BY <1>9, <1>12 DEF BeginClaim, BeginReclaim, BeginContinue
<1>13. CASE CoordinatorLapse \/ UNCHANGED vars
  BY <1>9, <1>13 DEF CoordinatorLapse, vars
<1> QED
  BY <1>4, <1>5, <1>6, <1>7, <1>8, <1>10, <1>11, <1>12, <1>13 DEF Next

\* A cancellation that was asked for survives every takeover, heartbeat and lapse, and is
\* only ever answered by an end of the operation (reclaim_operation).
THEOREM CancellationSticks == Spec => CancelSticks
<1>1. TypeOK /\ [Next]_vars =>
        [\A o \in Op : rows[o].status = "cancel_requested" =>
            rows'[o].status \in {"cancel_requested", "terminal"}]_vars
  BY ProgressStep DEF Continues, Owned
<1> QED
  BY <1>1, TypeCorrect, PTL DEF Spec, CancelSticks

\* A generation whose lease is live keeps its owner until it ends (claim_operation,
\* reclaim_operation): a stale clock only ever makes a lease look live.
THEOREM LiveIsNotTakenOver == Spec => NoTakeoverOfLive
<1>1. TypeOK /\ [Next]_vars =>
        [\A o \in Op : rows[o].status \in Owned /\ rows[o].live =>
            \/ rows'[o].owner = rows[o].owner
            \/ rows'[o].status = "terminal"]_vars
  BY ProgressStep DEF Continues
<1> QED
  BY <1>1, TypeCorrect, PTL DEF Spec, NoTakeoverOfLive

-----------------------------------------------------------------------------
(* The coordinated calls implement exclusive admission.                    *)

Granted == {o \in Op : admit[o] = "granted"}

\* Writing anything but a grant withdraws at most one admission.
LEMMA Withdrawal ==
    ASSUME TypeOK, NEW o, NEW a, a # "granted", admit' = [admit EXCEPT ![o] = a]
    PROVE  Exclusive!Next \/ UNCHANGED Granted
<1>1. CASE o \in Op /\ admit[o] = "granted"
  <2>1. Granted' = Granted \ {o} /\ o \in Granted
    BY <1>1 DEF Granted, TypeOK
  <2> QED
    BY <1>1, <2>1 DEF Exclusive!Next, Exclusive!Leave, Granted
<1>2. CASE ~(o \in Op /\ admit[o] = "granted")
  BY <1>2 DEF Granted, TypeOK
<1> QED
  BY <1>1, <1>2

\* A grant is an admission that nothing admitted conflicts with.
LEMMA Grant ==
    ASSUME Admitted, TypeOK, NEW p \in Proc, PostCheckPasses(p)
    PROVE  Exclusive!Next \/ UNCHANGED Granted
<1> DEFINE o == call[p].op
<1>1. CASE UNCHANGED admit
  BY <1>1 DEF Granted
<1>2. CASE /\ admit' = [admit EXCEPT ![o] = "granted"]
           /\ call[p].pc = "claimed" /\ admit[o] = "claimed"
  <2>1. \A b \in Rivals(o) : admit[b] # "granted"
    BY <1>2 DEF PostCheckPasses, CoordinatorOwned, Admitted, ScanHolds, PastScan
  <2>2. CASE o \in Op
    <3>1. Granted' = Granted \cup {o} /\ o \notin Granted
      BY <1>2, <2>2 DEF Granted, TypeOK
    <3>2. \A b \in Granted : <<o, b>> \notin Conflict
      BY <2>1 DEF Granted, Rivals
    <3> QED
      BY <2>2, <3>1, <3>2 DEF Exclusive!Next, Exclusive!Admit, Granted
  <2>3. CASE o \notin Op
    BY <1>2, <2>3 DEF Granted, TypeOK
  <2> QED
    BY <2>2, <2>3
<1> QED
  BY <1>1, <1>2 DEF PostCheckPasses

\* Every step of the coordinator is a step of exclusive admission or none.
LEMMA Simulation ==
    ASSUME Admitted, TypeOK, [Next]_vars
    PROVE  Exclusive!Next \/ UNCHANGED Granted
<1>1. CASE UNCHANGED admit
  BY <1>1 DEF Granted
<1>2. ASSUME NEW o, NEW p, NEW how \in {"claimed", "direct"}, Start(p, o, how)
      PROVE  Exclusive!Next \/ UNCHANGED Granted
  BY <1>2, Withdrawal DEF Start
<1>3. ASSUME NEW o, Finished(o) PROVE Exclusive!Next \/ UNCHANGED Granted
  BY <1>3, Withdrawal DEF Finished
<1>4. ASSUME NEW o \in Op, OperationLapse(o) PROVE Exclusive!Next \/ UNCHANGED Granted
  BY <1>1, <1>4, Withdrawal DEF OperationLapse
<1>5. ASSUME NEW p \in Proc, DirectClaim(p) PROVE Exclusive!Next \/ UNCHANGED Granted
  BY <1>1, <1>2, <1>5 DEF DirectClaim
<1>6. ASSUME NEW p \in Proc, Claim(p) PROVE Exclusive!Next \/ UNCHANGED Granted
  BY <1>1, <1>2, <1>6 DEF Claim
<1>7. ASSUME NEW p \in Proc, CallStep(p), ~DirectClaim(p), ~Claim(p)
      PROVE  Exclusive!Next \/ UNCHANGED Granted
  <2>1. CASE PostCheckPasses(p)
    BY <2>1, Grant
  <2>2. CASE PostCheckFails(p)
    BY <1>1, <1>3, <2>2 DEF PostCheckFails
  <2> QED
    BY <1>1, <1>7, <2>1, <2>2
    DEF CallStep, Acquire, CoordinatorBusy, AssertOwned, AssertFails, RenewCoordinator,
        ScanClear, ScanBlocked, Continue, Close
<1>8. ASSUME NEW p \in Proc, Heartbeat(p) \/ Finish(p) \/ LeaseLost(p) \/ Crash(p)
      PROVE  Exclusive!Next \/ UNCHANGED Granted
  BY <1>1, <1>3, <1>8 DEF Heartbeat, Finish, LeaseLost, Crash
<1>9. ASSUME NEW o \in Op, RequestCancel(o) \/ Purge(o)
      PROVE  Exclusive!Next \/ UNCHANGED Granted
  BY <1>1, <1>3, <1>9 DEF RequestCancel, Purge
<1>10. ASSUME NEW p \in Proc, NEW o \in Op,
              BeginClaim(p, o) \/ BeginReclaim(p, o) \/ BeginContinue(p, o)
       PROVE  Exclusive!Next \/ UNCHANGED Granted
  BY <1>1, <1>10 DEF BeginClaim, BeginReclaim, BeginContinue
<1>11. CASE CoordinatorLapse \/ UNCHANGED vars
  BY <1>1, <1>11 DEF CoordinatorLapse, vars
<1> QED
  BY <1>4, <1>5, <1>6, <1>7, <1>8, <1>9, <1>10, <1>11 DEF Next

\* The coordinated calls implement the promise of ExclusiveAdmission, for every
\* value of the constants.
THEOREM Implementation == Spec => AdmitsExclusively
<1>1. Init => Exclusive!Init
  BY DEF Init, Exclusive!Init
<1>2. Admitted /\ TypeOK /\ [Next]_vars => [Exclusive!Next]_Granted
  BY Simulation
<1>3. Spec => []Admitted /\ []TypeOK
  BY AdmissionInvariant, TypeCorrect, PTL
<1> QED
  BY <1>1, <1>2, <1>3, PTL DEF Spec, AdmitsExclusively, Exclusive!Spec, Granted

=============================================================================

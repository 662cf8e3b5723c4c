--------------------------- MODULE MaintenanceProofs ---------------------------
(***************************************************************************)
(* Theorems about the maintenance flows: the types, the exclusion of the   *)
(* flows with the account of temporary databases and of what blocks the    *)
(* admission (MaintenanceSafe), and the truth of the receipts              *)
(* (ReceiptsTruthful).                                                     *)
(*                                                                         *)
(* None of the two is inductive.  The flows exclude each other because     *)
(* whoever works on one still has the request that blocks the others       *)
(* (ThreadsHold, WorkClaimed), and of those there is one (OneFlow,         *)
(* FlowAlone, Compatible).  An answer is true because of what the thread   *)
(* has done before and nobody may have undone since (FilesAgree).          *)
(***************************************************************************)
EXTENDS Maintenance, FiniteSetTheorems, TLAPS

-----------------------------------------------------------------------------
(* The admission: what blocks, and who works.                              *)

\* A thread at work has an active receipt of the running process, which no
\* reconciliation touches.
ThreadsHold ==
    \A s \in Submission :
        exec[s].at # "off" => Active(s) /\ receipt[s].mine /\ ~receipt[s].retry

Unbegun ==
    \A s \in Submission :
        receipt[s].state = "none" =>
            ~receipt[s].retry /\ ~receipt[s].temp /\ receipt[s].deferred = "none" /\ s \notin temp

\* One flow blocks at most, and then no backup operation is active.
OneFlow == \A f, g \in DOMAIN flow : f # g => ~(Blocks(f) /\ Blocks(g))
FlowAlone == \A f \in DOMAIN flow : Blocks(f) => \A s \in Submission : ~Active(s)
Compatible ==
    \A s, t \in Submission : s # t /\ Active(s) /\ Active(t) => ~Conflicts(s, t)

\* Who works on a flow has its request, and an open journal is one of a claimed update.
WorkClaimed ==
    /\ schema # "off" => flow["schema"] = schema
    /\ helper = "restore" => flow["restore"] = "claimed"
    /\ helper = "update" /\ ~published => flow["update"] = "claimed"
    /\ journal = "open" => flow["update"] = "claimed" /\ ~published

Admitted ==
    ThreadsHold /\ Unbegun /\ OneFlow /\ FlowAlone /\ Compatible /\ WorkClaimed /\ LocksExplained

-----------------------------------------------------------------------------
(* The temporary databases.                                                *)

OfCheck(s) ==
    receipt[s].temp \/ receipt[s].deferred # "none" \/ s \in temp
    \/ exec[s].at \in {"target", "record", "restore", "clear", "defer"}
    => KindOf[s] = "check"

\* Before it is recorded a temporary database is not in the receipt, after that it is,
\* until it was dropped; and a thread about to answer has none.
TempStages(s) ==
    /\ exec[s].at \in {"accepted", "work", "target", "record"} => ~receipt[s].temp
    /\ exec[s].at \in {"restore", "clear", "defer"} => receipt[s].temp
    /\ exec[s].at = "evidence" /\ KindOf[s] = "check" => receipt[s].temp
    /\ exec[s].at \in {"accepted", "work", "target", "clear", "answer", "failing"} => s \notin temp
    /\ exec[s].at = "evidence" /\ exec[s].clean => s \notin temp

Accounted(s) ==
    s \in temp => \/ Active(s) /\ receipt[s].temp
                  \/ exec[s].at = "record"
                  \/ spent.crashes > 0 /\ ~receipt[s].temp /\ exec[s].at = "off"
TempKnown(s) == Accounted(s) /\ OfCheck(s) /\ TempStages(s)
TempsKnown == \A s \in Submission : TempKnown(s)

-----------------------------------------------------------------------------
(* The files of an artifact, and what its state file says.                 *)

Begun(d) == KindOf[d] = "delete" /\ receipt[d].state # "none"
Deleted(a) == \E d \in Submission : Begun(d) /\ ArtifactOf[d] = a

\* A creation that has not got to the manifest; once past it, it never comes back.
Early(c) ==
    KindOf[c] = "create"
    /\ (receipt[c].state = "none" \/ exec[c].at \in {"accepted", "work", "metadata", "manifest"})
Unlisted == \A c \in Submission : Early(c) => "manifest" \notin files[ArtifactOf[c]]

\* The files a creation has written are there, unless a deletion was begun.
Written(c) ==
    CASE exec[c].at = "metadata" -> {"dump"}
      [] exec[c].at = "manifest" -> {"dump", "metadata"}
      [] exec[c].at \in {"evidence", "answer"} -> Data
      [] OTHER -> {}
Built ==
    \A c \in Submission : KindOf[c] = "create" =>
        Written(c) \subseteq files[ArtifactOf[c]] \/ Deleted(ArtifactOf[c])

\* A check that passed its preflight has a whole artifact before it, to its end.
Inspects(s) ==
    /\ KindOf[s] = "check"
    /\ \/ exec[s].at \in {"target", "record", "restore", "evidence", "clear", "answer", "defer"}
       \/ Active(s) /\ receipt[s].deferred = "completed"
Inspected == \A s \in Submission : Inspects(s) => Data \subseteq files[ArtifactOf[s]]

\* A deletion that unlinks files does so after the creation, and is alone with them.
Unlinks(d) == KindOf[d] = "delete" /\ exec[d].at \in {"unlink", "answer"}
Unlinked ==
    \A d \in Submission : Unlinks(d) =>
        /\ exec[d].at = "answer" => files[ArtifactOf[d]] = {}
        /\ \A c \in Submission : ArtifactOf[c] = ArtifactOf[d] => ~Early(c)

\* No evidence speaks of a check whose temporary database is not in its receipt.
Unchecked(s) ==
    \/ receipt[s].state = "none"
    \/ exec[s].at \in {"accepted", "work", "target", "record"}
    \/ s \in temp /\ ~receipt[s].temp
Unproven ==
    \A s \in Submission :
        KindOf[s] = "check" /\ Unchecked(s) => proof[ArtifactOf[s]].checked # s

FilesAgree == Unlisted /\ Built /\ Inspected /\ Unlinked /\ Unproven

MaintenanceInvariant == TypeOK /\ Admitted /\ TempsKnown /\ FilesAgree

-----------------------------------------------------------------------------
(* Reconciliation.                                                         *)

LEMMA EndedType ==
    ASSUME NEW r \in Receipt, NEW state \in Terminal
    PROVE  LET end == Ended(r, state) IN
           /\ end \in Receipt
           /\ end.state = state /\ ~end.retry /\ ~end.temp
           /\ end.mine = r.mine /\ end.deferred = "none"
  BY DEF Receipt, Ended

LEMMA RetriedType ==
    ASSUME NEW r \in Receipt
    PROVE  LET again == [r EXCEPT !.state = "running", !.retry = TRUE] IN
           /\ again \in Receipt
           /\ again.state = "running" /\ again.retry
           /\ again.temp = r.temp /\ again.mine = r.mine /\ again.deferred = r.deferred
  BY DEF Receipt

\* What a reconciliation makes of a receipt: nothing, another attempt at the cleanup of
\* a temporary database that resisted, or an end of which there is evidence.
LEMMA SettledCases ==
    ASSUME TypeOK, NEW s \in Submission, NEW stuck \in SUBSET temp
    PROVE  /\ Settled(s, stuck) \in Receipt
           /\ ~Due(s) => Settled(s, stuck) = receipt[s]
           /\ Due(s) /\ receipt[s].temp /\ s \in stuck =>
                 /\ Settled(s, stuck).state = "running" /\ Settled(s, stuck).retry
                 /\ Settled(s, stuck).temp /\ Settled(s, stuck).mine = receipt[s].mine
                 /\ Settled(s, stuck).deferred = receipt[s].deferred
           /\ Due(s) /\ ~(receipt[s].temp /\ s \in stuck) =>
                 /\ Settled(s, stuck).state \in Terminal
                 /\ ~Settled(s, stuck).retry /\ ~Settled(s, stuck).temp
                 /\ Settled(s, stuck).mine = receipt[s].mine
                 /\ Settled(s, stuck).deferred = "none"
                 /\ Settled(s, stuck).state = "completed" =>
                       \/ receipt[s].temp /\ receipt[s].deferred = "completed"
                       \/ EvidenceProven(s)
  <1>r. receipt[s] \in Receipt
    BY DEF TypeOK
  <1>e. ASSUME NEW state \in Terminal, Settled(s, stuck) = Ended(receipt[s], state)
        PROVE  /\ Settled(s, stuck) \in Receipt /\ Settled(s, stuck).state = state
               /\ ~Settled(s, stuck).retry /\ ~Settled(s, stuck).temp
               /\ Settled(s, stuck).mine = receipt[s].mine
               /\ Settled(s, stuck).deferred = "none"
    BY <1>r, <1>e, EndedType
  <1>1. CASE ~Due(s)
    BY <1>1, <1>r DEF Settled
  <1>2. CASE Due(s) /\ receipt[s].temp /\ s \in stuck
    <2>1. Settled(s, stuck) = [receipt[s] EXCEPT !.state = "running", !.retry = TRUE]
      BY <1>2 DEF Settled
    <2>2. QED BY <1>2, <1>r, <2>1, RetriedType
  <1>3. CASE Due(s) /\ ~(receipt[s].temp /\ s \in stuck)
    <2>1. CASE receipt[s].temp /\ receipt[s].deferred # "none"
      <3>1. Settled(s, stuck) = Ended(receipt[s], receipt[s].deferred)
        BY <1>3, <2>1 DEF Settled
      <3>2. receipt[s].deferred \in Terminal
        BY <1>r, <2>1 DEF Receipt, Terminal
      <3>3. QED BY <1>3, <1>e, <2>1, <3>1, <3>2
    <2>2. CASE ~(receipt[s].temp /\ receipt[s].deferred # "none") /\ ~EvidenceProven(s)
      <3>1. Settled(s, stuck) = Ended(receipt[s], "interrupted")
        BY <1>3, <2>2 DEF Settled
      <3>2. "interrupted" \in Terminal
        BY DEF Terminal
      <3>3. QED BY <1>3, <1>e, <3>1, <3>2
    <2>3. CASE ~(receipt[s].temp /\ receipt[s].deferred # "none") /\ EvidenceProven(s)
      <3> DEFINE end == IF KindOf[s] = "check" /\ ~proof[ArtifactOf[s]].passed
                        THEN "failed" ELSE "completed"
      <3>1. Settled(s, stuck) = Ended(receipt[s], end)
        BY <1>3, <2>3 DEF Settled
      <3>2. end \in Terminal
        BY DEF Terminal
      <3>3. QED BY <1>3, <1>e, <2>3, <3>1, <3>2
    <2>4. QED BY <2>1, <2>2, <2>3
  <1>4. QED BY <1>1, <1>2, <1>3

-----------------------------------------------------------------------------
(* Types.                                                                  *)

\* A failure, a crash or a restart is counted.
LEMMA SpendsType ==
    ASSUME TypeOK, NEW mishap \in {"faults", "crashes", "restarts"}, Spends(mishap)
    PROVE  /\ spent' \in [faults : Nat, crashes : Nat, restarts : Nat]
           /\ spent'[mishap] > 0
           /\ spent'.faults >= spent.faults /\ spent'.crashes >= spent.crashes
           /\ mishap = "faults" => spent'.crashes = spent.crashes
  BY DEF Spends, TypeOK

\* The receipts keep their type in an admission and a reconciliation.
LEMMA ReconciledType ==
    ASSUME TypeOK, NEW stuck \in SUBSET temp, Reconciled(stuck)
    PROVE  /\ temp' \subseteq Submission
           /\ spent' \in [faults : Nat, crashes : Nat, restarts : Nat]
           /\ spent'.faults >= spent.faults /\ spent'.crashes = spent.crashes
  <1>1. CASE stuck = {}
    BY <1>1 DEF Reconciled, TypeOK
  <1>2. CASE stuck # {}
    BY <1>2, SpendsType DEF Reconciled, Fault, Spends, TypeOK
  <1>3. QED BY <1>1, <1>2

LEMMA WritesType ==
    ASSUME TypeOK, NEW a \in Artifact, NEW p \in Proof, Writes(a, p)
    PROVE  /\ files' \in [Artifact -> SUBSET (Data \cup {"state"})]
           /\ proof' \in [Artifact -> Proof]
           /\ Known(a) \in Proof
  BY DEF Writes, Known, Unproved, Proof, TypeOK, Data

LEMMA KnownType ==
    ASSUME TypeOK, NEW a \in Artifact
    PROVE  Known(a) \in Proof
  BY DEF Known, Unproved, Proof, TypeOK

\* Where a thread goes, or that it stops, keeps the type of the table of threads.
LEMMA GoesType ==
    ASSUME TypeOK, NEW s \in Submission, NEW at \in Place, Goes(s, at)
    PROVE  exec' \in [Submission -> Exec]
  BY DEF Goes, TypeOK, Exec

LEMMA StopsType ==
    ASSUME TypeOK, NEW s \in Submission, Stops(s)
    PROVE  exec' \in [Submission -> Exec]
  BY DEF Stops, ExecOff, TypeOK, Exec, Place

LEMMA DefersType ==
    ASSUME TypeOK, NEW s \in Submission, DefersFailure(s)
    PROVE  exec' \in [Submission -> Exec]
  BY DEF DefersFailure, TypeOK, Exec, Place

\* A thread of the api touches nothing of the other flows.
ThreadTypes ==
    /\ receipt' \in [Submission -> Receipt]
    /\ exec' \in [Submission -> Exec]
    /\ files' \in [Artifact -> SUBSET (Data \cup {"state"})]
    /\ proof' \in [Artifact -> Proof]
    /\ temp' \subseteq Submission
    /\ spent' \in [faults : Nat, crashes : Nat, restarts : Nat]

LEMMA ThreadTypesSuffice ==
    ASSUME TypeOK, ThreadTypes, Untouched
    PROVE  TypeOK'
  BY DEF TypeOK, ThreadTypes, Untouched, update

LEMMA ExecuteTypes ==
    ASSUME TypeOK, NEW s \in Submission, Execute(s)
    PROVE  TypeOK'
  <1> DEFINE a == ArtifactOf[s]
  <1>a. a \in Artifact /\ Known(a) \in Proof
    BY KnownType DEF Artifact
  <1>s. (Fault \/ UNCHANGED spent) => spent' \in [faults : Nat, crashes : Nat, restarts : Nat]
    BY SpendsType DEF Fault, TypeOK
  <1>g. \A at \in Place : Goes(s, at) => exec' \in [Submission -> Exec]
    BY GoesType
  <1>x. Stops(s) \/ DefersFailure(s) => exec' \in [Submission -> Exec]
    BY StopsType, DefersType
  <1>w. ASSUME NEW p \in Proof, Writes(a, p)
        PROVE  /\ files' \in [Artifact -> SUBSET (Data \cup {"state"})]
               /\ proof' \in [Artifact -> Proof]
    BY <1>w, <1>a, WritesType
  <1>r. receipt \in [Submission -> Receipt]
    BY DEF TypeOK
  <1>e. /\ \A v \in BOOLEAN : [receipt EXCEPT ![s].temp = v] \in [Submission -> Receipt]
        /\ \A v \in {"completed", "failed"} :
               [receipt EXCEPT ![s].retry = TRUE, ![s].deferred = v] \in [Submission -> Receipt]
    BY <1>r DEF Receipt
  <1>p. /\ exec[s].passed \in BOOLEAN
        /\ files \in [Artifact -> SUBSET (Data \cup {"state"})]
    BY DEF TypeOK, Exec
  <1>u. /\ UNCHANGED receipt => receipt' \in [Submission -> Receipt]
        /\ UNCHANGED files => files' \in [Artifact -> SUBSET (Data \cup {"state"})]
        /\ UNCHANGED proof => proof' \in [Artifact -> Proof]
        /\ UNCHANGED temp => temp' \subseteq Submission
    BY DEF TypeOK
  <1>1. CASE Start(s)
    <2>1. receipt' \in [Submission -> Receipt]
      BY <1>r, <1>1, <1>u DEF Start, Receipt, Terminal
    <2>2. exec' \in [Submission -> Exec]
      BY <1>1, <1>g, <1>x DEF Start, Place
    <2>3. /\ files' \in [Artifact -> SUBSET (Data \cup {"state"})]
          /\ proof' \in [Artifact -> Proof]
      BY <1>1, <1>u, <1>a DEF Start
    <2>4. temp' \subseteq Submission
      BY <1>1, <1>u DEF Start, TypeOK
    <2>5. spent' \in [faults : Nat, crashes : Nat, restarts : Nat] /\ Untouched
      BY <1>1, <1>s DEF Start
    <2>6. QED BY <2>1, <2>2, <2>3, <2>4, <2>5, ThreadTypesSuffice DEF ThreadTypes
  <1>2. CASE CreateFile(s)
    <2>1. receipt' \in [Submission -> Receipt]
      BY <1>r, <1>2, <1>u DEF CreateFile, Receipt, Terminal
    <2>2. exec' \in [Submission -> Exec]
      BY <1>2, <1>g, <1>x DEF CreateFile, Place
    <2>3. /\ files' \in [Artifact -> SUBSET (Data \cup {"state"})]
          /\ proof' \in [Artifact -> Proof]
      <3>1. \A file \in Data : [files EXCEPT ![a] = @ \cup {file}]
                                  \in [Artifact -> SUBSET (Data \cup {"state"})]
        BY <1>p
      <3>2. [files EXCEPT ![a] = @ \ Data] \in [Artifact -> SUBSET (Data \cup {"state"})]
        BY <1>p
      <3>3. QED BY <1>2, <1>u, <3>1, <3>2 DEF CreateFile, Data
    <2>4. temp' \subseteq Submission
      BY <1>2, <1>u DEF CreateFile, TypeOK
    <2>5. spent' \in [faults : Nat, crashes : Nat, restarts : Nat] /\ Untouched
      BY <1>2, <1>s DEF CreateFile
    <2>6. QED BY <2>1, <2>2, <2>3, <2>4, <2>5, ThreadTypesSuffice DEF ThreadTypes
  <1>3. CASE CreateEvidence(s)
    <2>1. receipt' \in [Submission -> Receipt]
      BY <1>r, <1>3, <1>u DEF CreateEvidence, Receipt, Terminal
    <2>2. exec' \in [Submission -> Exec]
      BY <1>3, <1>g, <1>x DEF CreateEvidence, Place
    <2>3. /\ files' \in [Artifact -> SUBSET (Data \cup {"state"})]
          /\ proof' \in [Artifact -> Proof]
      BY <1>3, <1>u, <1>a, <1>w DEF CreateEvidence, Proof
    <2>4. temp' \subseteq Submission
      BY <1>3, <1>u DEF CreateEvidence, TypeOK
    <2>5. spent' \in [faults : Nat, crashes : Nat, restarts : Nat] /\ Untouched
      BY <1>3, <1>s DEF CreateEvidence
    <2>6. QED BY <2>1, <2>2, <2>3, <2>4, <2>5, ThreadTypesSuffice DEF ThreadTypes
  <1>4. CASE CheckPreflight(s)
    <2>1. receipt' \in [Submission -> Receipt]
      BY <1>r, <1>4, <1>u DEF CheckPreflight, Receipt, Terminal
    <2>2. exec' \in [Submission -> Exec]
      BY <1>4, <1>g, <1>x DEF CheckPreflight, Place
    <2>3. /\ files' \in [Artifact -> SUBSET (Data \cup {"state"})]
          /\ proof' \in [Artifact -> Proof]
      BY <1>4, <1>u, <1>a, <1>w DEF CheckPreflight, Proof
    <2>4. temp' \subseteq Submission
      BY <1>4, <1>u DEF CheckPreflight, TypeOK
    <2>5. spent' \in [faults : Nat, crashes : Nat, restarts : Nat] /\ Untouched
      BY <1>4, <1>s DEF CheckPreflight
    <2>6. QED BY <2>1, <2>2, <2>3, <2>4, <2>5, ThreadTypesSuffice DEF ThreadTypes
  <1>5. CASE CreateTarget(s)
    <2>1. receipt' \in [Submission -> Receipt]
      BY <1>r, <1>5, <1>u DEF CreateTarget, Receipt, Terminal
    <2>2. exec' \in [Submission -> Exec]
      BY <1>5, <1>g, <1>x DEF CreateTarget, Place
    <2>3. /\ files' \in [Artifact -> SUBSET (Data \cup {"state"})]
          /\ proof' \in [Artifact -> Proof]
      BY <1>5, <1>u, <1>a, <1>w DEF CreateTarget, Proof
    <2>4. temp' \subseteq Submission
      BY <1>5, <1>u DEF CreateTarget, TypeOK
    <2>5. spent' \in [faults : Nat, crashes : Nat, restarts : Nat] /\ Untouched
      BY <1>5, <1>s DEF CreateTarget
    <2>6. QED BY <2>1, <2>2, <2>3, <2>4, <2>5, ThreadTypesSuffice DEF ThreadTypes
  <1>6. CASE RecordTarget(s)
    <2>1. receipt' \in [Submission -> Receipt]
      BY <1>e, <1>6, <1>u DEF RecordTarget
    <2>2. exec' \in [Submission -> Exec]
      BY <1>6, <1>g, <1>x DEF RecordTarget, Place
    <2>3. /\ files' \in [Artifact -> SUBSET (Data \cup {"state"})]
          /\ proof' \in [Artifact -> Proof]
      BY <1>6, <1>u, <1>a DEF RecordTarget
    <2>4. temp' \subseteq Submission
      BY <1>6, <1>u DEF RecordTarget, TypeOK
    <2>5. spent' \in [faults : Nat, crashes : Nat, restarts : Nat] /\ Untouched
      BY <1>6, <1>s DEF RecordTarget
    <2>6. QED BY <2>1, <2>2, <2>3, <2>4, <2>5, ThreadTypesSuffice DEF ThreadTypes
  <1>7. CASE RestoreToTarget(s)
    <2>1. receipt' \in [Submission -> Receipt]
      BY <1>r, <1>7, <1>u DEF RestoreToTarget, Receipt, Terminal
    <2>2. exec' \in [Submission -> Exec]
      <3>1. \A passed, clean \in BOOLEAN :
                [exec EXCEPT ![s] = [at |-> "evidence", passed |-> passed, clean |-> clean]]
                    \in [Submission -> Exec]
        BY DEF TypeOK, Exec, Place
      <3>2. [exec EXCEPT ![s] = [at |-> "evidence", passed |-> TRUE, clean |-> FALSE]]
                \in [Submission -> Exec]
        BY <3>1
      <3>3. QED BY <1>7, <3>1 DEF RestoreToTarget
    <2>3. /\ files' \in [Artifact -> SUBSET (Data \cup {"state"})]
          /\ proof' \in [Artifact -> Proof]
      BY <1>7, <1>u, <1>a DEF RestoreToTarget
    <2>4. temp' \subseteq Submission
      BY <1>7, <1>u DEF RestoreToTarget, TypeOK
    <2>5. spent' \in [faults : Nat, crashes : Nat, restarts : Nat] /\ Untouched
      BY <1>7, <1>s DEF RestoreToTarget
    <2>6. QED BY <2>1, <2>2, <2>3, <2>4, <2>5, ThreadTypesSuffice DEF ThreadTypes
  <1>8. CASE CheckEvidence(s)
    <2>1. receipt' \in [Submission -> Receipt]
      BY <1>r, <1>8, <1>u DEF CheckEvidence, Receipt, Terminal
    <2>2. exec' \in [Submission -> Exec]
      BY <1>8, <1>g, <1>x DEF CheckEvidence, Place
    <2>3. /\ files' \in [Artifact -> SUBSET (Data \cup {"state"})]
          /\ proof' \in [Artifact -> Proof]
      <3>1. [Known(a) EXCEPT !.checked = s, !.passed = exec[s].passed] \in Proof
        BY <1>a, <1>p DEF Proof
      <3>2. QED BY <1>8, <1>u, <1>w, <3>1 DEF CheckEvidence
    <2>4. temp' \subseteq Submission
      BY <1>8, <1>u DEF CheckEvidence, TypeOK
    <2>5. spent' \in [faults : Nat, crashes : Nat, restarts : Nat] /\ Untouched
      BY <1>8, <1>s DEF CheckEvidence
    <2>6. QED BY <2>1, <2>2, <2>3, <2>4, <2>5, ThreadTypesSuffice DEF ThreadTypes
  <1>9. CASE ClearTarget(s)
    <2>1. receipt' \in [Submission -> Receipt]
      BY <1>e, <1>9, <1>u DEF ClearTarget
    <2>2. exec' \in [Submission -> Exec]
      BY <1>9, <1>g, <1>x DEF ClearTarget, Place
    <2>3. /\ files' \in [Artifact -> SUBSET (Data \cup {"state"})]
          /\ proof' \in [Artifact -> Proof]
      BY <1>9, <1>u, <1>a DEF ClearTarget
    <2>4. temp' \subseteq Submission
      BY <1>9, <1>u DEF ClearTarget, TypeOK
    <2>5. spent' \in [faults : Nat, crashes : Nat, restarts : Nat] /\ Untouched
      BY <1>9, <1>s DEF ClearTarget
    <2>6. QED BY <2>1, <2>2, <2>3, <2>4, <2>5, ThreadTypesSuffice DEF ThreadTypes
  <1>10. CASE Defer(s)
    <2>1. receipt' \in [Submission -> Receipt]
      <3>1. (IF exec[s].passed THEN "completed" ELSE "failed") \in {"completed", "failed"}
        BY <1>p
      <3>2. QED BY <1>e, <1>10, <1>u, <3>1 DEF Defer
    <2>2. exec' \in [Submission -> Exec]
      BY <1>10, <1>g, <1>x DEF Defer, Place
    <2>3. /\ files' \in [Artifact -> SUBSET (Data \cup {"state"})]
          /\ proof' \in [Artifact -> Proof]
      BY <1>10, <1>u, <1>a DEF Defer
    <2>4. temp' \subseteq Submission
      BY <1>10, <1>u DEF Defer, TypeOK
    <2>5. spent' \in [faults : Nat, crashes : Nat, restarts : Nat] /\ Untouched
      BY <1>10, <1>s DEF Defer
    <2>6. QED BY <2>1, <2>2, <2>3, <2>4, <2>5, ThreadTypesSuffice DEF ThreadTypes
  <1>11. CASE Unlink(s)
    <2>1. receipt' \in [Submission -> Receipt]
      BY <1>r, <1>11, <1>u DEF Unlink, Receipt, Terminal
    <2>2. exec' \in [Submission -> Exec]
      BY <1>11, <1>g, <1>x DEF Unlink, Place
    <2>3. /\ files' \in [Artifact -> SUBSET (Data \cup {"state"})]
          /\ proof' \in [Artifact -> Proof]
      <3>1. \A file : [files EXCEPT ![a] = @ \ {file}] \in [Artifact -> SUBSET (Data \cup {"state"})]
        BY <1>p
      <3>2. \/ \E file : files' = [files EXCEPT ![a] = @ \ {file}] /\ UNCHANGED proof
            \/ Writes(a, Known(a))
            \/ UNCHANGED <<files, proof>>
        BY <1>11 DEF Unlink
      <3>3. CASE \E file : files' = [files EXCEPT ![a] = @ \ {file}] /\ UNCHANGED proof
        <4> PICK file : files' = [files EXCEPT ![a] = @ \ {file}]
          BY <3>3
        <4> QED BY <1>u, <3>1, <3>3
      <3>4. CASE Writes(a, Known(a)) \/ UNCHANGED <<files, proof>>
        BY <1>u, <1>a, <1>w, <3>4
      <3>5. QED BY <3>2, <3>3, <3>4
    <2>4. temp' \subseteq Submission
      BY <1>11, <1>u DEF Unlink, TypeOK
    <2>5. spent' \in [faults : Nat, crashes : Nat, restarts : Nat] /\ Untouched
      BY <1>11, <1>s DEF Unlink
    <2>6. QED BY <2>1, <2>2, <2>3, <2>4, <2>5, ThreadTypesSuffice DEF ThreadTypes
  <1>12. CASE Answer(s)
    <2>1. receipt' \in [Submission -> Receipt]
      BY <1>r, <1>12, <1>u DEF Answer, Receipt, Terminal
    <2>2. exec' \in [Submission -> Exec]
      BY <1>12, <1>g, <1>x DEF Answer, Place
    <2>3. /\ files' \in [Artifact -> SUBSET (Data \cup {"state"})]
          /\ proof' \in [Artifact -> Proof]
      BY <1>12, <1>u, <1>a DEF Answer
    <2>4. temp' \subseteq Submission
      BY <1>12, <1>u DEF Answer, TypeOK
    <2>5. spent' \in [faults : Nat, crashes : Nat, restarts : Nat] /\ Untouched
      BY <1>12, <1>s DEF Answer
    <2>6. QED BY <2>1, <2>2, <2>3, <2>4, <2>5, ThreadTypesSuffice DEF ThreadTypes
  <1>13. CASE AnswerFailure(s)
    <2>1. receipt' \in [Submission -> Receipt]
      BY <1>r, <1>13, <1>u DEF AnswerFailure, Receipt, Terminal
    <2>2. exec' \in [Submission -> Exec]
      BY <1>13, <1>g, <1>x DEF AnswerFailure, Place
    <2>3. /\ files' \in [Artifact -> SUBSET (Data \cup {"state"})]
          /\ proof' \in [Artifact -> Proof]
      BY <1>13, <1>u, <1>a DEF AnswerFailure
    <2>4. temp' \subseteq Submission
      BY <1>13, <1>u DEF AnswerFailure, TypeOK
    <2>5. spent' \in [faults : Nat, crashes : Nat, restarts : Nat] /\ Untouched
      BY <1>13, <1>s DEF AnswerFailure
    <2>6. QED BY <2>1, <2>2, <2>3, <2>4, <2>5, ThreadTypesSuffice DEF ThreadTypes
  <1>14. QED
    BY <1>1, <1>2, <1>3, <1>4, <1>5, <1>6, <1>7, <1>8, <1>9, <1>10, <1>11, <1>12, <1>13
       DEF Execute

\* The receipts after a reconciliation, of which an admission may begin one more.
LEMMA ReconciledReceipts ==
    ASSUME TypeOK, NEW stuck \in SUBSET temp
    PROVE  [s \in Submission |-> Settled(s, stuck)] \in [Submission -> Receipt]
  BY SettledCases

LEMMA BegunType ==
    ASSUME NEW now \in [Submission -> Receipt], NEW s \in Submission
    PROVE  [now EXCEPT ![s].state = "queued", ![s].mine = TRUE] \in [Submission -> Receipt]
  BY DEF Receipt

LEMMA TypeStep ==
    ASSUME TypeOK, [Next]_vars
    PROVE  TypeOK'
  <1> USE DEF update, backups
  <1>1. ASSUME NEW s \in Submission, Begin(s)
        PROVE  TypeOK'
    <2> PICK stuck \in SUBSET temp :
          LET now == [t \in Submission |-> Settled(t, stuck)] IN
          /\ Reconciled(stuck)
          /\ IF \E t \in Submission : now[t].state \in {"queued", "running"} /\ Conflicts(s, t)
             THEN receipt' = now /\ UNCHANGED exec
             ELSE /\ receipt' = [now EXCEPT ![s].state = "queued", ![s].mine = TRUE]
                  /\ exec' = [exec EXCEPT ![s].at = "accepted"]
      BY <1>1 DEF Begin
    <2> DEFINE now == [t \in Submission |-> Settled(t, stuck)]
    <2>1. now \in [Submission -> Receipt]
      BY ReconciledReceipts
    <2> HIDE DEF now
    <2>2. receipt' \in [Submission -> Receipt]
      <3>1. receipt' = now \/ receipt' = [now EXCEPT ![s].state = "queued", ![s].mine = TRUE]
        BY DEF now
      <3>2. [now EXCEPT ![s].state = "queued", ![s].mine = TRUE] \in [Submission -> Receipt]
        BY <2>1, BegunType
      <3>3. QED BY <2>1, <3>1, <3>2
    <2>3. exec' \in [Submission -> Exec]
      BY DEF TypeOK, Exec, Place
    <2>4. QED BY <1>1, <2>2, <2>3, ReconciledType DEF Begin, TypeOK
  <1>2. ASSUME NEW s \in Submission, Execute(s)
        PROVE  TypeOK'
    BY <1>2, ExecuteTypes
  <1>3. CASE Reconcile
    BY <1>3, ReconciledReceipts, ReconciledType DEF Reconcile, TypeOK
  <1>4. CASE ApiCrashes
    <2>1. ExecOff \in Exec
      BY DEF ExecOff, Exec, Place
    <2>2. \A s \in Submission : [receipt[s] EXCEPT !.mine = FALSE] \in Receipt
      BY DEF TypeOK, Receipt
    <2>3. QED BY <1>4, <2>1, <2>2, SpendsType DEF ApiCrashes, TypeOK
  <1>5. ASSUME NEW f \in DOMAIN flow, Admits(f)
        PROVE  /\ receipt' \in [Submission -> Receipt] /\ temp' \subseteq Submission
               /\ flow' \in [{"update", "restore", "schema"} ->
                     {"none", "admitted", "claimed", "accepted", "running", "terminal"}]
               /\ spent' \in [faults : Nat, crashes : Nat, restarts : Nat]
               /\ UNCHANGED <<exec, files, proof, helper, journal, published>>
    BY <1>5, ReconciledReceipts, ReconciledType DEF Admits, TypeOK
  <1>6. CASE RequestSchema
    BY <1>6, <1>5 DEF RequestSchema, TypeOK
  <1>7. CASE SchemaRuns \/ SchemaEnds
    BY <1>7, SpendsType DEF SchemaRuns, SchemaEnds, Fault, TypeOK
  <1>8. CASE RequestUpdate \/ RequestRestore
    BY <1>8, <1>5 DEF RequestUpdate, RequestRestore, TypeOK
  <1>9. CASE ReconcileUpdate \/ CancelUpdate
    BY <1>9 DEF ReconcileUpdate, CancelUpdate, EndUpdate, TypeOK
  <1>10. CASE ClaimRestore \/ FinishRestore \/ ClaimUpdate
    BY <1>10 DEF ClaimRestore, FinishRestore, ClaimUpdate, EndUpdate, TypeOK
  <1>11. CASE JournalMoves \/ PublishStatus \/ PublishTerminal \/ HelperBoots
    BY <1>11 DEF JournalMoves, PublishStatus, PublishTerminal, HelperBoots, TypeOK
  <1>12. CASE HelperRestarts
    BY <1>12, SpendsType DEF HelperRestarts, TypeOK
  <1>13. CASE UNCHANGED vars
    BY <1>13 DEF vars, TypeOK
  <1>14. QED
    BY <1>1, <1>2, <1>3, <1>4, <1>6, <1>7, <1>8, <1>9, <1>10, <1>11, <1>12, <1>13
       DEF Next, Help

\* The types hold at the start.
LEMMA TypeStart ==
    Init => TypeOK
  <1>1. ExecOff \in Exec /\ Unproved \in Proof
    BY DEF ExecOff, Exec, Place, Unproved, Proof
  <1>2. [state |-> "none", mine |-> FALSE, retry |-> FALSE, temp |-> FALSE,
         deferred |-> "none"] \in Receipt
    BY DEF Receipt
  <1>3. Init => /\ receipt \in [Submission -> Receipt] /\ exec \in [Submission -> Exec]
                /\ proof \in [Artifact -> Proof]
    BY <1>1, <1>2 DEF Init
  <1>4. Init => files \in [Artifact -> SUBSET (Data \cup {"state"})]
    BY DEF Init
  <1>5. Init => /\ temp \subseteq Submission
                /\ flow \in [{"update", "restore", "schema"} ->
                      {"none", "admitted", "claimed", "accepted", "running", "terminal"}]
                /\ spent \in [faults : Nat, crashes : Nat, restarts : Nat]
    BY DEF Init
  <1>6. Init => /\ helper = "idle" /\ journal = "none" /\ published = FALSE
                /\ schema = "off"
    BY DEF Init
  <1>7. QED BY <1>3, <1>4, <1>5, <1>6 DEF TypeOK

\* Receipts, threads, files, requests and helper keep their types, for every set of
\* submissions over any artifacts and any number of mishaps.
THEOREM TypeCorrect == Spec => []TypeOK
  <1>1. QED BY TypeStart, TypeStep, PTL DEF Spec

-----------------------------------------------------------------------------
(* The admission.                                                          *)

\* A reconciliation leaves alone what is not due, begins nothing, and what it does not
\* end waits for a cleanup.
LEMMA SettledFacts ==
    ASSUME TypeOK, NEW s \in Submission, NEW stuck \in SUBSET temp
    PROVE  LET r == Settled(s, stuck) IN
           /\ ~Due(s) => r = receipt[s]
           /\ r.mine = receipt[s].mine
           /\ r.state = "none" <=> receipt[s].state = "none"
           /\ r.state \in {"queued", "running"} => Active(s) /\ (r = receipt[s] \/ r.retry)
  <1>1. CASE ~Due(s)
    BY <1>1, SettledCases DEF Active
  <1>2. CASE Due(s) /\ receipt[s].temp /\ s \in stuck
    BY <1>2, SettledCases DEF Due, Active
  <1>3. CASE Due(s) /\ ~(receipt[s].temp /\ s \in stuck)
    BY <1>3, SettledCases DEF Due, Active, Terminal
  <1>4. QED BY <1>1, <1>2, <1>3

\* A flow is admitted when nothing else is, and finds every receipt ended.
LEMMA AdmitsFacts ==
    ASSUME TypeOK, NEW f \in DOMAIN flow, Admits(f)
    PROVE  /\ flow[f] = "none" /\ \A g \in DOMAIN flow \ {f} : ~Blocks(g)
           /\ \E stuck \in SUBSET temp :
                  Reconciled(stuck) /\ receipt' = [s \in Submission |-> Settled(s, stuck)]
           /\ \/ UNCHANGED flow
              \/ /\ flow' = [flow EXCEPT ![f] = IF f = "schema" THEN "accepted" ELSE "admitted"]
                 /\ \A s \in Submission : receipt'[s].state \notin {"queued", "running"}
           /\ UNCHANGED <<exec, helper, journal, published>>
  BY DEF Admits, update

\* What a thread of the api makes of its receipt: it keeps it active, and its own, or
\* ends it; a receipt it leaves active is due for a cleanup or a write of it failed.
LEMMA ExecuteFacts ==
    ASSUME TypeOK, ThreadsHold, NEW s \in Submission, Execute(s)
    PROVE  /\ exec[s].at # "off"
           /\ \A t \in Submission \ {s} : receipt'[t] = receipt[t] /\ exec'[t] = exec[t]
           /\ receipt'[s].state \in {"queued", "running"} \cup Terminal
           /\ exec'[s].at # "off" =>
                 /\ receipt'[s].state \in {"queued", "running"}
                 /\ receipt'[s].mine /\ ~receipt'[s].retry
           /\ receipt'[s].state \in {"queued", "running"} /\ exec'[s].at = "off" =>
                 receipt'[s].retry \/ spent'.faults > 0
           /\ spent'.faults >= spent.faults /\ spent'.crashes = spent.crashes
           /\ UNCHANGED <<flow, helper, journal, published, schema>>
  <1>a. /\ receipt \in [Submission -> Receipt] /\ exec \in [Submission -> Exec]
        /\ receipt' \in [Submission -> Receipt] /\ exec' \in [Submission -> Exec]
    BY ExecuteTypes DEF TypeOK
  <1>f. (Fault \/ UNCHANGED spent) => /\ spent'.faults >= spent.faults
                                    /\ spent'.crashes = spent.crashes
    BY SpendsType DEF Fault, Spends, TypeOK
  <1>g. Fault => spent'.faults > 0
    BY SpendsType DEF Fault
  <1>h. exec[s].at # "off" => Active(s) /\ receipt[s].mine /\ ~receipt[s].retry
    BY DEF ThreadsHold
  <1> USE DEF Active, Terminal, Untouched, update, Receipt, Exec, Goes, Stops, ExecOff
  <1>1. CASE Start(s)
    BY <1>1, <1>a, <1>f, <1>g, <1>h DEF Start
  <1>2. CASE CreateFile(s)
    BY <1>2, <1>a, <1>f, <1>g, <1>h DEF CreateFile
  <1>3. CASE CreateEvidence(s)
    BY <1>3, <1>a, <1>f, <1>g, <1>h DEF CreateEvidence, At
  <1>4. CASE CheckPreflight(s)
    BY <1>4, <1>a, <1>f, <1>g, <1>h DEF CheckPreflight, At
  <1>5. CASE CreateTarget(s)
    BY <1>5, <1>a, <1>f, <1>g, <1>h DEF CreateTarget, At
  <1>6. CASE RecordTarget(s)
    BY <1>6, <1>a, <1>f, <1>g, <1>h DEF RecordTarget, At
  <1>7. CASE RestoreToTarget(s)
    BY <1>7, <1>a, <1>f, <1>g, <1>h DEF RestoreToTarget, At
  <1>8. CASE CheckEvidence(s)
    BY <1>8, <1>a, <1>f, <1>g, <1>h DEF CheckEvidence, At, DefersFailure
  <1>9. CASE ClearTarget(s)
    BY <1>9, <1>a, <1>f, <1>g, <1>h DEF ClearTarget, At, DefersFailure
  <1>10. CASE Defer(s)
    BY <1>10, <1>a, <1>f, <1>g, <1>h DEF Defer, At, DefersFailure
  <1>11. CASE Unlink(s)
    BY <1>11, <1>a, <1>f, <1>g, <1>h DEF Unlink
  <1>12. CASE Answer(s)
    BY <1>12, <1>a, <1>f, <1>g, <1>h DEF Answer
  <1>13. CASE AnswerFailure(s)
    BY <1>13, <1>a, <1>f, <1>g, <1>h DEF AnswerFailure
  <1>14. QED
    BY <1>1, <1>2, <1>3, <1>4, <1>5, <1>6, <1>7, <1>8, <1>9, <1>10, <1>11, <1>12, <1>13
       DEF Execute

\* What leaves the receipts and the threads alone keeps what is said of them.
LEMMA BackupsKeep ==
    ASSUME TypeOK, TypeOK', Admitted, UNCHANGED <<receipt, exec, temp>>,
           spent'.faults >= spent.faults
    PROVE  /\ ThreadsHold' /\ Unbegun' /\ Compatible'
           /\ \A s \in Submission :
                  Active(s)' /\ exec'[s].at = "off" => Due(s)' \/ spent'.faults > 0
  <1>1. ThreadsHold' /\ Unbegun' /\ Compatible'
    BY DEF Admitted, ThreadsHold, Unbegun, Compatible, Active, Conflicts
  <1>2. \A s \in Submission : Active(s) /\ exec[s].at = "off" => Due(s) \/ spent.faults > 0
    BY DEF Admitted, LocksExplained
  <1>3. spent.faults > 0 => spent'.faults > 0
    BY DEF TypeOK
  <1>4. QED BY <1>1, <1>2, <1>3 DEF Active, Due

\* No flow begins to block: the exclusion of the flows stays.
LEMMA FlowsNarrow ==
    ASSUME TypeOK, TypeOK', OneFlow, FlowAlone,
           \A s \in Submission : Active(s)' => Active(s),
           \A f \in DOMAIN flow : Blocks(f)' => Blocks(f)
    PROVE  OneFlow' /\ FlowAlone'
  BY DEF OneFlow, FlowAlone, TypeOK

LEMMA BeginAdmitted ==
    ASSUME TypeOK, TypeOK', Admitted, NEW s \in Submission, Begin(s)
    PROVE  Admitted'
  <1> PICK stuck \in SUBSET temp :
        LET now == [t \in Submission |-> Settled(t, stuck)] IN
        /\ Reconciled(stuck)
        /\ IF \E t \in Submission : now[t].state \in {"queued", "running"} /\ Conflicts(s, t)
           THEN receipt' = now /\ UNCHANGED exec
           ELSE /\ receipt' = [now EXCEPT ![s].state = "queued", ![s].mine = TRUE]
                /\ exec' = [exec EXCEPT ![s].at = "accepted"]
    BY DEF Begin
  <1> DEFINE now == [t \in Submission |-> Settled(t, stuck)]
  <1>n. \A t \in Submission :
            /\ ~Due(t) => now[t] = receipt[t]
            /\ now[t].mine = receipt[t].mine
            /\ now[t].state = "none" <=> receipt[t].state = "none"
            /\ now[t].state \in {"queued", "running"} => Active(t) /\ (now[t] = receipt[t] \/ now[t].retry)
    BY SettledFacts
  <1>f. /\ UNCHANGED <<flow, helper, journal, published, schema>>
        /\ \A f \in DOMAIN flow : ~Blocks(f)
        /\ receipt[s].state = "none"
    BY DEF Begin, update
  <1>t. temp' \subseteq temp
    BY DEF Reconciled
  <1>s. spent'.faults >= spent.faults /\ spent'.crashes = spent.crashes
    BY ReconciledType
  <1>y. now \in [Submission -> Receipt]
    BY ReconciledReceipts
  <1>o. exec[s].at = "off" /\ ~Due(s) /\ now[s] = receipt[s]
        /\ ~receipt[s].retry /\ ~receipt[s].temp /\ s \notin temp
    BY <1>n, <1>f DEF Admitted, ThreadsHold, Unbegun, Active, Due
  <1>r. \/ receipt' = now /\ exec' = exec
        \/ /\ receipt' = [now EXCEPT ![s].state = "queued", ![s].mine = TRUE]
           /\ exec' = [exec EXCEPT ![s].at = "accepted"]
           /\ \A t \in Submission : now[t].state \in {"queued", "running"} => ~Conflicts(s, t)
    OBVIOUS
  <1> HIDE DEF now
  <1>c. \A t \in Submission \ {s} : receipt'[t] = now[t] /\ exec'[t] = exec[t]
    BY <1>r, <1>y DEF TypeOK
  <1>d. \/ receipt'[s] = receipt[s] /\ exec'[s] = exec[s]
        \/ /\ receipt'[s].state = "queued" /\ receipt'[s].mine /\ ~receipt'[s].retry
           /\ exec'[s].at = "accepted"
           /\ \A t \in Submission : now[t].state \in {"queued", "running"} => ~Conflicts(s, t)
    BY <1>r, <1>y, <1>o DEF TypeOK, Receipt, Exec
  <1>1. ThreadsHold'
    BY <1>c, <1>d, <1>n DEF Admitted, ThreadsHold, Active, Due
  <1>2. Unbegun'
    BY <1>c, <1>d, <1>n, <1>t DEF Admitted, Unbegun, Due, Active
  <1>3. OneFlow' /\ FlowAlone' /\ WorkClaimed'
    BY <1>f DEF Admitted, OneFlow, FlowAlone, WorkClaimed, Blocks
  <1>4. Compatible'
    BY <1>c, <1>d, <1>n DEF Admitted, Compatible, Active, Conflicts
  <1>5. LocksExplained'
    <2>1. ASSUME NEW t \in Submission, Active(t)', exec'[t].at = "off"
          PROVE  Due(t)' \/ spent'.faults > 0
      <3>1. Active(t) /\ exec[t].at = "off" /\ (receipt'[t] = receipt[t] \/ receipt'[t].retry)
        BY <2>1, <1>c, <1>d, <1>n, <1>o DEF Active
      <3>2. Due(t) \/ spent.faults > 0
        BY <3>1 DEF Admitted, LocksExplained
      <3>3. QED BY <2>1, <3>1, <3>2, <1>s DEF Due, Active, TypeOK
    <2>2. ~Blocks("schema")'
      BY <1>f DEF Blocks, TypeOK
    <2>3. QED BY <2>1, <2>2 DEF LocksExplained
  <1>6. QED BY <1>1, <1>2, <1>3, <1>4, <1>5 DEF Admitted

LEMMA ExecuteAdmitted ==
    ASSUME TypeOK, TypeOK', Admitted, NEW s \in Submission, Execute(s)
    PROVE  Admitted'
  <1>h. ThreadsHold
    BY DEF Admitted
  <1>f. UNCHANGED <<flow, helper, journal, published, schema>>
    BY <1>h, ExecuteFacts
  <1>s. spent'.faults >= spent.faults /\ spent'.crashes = spent.crashes
    BY <1>h, ExecuteFacts
  <1>c. \A t \in Submission \ {s} : receipt'[t] = receipt[t] /\ exec'[t] = exec[t]
    BY <1>h, ExecuteFacts
  <1>a. Active(s)
    BY <1>h, ExecuteFacts DEF ThreadsHold
  <1>1. ThreadsHold'
    BY <1>h, <1>c, ExecuteFacts DEF ThreadsHold, Active
  <1>2. Unbegun'
    <2>1. receipt'[s].state # "none"
      BY <1>h, ExecuteFacts DEF Terminal
    <2>2. \A t \in Submission \ {s} : t \in temp' => t \in temp
      BY DEF Execute, Start, CreateFile, CreateEvidence, CheckPreflight, CreateTarget,
             RecordTarget, RestoreToTarget, CheckEvidence, ClearTarget, Defer, Unlink, Answer,
             AnswerFailure
    <2>3. QED BY <2>1, <2>2, <1>c DEF Admitted, Unbegun
  <1>3. OneFlow' /\ FlowAlone' /\ WorkClaimed'
    BY <1>f, <1>c, <1>a DEF Admitted, OneFlow, FlowAlone, WorkClaimed, Blocks, Active
  <1>4. Compatible'
    BY <1>c, <1>a DEF Admitted, Compatible, Active, Conflicts
  <1>5. LocksExplained'
    <2>1. ASSUME NEW t \in Submission, Active(t)', exec'[t].at = "off"
          PROVE  Due(t)' \/ spent'.faults > 0
      <3>1. CASE t = s
        BY <2>1, <3>1, <1>h, ExecuteFacts DEF Due, Active
      <3>2. CASE t # s
        BY <2>1, <3>2, <1>c, <1>s DEF Admitted, LocksExplained, Due, Active, TypeOK
      <3>3. QED BY <3>1, <3>2
    <2>2. QED BY <2>1, <1>f, <1>s DEF Admitted, LocksExplained, Blocks, TypeOK
  <1>6. QED BY <1>1, <1>2, <1>3, <1>4, <1>5 DEF Admitted

\* A reconciliation of the receipts, and the admission of a flow that may follow it.
LEMMA AdmitsAdmitted ==
    ASSUME TypeOK, TypeOK', Admitted, NEW stuck \in SUBSET temp, Reconciled(stuck),
           receipt' = [s \in Submission |-> Settled(s, stuck)], UNCHANGED exec,
           UNCHANGED <<helper, journal, published>>,
           \/ UNCHANGED <<flow, schema>>
           \/ \E f \in DOMAIN flow :
                 /\ flow[f] = "none" /\ \A g \in DOMAIN flow \ {f} : ~Blocks(g)
                 /\ \A s \in Submission : receipt'[s].state \notin {"queued", "running"}
                 /\ flow' = [flow EXCEPT ![f] = IF f = "schema" THEN "accepted" ELSE "admitted"]
                 /\ schema' = IF f = "schema" THEN "accepted" ELSE schema
    PROVE  Admitted'
  <1>n. \A t \in Submission :
            /\ ~Due(t) => receipt'[t] = receipt[t]
            /\ receipt'[t].mine = receipt[t].mine
            /\ receipt'[t].state = "none" <=> receipt[t].state = "none"
            /\ receipt'[t].state \in {"queued", "running"} =>
                  Active(t) /\ (receipt'[t] = receipt[t] \/ receipt'[t].retry)
    BY SettledFacts
  <1>t. temp' \subseteq temp
    BY DEF Reconciled
  <1>s. spent'.faults >= spent.faults /\ spent'.crashes = spent.crashes
    BY ReconciledType
  <1>1. ThreadsHold'
    BY <1>n DEF Admitted, ThreadsHold, Active, Due
  <1>2. Unbegun'
    BY <1>n, <1>t DEF Admitted, Unbegun, Due, Active
  <1>4. Compatible'
    BY <1>n DEF Admitted, Compatible, Active, Conflicts
  <1>5. \A t \in Submission :
            Active(t)' /\ exec'[t].at = "off" => Due(t)' \/ spent'.faults > 0
    <2> SUFFICES ASSUME NEW t \in Submission, Active(t)', exec'[t].at = "off"
                 PROVE  Due(t)' \/ spent'.faults > 0
      OBVIOUS
    <2>1. Active(t) /\ exec[t].at = "off" /\ (receipt'[t] = receipt[t] \/ receipt'[t].retry)
      BY <1>n DEF Active
    <2>2. Due(t) \/ spent.faults > 0
      BY <2>1 DEF Admitted, LocksExplained
    <2>3. QED BY <2>1, <2>2, <1>s DEF Due, Active, TypeOK
  <1>6. CASE UNCHANGED <<flow, schema>>
    <2>1. OneFlow' /\ FlowAlone'
      BY <1>6, <1>n, FlowsNarrow DEF Admitted, Active, Blocks
    <2>2. WorkClaimed'
      BY <1>6 DEF Admitted, WorkClaimed
    <2>3. LocksExplained'
      BY <1>5, <1>6, <1>s DEF Admitted, LocksExplained, Blocks, TypeOK
    <2>4. QED BY <1>1, <1>2, <1>4, <2>1, <2>2, <2>3 DEF Admitted
  <1>7. ASSUME NEW f \in DOMAIN flow,
               flow[f] = "none", \A g \in DOMAIN flow \ {f} : ~Blocks(g),
               \A s \in Submission : receipt'[s].state \notin {"queued", "running"},
               flow' = [flow EXCEPT ![f] = IF f = "schema" THEN "accepted" ELSE "admitted"],
               schema' = IF f = "schema" THEN "accepted" ELSE schema
        PROVE  Admitted'
    <2>1. OneFlow' /\ FlowAlone'
      BY <1>7 DEF OneFlow, FlowAlone, Blocks, Active, TypeOK
    <2>2. WorkClaimed'
      BY <1>7 DEF Admitted, WorkClaimed, TypeOK
    <2>3. Blocks("schema")' /\ schema' = "off" => spent'.crashes + spent'.faults > 0
      BY <1>7, <1>s DEF Admitted, LocksExplained, Blocks, TypeOK
    <2>4. LocksExplained'
      BY <1>5, <2>3 DEF LocksExplained
    <2>5. QED BY <1>1, <1>2, <1>4, <2>1, <2>2, <2>4 DEF Admitted
  <1>8. QED BY <1>6, <1>7

\* The steps of the schema operation, the update, the restore and the helper.
LEMMA FlowsAdmitted ==
    ASSUME TypeOK, TypeOK', Admitted, UNCHANGED <<receipt, exec, temp>>,
           spent'.faults >= spent.faults,
           \A f \in DOMAIN flow : Blocks(f)' => Blocks(f),
           WorkClaimed',
           Blocks("schema")' /\ schema' = "off" => spent'.crashes + spent'.faults > 0
    PROVE  Admitted'
  <1>1. ThreadsHold' /\ Unbegun' /\ Compatible'
        /\ \A s \in Submission :
               Active(s)' /\ exec'[s].at = "off" => Due(s)' \/ spent'.faults > 0
    BY BackupsKeep
  <1>2. OneFlow' /\ FlowAlone'
    BY FlowsNarrow DEF Admitted, Active
  <1>3. LocksExplained'
    BY <1>1 DEF LocksExplained
  <1>4. QED BY <1>1, <1>2, <1>3 DEF Admitted

LEMMA AdmittedStep ==
    ASSUME ~Strays, TypeOK, Admitted, [Next]_vars
    PROVE  Admitted'
  <1>t. TypeOK'
    BY TypeStep
  <1>w. WorkClaimed
    BY DEF Admitted
  <1>l. Blocks("schema") /\ schema = "off" => spent.crashes + spent.faults > 0
    BY DEF Admitted, LocksExplained
  <1>f. Fault => /\ spent'.faults > 0 /\ spent'.faults >= spent.faults
                 /\ spent'.crashes = spent.crashes
    BY SpendsType DEF Fault
  <1> USE DEF update, backups
  <1>1. ASSUME NEW s \in Submission, Begin(s)
        PROVE  Admitted'
    BY <1>1, <1>t, BeginAdmitted
  <1>2. ASSUME NEW s \in Submission, Execute(s)
        PROVE  Admitted'
    BY <1>2, <1>t, ExecuteAdmitted
  <1>3. CASE Reconcile
    BY <1>3, <1>t, AdmitsAdmitted DEF Reconcile
  <1>4. CASE ApiCrashes
    <2>1. /\ \A s \in Submission : exec'[s].at = "off"
          /\ \A s \in Submission :
                 /\ receipt'[s].state = receipt[s].state /\ ~receipt'[s].mine
                 /\ receipt'[s].retry = receipt[s].retry /\ receipt'[s].temp = receipt[s].temp
                 /\ receipt'[s].deferred = receipt[s].deferred
          /\ UNCHANGED <<temp, flow, helper, journal, published>> /\ schema' = "off"
      BY <1>4 DEF ApiCrashes, ExecOff, TypeOK, Receipt
    <2>2. spent'.crashes > 0 /\ spent'.faults >= spent.faults
      BY <1>4, SpendsType DEF ApiCrashes
    <2>3. ThreadsHold' /\ Unbegun' /\ Compatible'
      BY <2>1 DEF Admitted, ThreadsHold, Unbegun, Compatible, Active, Conflicts
    <2>4. OneFlow' /\ FlowAlone' /\ WorkClaimed'
      BY <2>1 DEF Admitted, OneFlow, FlowAlone, WorkClaimed, Blocks, Active
    <2>5. LocksExplained'
      BY <2>1, <2>2, <1>t DEF LocksExplained, Due, TypeOK
    <2>6. QED BY <2>3, <2>4, <2>5 DEF Admitted
  <1>5. CASE RequestSchema \/ RequestUpdate \/ RequestRestore
    <2>1. PICK f \in DOMAIN flow :
              /\ Admits(f)
              /\ schema' = IF f = "schema" /\ flow'["schema"] = "accepted" THEN "accepted"
                           ELSE schema
      BY <1>5 DEF RequestSchema, RequestUpdate, RequestRestore, TypeOK
    <2>2. PICK stuck \in SUBSET temp :
              Reconciled(stuck) /\ receipt' = [s \in Submission |-> Settled(s, stuck)]
      BY <2>1, AdmitsFacts
    <2>3. CASE UNCHANGED flow
      <3>1. UNCHANGED schema
        BY <2>1, <2>3 DEF Admits
      <3>2. QED BY <2>1, <2>2, <2>3, <3>1, <1>t, AdmitsFacts, AdmitsAdmitted
    <2>4. CASE /\ flow' = [flow EXCEPT ![f] = IF f = "schema" THEN "accepted" ELSE "admitted"]
               /\ \A s \in Submission : receipt'[s].state \notin {"queued", "running"}
      <3>1. schema' = IF f = "schema" THEN "accepted" ELSE schema
        BY <2>1, <2>4
      <3>2. QED BY <2>1, <2>2, <2>4, <3>1, <1>t, AdmitsFacts, AdmitsAdmitted
    <2>5. QED BY <2>1, <2>3, <2>4, AdmitsFacts
  <1>6. CASE SchemaRuns \/ SchemaEnds
    <2>1. /\ spent'.faults >= spent.faults
          /\ \A f \in DOMAIN flow : Blocks(f)' => Blocks(f)
      BY <1>6, <1>w, <1>f DEF SchemaRuns, SchemaEnds, Blocks, WorkClaimed, TypeOK
    <2>2. WorkClaimed'
      BY <1>6, <1>w DEF SchemaRuns, SchemaEnds, WorkClaimed, TypeOK
    <2>3. Blocks("schema")' /\ schema' = "off" => spent'.crashes + spent'.faults > 0
      BY <1>6, <1>t, <1>f DEF SchemaRuns, SchemaEnds, Blocks, TypeOK
    <2>4. QED BY <1>6, <2>1, <2>2, <2>3, <1>t, FlowsAdmitted DEF SchemaRuns, SchemaEnds
  <1>7. CASE \/ ReconcileUpdate \/ CancelUpdate \/ ClaimRestore \/ FinishRestore \/ ClaimUpdate
             \/ JournalMoves \/ PublishStatus \/ PublishTerminal \/ HelperBoots
             \/ HelperRestarts \/ UNCHANGED vars
    <2>1. spent'.faults >= spent.faults /\ spent'.crashes >= spent.crashes
          /\ UNCHANGED <<receipt, exec, temp, schema>>
      BY <1>7, SpendsType
         DEF ReconcileUpdate, CancelUpdate, ClaimRestore, FinishRestore, ClaimUpdate,
             JournalMoves, PublishStatus, PublishTerminal, HelperBoots, HelperRestarts, vars, TypeOK
    <2>2. \A f \in DOMAIN flow : Blocks(f)' => Blocks(f)
      BY <1>7 DEF ReconcileUpdate, CancelUpdate, EndUpdate, ClaimRestore, FinishRestore,
             ClaimUpdate, JournalMoves, PublishStatus, PublishTerminal, HelperBoots,
             HelperRestarts, vars, Blocks, TypeOK
    <2>3. WorkClaimed'
      <3>1. CASE ReconcileUpdate \/ CancelUpdate
        BY <3>1, <1>w DEF ReconcileUpdate, CancelUpdate, EndUpdate, LeaseFree, WorkClaimed, TypeOK
      <3>2. CASE ClaimRestore \/ FinishRestore
        BY <3>2, <1>w DEF ClaimRestore, FinishRestore, WorkClaimed, TypeOK
      <3>3. CASE ClaimUpdate
        BY <3>3, <1>w DEF ClaimUpdate, EndUpdate, WorkClaimed, TypeOK
      <3>4. CASE JournalMoves \/ PublishStatus \/ PublishTerminal
        BY <3>4, <1>w DEF JournalMoves, PublishStatus, PublishTerminal, WorkClaimed, TypeOK
      <3>5. CASE HelperBoots \/ HelperRestarts \/ UNCHANGED vars
        BY <3>5, <1>w DEF HelperBoots, HelperRestarts, vars, WorkClaimed
      <3>6. QED BY <1>7, <3>1, <3>2, <3>3, <3>4, <3>5
    <2>4. Blocks("schema")' /\ schema' = "off" => spent'.crashes + spent'.faults > 0
      BY <2>1, <2>2, <1>l, <1>t DEF TypeOK
    <2>5. QED BY <2>1, <2>2, <2>3, <2>4, <1>t, FlowsAdmitted
  <1>8. QED
    BY <1>1, <1>2, <1>3, <1>4, <1>5, <1>6, <1>7 DEF Next, Help

-----------------------------------------------------------------------------
(* The temporary databases.                                                *)

\* What is said of one operation depends on its own receipt, thread and database.
LEMMA TempKeeps ==
    ASSUME TypeOK, TypeOK', NEW s \in Submission, TempKnown(s),
           receipt'[s] = receipt[s], exec'[s] = exec[s], s \in temp' <=> s \in temp,
           spent'.crashes >= spent.crashes
    PROVE  TempKnown(s)'
  BY DEF TempKnown, Accounted, OfCheck, TempStages, Active, TypeOK

\* Where a thread went is where it is; what it has seen it still knows.
LEMMA GoesAt ==
    ASSUME TypeOK, NEW s \in Submission, NEW at, Goes(s, at)
    PROVE  /\ exec'[s].at = at
           /\ exec'[s].passed = exec[s].passed /\ exec'[s].clean = exec[s].clean
  BY DEF Goes, TypeOK, Exec

LEMMA StopsAt ==
    ASSUME TypeOK, NEW s \in Submission
    PROVE  /\ Stops(s) => exec'[s] = ExecOff /\ exec'[s].at = "off"
           /\ DefersFailure(s) =>
                 exec'[s].at = "defer" /\ ~exec'[s].passed /\ ~exec'[s].clean
  <1>1. s \in DOMAIN exec
    BY DEF TypeOK
  <1>2. Stops(s) => exec'[s] = ExecOff /\ exec'[s].at = "off"
    BY <1>1 DEF Stops, ExecOff
  <1>3. DefersFailure(s) => exec'[s] = [at |-> "defer", passed |-> FALSE, clean |-> FALSE]
    BY <1>1 DEF DefersFailure
  <1>4. QED BY <1>2, <1>3

LEMMA TempExecute ==
    ASSUME TypeOK, TypeOK', Admitted, NEW s \in Submission, Execute(s), TempKnown(s)
    PROVE  TempKnown(s)'
  <1>a. /\ receipt[s] \in Receipt /\ exec[s] \in Exec
        /\ receipt'[s] \in Receipt /\ exec'[s] \in Exec
        /\ receipt \in [Submission -> Receipt] /\ exec \in [Submission -> Exec]
        /\ temp \subseteq Submission
    BY DEF TypeOK
  <1>h. exec[s].at # "off" => Active(s)
    BY DEF Admitted, ThreadsHold
  <1>k. KindOf[s] \in {"create", "check", "delete"}
    BY ConstantsAssumption
  <1> USE DEF TempKnown, Accounted, OfCheck, TempStages, Active, Receipt, Exec, Goes, Stops, ExecOff
  <1>1. CASE Start(s)
    BY <1>1, <1>a, <1>h, <1>k DEF Start
  <1>2. CASE CreateFile(s)
    BY <1>2, <1>a, <1>h, <1>k DEF CreateFile
  <1>3. CASE CreateEvidence(s)
    BY <1>3, <1>a, <1>h, <1>k DEF CreateEvidence, At
  <1>4. CASE CheckPreflight(s)
    BY <1>4, <1>a, <1>h, <1>k DEF CheckPreflight, At
  <1>5. CASE CreateTarget(s)
    <2>1. /\ KindOf[s] = "check" /\ exec[s].at = "target" /\ receipt' = receipt
          /\ Active(s) /\ ~receipt[s].temp /\ s \notin temp
      BY <1>5, <1>h DEF CreateTarget, At
    <2>2. \/ exec'[s].at = "record"
          \/ exec'[s].at = "failing" /\ temp' = temp
      BY <1>5, GoesAt DEF CreateTarget
    <2>3. CASE exec'[s].at = "record"
      <3>1. Accounted(s)'
        BY <2>3
      <3>2. OfCheck(s)'
        BY <2>1
      <3>3. TempStages(s)'
        BY <2>1, <2>3
      <3>4. QED BY <3>1, <3>2, <3>3
    <2>4. CASE exec'[s].at = "failing" /\ temp' = temp
      BY <2>1, <2>4
    <2>5. QED BY <2>2, <2>3, <2>4
  <1>6. CASE RecordTarget(s)
    BY <1>6, <1>a, <1>h, <1>k DEF RecordTarget, At
  <1>7. CASE RestoreToTarget(s)
    BY <1>7, <1>a, <1>h, <1>k DEF RestoreToTarget, At
  <1>8. CASE CheckEvidence(s)
    BY <1>8, <1>a, <1>h, <1>k DEF CheckEvidence, At, DefersFailure
  <1>9. CASE ClearTarget(s)
    <2>1. /\ KindOf[s] = "check" /\ exec[s].at = "clear" /\ temp' = temp
          /\ Active(s) /\ s \notin temp
      BY <1>9, <1>h DEF ClearTarget, At
    <2>2. \/ /\ receipt' = [receipt EXCEPT ![s].temp = FALSE]
             /\ exec'[s].at = "answer"
          \/ receipt' = receipt /\ exec'[s].at = "defer"
      BY <1>9, GoesAt, StopsAt DEF ClearTarget
    <2>3. QED BY <2>1, <2>2, <1>a
  <1>10. CASE Defer(s)
    BY <1>10, <1>a, <1>h, <1>k DEF Defer, At, DefersFailure
  <1>11. CASE Unlink(s)
    BY <1>11, <1>a, <1>h, <1>k DEF Unlink
  <1>12. CASE Answer(s)
    BY <1>12, <1>a, <1>h, <1>k DEF Answer
  <1>13. CASE AnswerFailure(s)
    BY <1>13, <1>a, <1>h, <1>k DEF AnswerFailure
  <1>14. QED
    BY <1>1, <1>2, <1>3, <1>4, <1>5, <1>6, <1>7, <1>8, <1>9, <1>10, <1>11, <1>12, <1>13
       DEF Execute

\* A reconciliation drops the databases it can, and remembers the others.
LEMMA TempReconciled ==
    ASSUME TypeOK, TypeOK', Admitted, NEW stuck \in SUBSET temp, Reconciled(stuck),
           NEW s \in Submission, TempKnown(s),
           receipt'[s] = Settled(s, stuck), exec'[s] = exec[s]
    PROVE  TempKnown(s)'
  <1>s. spent'.crashes = spent.crashes
    BY ReconciledType
  <1>1. CASE ~Due(s)
    <2>1. receipt'[s] = receipt[s] /\ (s \in temp' <=> s \in temp)
      BY <1>1, SettledCases DEF Reconciled
    <2>2. QED BY <2>1, <1>s, TempKeeps DEF TypeOK
  <1>2. CASE Due(s)
    <2>1. exec'[s].at = "off"
      BY <1>2 DEF Admitted, ThreadsHold, Due
    <2>2. CASE receipt[s].temp /\ s \in stuck
      BY <1>2, <2>1, <2>2, SettledCases DEF TempKnown, Accounted, OfCheck, TempStages, Active
    <2>3. CASE ~(receipt[s].temp /\ s \in stuck)
      <3>1. s \in temp' => s \in temp /\ ~receipt[s].temp
        BY <1>2, <2>3 DEF Reconciled
      <3>2. QED
        BY <1>2, <1>s, <2>1, <2>3, <3>1, SettledCases
           DEF TempKnown, Accounted, OfCheck, TempStages
    <2>4. QED BY <2>2, <2>3
  <1>3. QED BY <1>1, <1>2

LEMMA TempsStep ==
    ASSUME TypeOK, Admitted, TempsKnown, [Next]_vars
    PROVE  TempsKnown'
  <1>t. TypeOK'
    BY TypeStep
  <1> USE DEF update, backups
  <1>1. ASSUME NEW s \in Submission, Begin(s)
        PROVE  TempsKnown'
    <2> PICK stuck \in SUBSET temp :
          LET now == [t \in Submission |-> Settled(t, stuck)] IN
          /\ Reconciled(stuck)
          /\ IF \E t \in Submission : now[t].state \in {"queued", "running"} /\ Conflicts(s, t)
             THEN receipt' = now /\ UNCHANGED exec
             ELSE /\ receipt' = [now EXCEPT ![s].state = "queued", ![s].mine = TRUE]
                  /\ exec' = [exec EXCEPT ![s].at = "accepted"]
      BY <1>1 DEF Begin
    <2> DEFINE now == [t \in Submission |-> Settled(t, stuck)]
    <2>1. \/ receipt' = now /\ exec' = exec
          \/ /\ receipt' = [now EXCEPT ![s].state = "queued", ![s].mine = TRUE]
             /\ exec' = [exec EXCEPT ![s].at = "accepted"]
      OBVIOUS
    <2>2. now \in [Submission -> Receipt] /\ \A t \in Submission : now[t] = Settled(t, stuck)
      BY ReconciledReceipts
    <2>3. receipt[s].state = "none" /\ now[s] = receipt[s] /\ ~receipt[s].temp /\ s \notin temp
      BY <1>1, <2>2, SettledFacts DEF Begin, Admitted, Unbegun, Due, Active
    <2> HIDE DEF now
    <2>4. ASSUME NEW t \in Submission, receipt'[t] = now[t], exec'[t] = exec[t]
          PROVE  TempKnown(t)'
      BY <1>t, <2>2, <2>4, TempReconciled DEF TempsKnown
    <2>5. ASSUME NEW t \in Submission, t # s
          PROVE  TempKnown(t)'
      <3>1. receipt'[t] = now[t] /\ exec'[t] = exec[t]
        BY <2>1, <2>2, <2>5 DEF TypeOK
      <3>2. QED BY <2>4, <3>1
    <2>6. TempKnown(s)'
      <3>1. CASE receipt' = now /\ exec' = exec
        BY <2>4, <3>1
      <3>2. CASE /\ receipt' = [now EXCEPT ![s].state = "queued", ![s].mine = TRUE]
                 /\ exec' = [exec EXCEPT ![s].at = "accepted"]
        <4>1. /\ receipt'[s].temp = receipt[s].temp /\ receipt'[s].deferred = receipt[s].deferred
              /\ exec'[s].at = "accepted"
          BY <2>2, <2>3, <3>2 DEF TypeOK, Receipt, Exec
        <4>2. s \notin temp'
          BY <2>3 DEF Reconciled
        <4>3. QED
          BY <2>3, <4>1, <4>2 DEF TempsKnown, TempKnown, Accounted, OfCheck, TempStages
      <3>3. QED BY <2>1, <3>1, <3>2
    <2>7. QED BY <2>5, <2>6 DEF TempsKnown
  <1>2. ASSUME NEW s \in Submission, Execute(s)
        PROVE  TempsKnown'
    <2>1. TempKnown(s)'
      BY <1>2, <1>t, TempExecute DEF TempsKnown
    <2>2. ASSUME NEW t \in Submission \ {s}
          PROVE  TempKnown(t)'
      <3>1. /\ receipt'[t] = receipt[t] /\ exec'[t] = exec[t]
            /\ spent'.crashes = spent.crashes
        BY <1>2, ExecuteFacts DEF Admitted
      <3>2. t \in temp' <=> t \in temp
        BY <1>2 DEF Execute, Start, CreateFile, CreateEvidence, CheckPreflight, CreateTarget,
             RecordTarget, RestoreToTarget, CheckEvidence, ClearTarget, Defer, Unlink, Answer,
             AnswerFailure
      <3>3. QED BY <1>t, <3>1, <3>2, TempKeeps DEF TempsKnown, TypeOK
    <2>3. QED BY <2>1, <2>2 DEF TempsKnown
  <1>3. CASE Reconcile \/ RequestSchema \/ RequestUpdate \/ RequestRestore
    <2>1. PICK stuck \in SUBSET temp :
              /\ Reconciled(stuck) /\ UNCHANGED exec
              /\ receipt' = [s \in Submission |-> Settled(s, stuck)]
      BY <1>3 DEF Reconcile, RequestSchema, RequestUpdate, RequestRestore, Admits
    <2>2. QED BY <1>t, <2>1, TempReconciled DEF TempsKnown
  <1>4. CASE ApiCrashes
    <2> SUFFICES ASSUME NEW s \in Submission PROVE TempKnown(s)'
      BY DEF TempsKnown
    <2>1. /\ exec'[s].at = "off" /\ UNCHANGED temp
          /\ receipt'[s].state = receipt[s].state /\ receipt'[s].temp = receipt[s].temp
          /\ receipt'[s].deferred = receipt[s].deferred
      BY <1>4 DEF ApiCrashes, ExecOff, TypeOK, Receipt
    <2>2. spent'.crashes > 0
      BY <1>4, SpendsType DEF ApiCrashes
    <2>3. QED
      BY <2>1, <2>2 DEF TempsKnown, TempKnown, Accounted, OfCheck, TempStages, Active
  <1>5. CASE \/ SchemaRuns \/ SchemaEnds
             \/ ReconcileUpdate \/ CancelUpdate \/ ClaimRestore \/ FinishRestore \/ ClaimUpdate
             \/ JournalMoves \/ PublishStatus \/ PublishTerminal \/ HelperBoots
             \/ HelperRestarts \/ UNCHANGED vars
    <2>1. UNCHANGED <<receipt, exec, temp>> /\ spent'.crashes >= spent.crashes
      BY <1>5, SpendsType
         DEF SchemaRuns, SchemaEnds, Fault, ReconcileUpdate, CancelUpdate, ClaimRestore,
             FinishRestore, ClaimUpdate, JournalMoves, PublishStatus, PublishTerminal,
             HelperBoots, HelperRestarts, vars, TypeOK
    <2>2. QED BY <1>t, <2>1, TempKeeps DEF TempsKnown
  <1>6. QED
    BY <1>1, <1>2, <1>3, <1>4, <1>5 DEF Next, Help

-----------------------------------------------------------------------------
(* The files of an artifact.                                               *)

\* Nobody goes back: what one operation claims of the files it claimed before, or has
\* just seen.
Proceeds(s) ==
    /\ Early(s)' => Early(s)
    /\ KindOf[s] = "create" => Written(s)' \subseteq Written(s)
    /\ Inspects(s)' => Inspects(s) \/ Whole(ArtifactOf[s])
    /\ Unlinks(s)' => Unlinks(s) /\ exec'[s].at = exec[s].at
    /\ Begun(s) => Begun(s)'

LEMMA IdleProceeds ==
    ASSUME NEW s \in Submission, receipt'[s] = receipt[s], exec'[s] = exec[s]
    PROVE  Proceeds(s)
  BY DEF Proceeds, Early, Written, Inspects, Unlinks, Begun, Active

\* Files of a backup are neither added nor removed, and the state file of an artifact
\* that a deletion is through with is not written.
LEMMA FilesStay ==
    ASSUME TypeOK, FilesAgree, \A s \in Submission : Proceeds(s), Unproven',
           \A a \in Artifact, x \in Data : x \in files'[a] <=> x \in files[a],
           \A s \in Submission :
               Unlinks(s)' /\ exec'[s].at = "answer" => files'[ArtifactOf[s]] = files[ArtifactOf[s]]
    PROVE  FilesAgree'
  <1>a. \A s \in Submission : ArtifactOf[s] \in Artifact
    BY DEF Artifact
  <1>1. Unlisted'
    BY <1>a DEF FilesAgree, Unlisted, Proceeds, Data
  <1>2. Built'
    <2> SUFFICES ASSUME NEW c \in Submission, KindOf[c] = "create"
                 PROVE  Written(c)' \subseteq files'[ArtifactOf[c]] \/ Deleted(ArtifactOf[c])'
      BY DEF Built
    <2>1. CASE Deleted(ArtifactOf[c])
      BY <2>1 DEF Deleted, Proceeds
    <2>2. CASE Written(c) \subseteq files[ArtifactOf[c]]
      <3>1. Written(c) \subseteq Data
        BY DEF Written, Data
      <3>2. Written(c)' \subseteq Written(c)
        BY DEF Proceeds
      <3>3. QED BY <2>2, <3>1, <3>2, <1>a
    <2>3. QED BY <2>1, <2>2 DEF FilesAgree, Built
  <1>3. Inspected'
    BY <1>a DEF FilesAgree, Inspected, Proceeds, Whole
  <1>4. Unlinked'
    BY DEF FilesAgree, Unlinked, Proceeds
  <1>5. QED BY <1>1, <1>2, <1>3, <1>4 DEF FilesAgree

\* The state files of artifacts, and what no longer speaks of a check.
LEMMA ProofsStay ==
    ASSUME Unproven, UNCHANGED proof, \A s \in Submission : Unchecked(s)' => Unchecked(s)
    PROVE  Unproven'
  BY DEF Unproven

LEMMA ProofsWritten ==
    ASSUME TypeOK, Unproven, NEW s \in Submission,
           NEW p \in Proof, Writes(ArtifactOf[s], p),
           p.checked \in {Nobody, proof[ArtifactOf[s]].checked, s},
           p.checked = s => ~Unchecked(s)',
           \A t \in Submission : Unchecked(t)' => Unchecked(t)
    PROVE  Unproven'
  <1> SUFFICES ASSUME NEW t \in Submission, KindOf[t] = "check", Unchecked(t)'
               PROVE  proof'[ArtifactOf[t]].checked # t
    BY DEF Unproven
  <1>1. proof[ArtifactOf[t]].checked # t
    BY DEF Unproven
  <1>2. ArtifactOf[t] \in Artifact /\ ArtifactOf[s] \in Artifact /\ t # Nobody
    BY ConstantsAssumption DEF Artifact
  <1>3. CASE ArtifactOf[t] = ArtifactOf[s]
    <2>1. proof'[ArtifactOf[t]] = p
      BY <1>2, <1>3 DEF Writes, TypeOK
    <2>2. QED BY <1>1, <1>2, <1>3, <2>1
  <1>4. CASE ArtifactOf[t] # ArtifactOf[s]
    BY <1>1, <1>2, <1>4 DEF Writes, TypeOK
  <1>5. QED BY <1>3, <1>4

\* A state file adds no file of the backup.
LEMMA WritesData ==
    ASSUME TypeOK, NEW a \in Artifact, NEW p, Writes(a, p)
    PROVE  /\ \A b \in Artifact, x \in Data : x \in files'[b] <=> x \in files[b]
           /\ \A b \in Artifact \ {a} : files'[b] = files[b]
  BY DEF Writes, TypeOK, Data

\* A creation has its artifact to itself, but for checks and deletions.
LEMMA CreateFileAgrees ==
    ASSUME TypeOK, TypeOK', Admitted, FilesAgree,
           NEW s \in Submission, CreateFile(s)
    PROVE  FilesAgree'
  <1> DEFINE a == ArtifactOf[s]
  <1>a. /\ \A t \in Submission : ArtifactOf[t] \in Artifact
        /\ \A t \in Submission \ {s} : KindOf[t] = "create" => ArtifactOf[t] # a
    <2>1. KindOf[s] = "create"
      BY DEF CreateFile
    <2>2. ASSUME NEW t \in Submission \ {s}, KindOf[t] = "create", ArtifactOf[t] = a
          PROVE  FALSE
      <3>1. {KindOf[s], KindOf[t]} = {"create"}
        BY <2>1, <2>2
      <3>2. QED BY ConstantsAssumption, <2>2, <3>1
    <2>3. QED BY <2>2 DEF Artifact
  <1>s. /\ KindOf[s] = "create" /\ exec[s].at \in {"work", "metadata", "manifest"} /\ Early(s)
        /\ UNCHANGED <<receipt, proof, temp>>
    BY DEF CreateFile, Early
  <1>h. receipt[s].state # "none"
    BY <1>s DEF Admitted, ThreadsHold, Active
  <1>m. "manifest" \notin files[a]
    BY <1>s DEF FilesAgree, Unlisted
  <1>o. \A t \in Submission \ {s} : exec'[t] = exec[t] /\ Proceeds(t)
    BY <1>s, IdleProceeds DEF CreateFile, Goes, TypeOK
  <1>b. \A b \in Artifact \ {a} : files'[b] = files[b]
    BY DEF CreateFile, TypeOK
  <1>d. \A b \in Artifact : Deleted(b)' <=> Deleted(b)
    BY <1>s DEF Deleted, Begun
  <1>l. \A d \in Submission : Unlinks(d) => ArtifactOf[d] # a
    BY <1>s DEF FilesAgree, Unlinked
  <1>k. KindOf[s] # "check" /\ KindOf[s] # "delete"
    BY <1>s
  <1>u. Unproven'
    <2>1. \A t \in Submission : KindOf[t] = "check" /\ Unchecked(t)' => Unchecked(t)
      BY <1>s, <1>o, <1>k DEF Unchecked
    <2>2. QED BY <2>1, <1>s DEF FilesAgree, Unproven
  <1>i. \A t \in Submission : Inspects(t)' => Inspects(t) /\ t # s
    BY <1>s, <1>o, <1>k DEF Inspects, Active
  <1>n. /\ \A t \in Submission : Unlinks(t)' => Unlinks(t) /\ t # s
        /\ \A t \in Submission : Unlinks(t)' => exec'[t].at = exec[t].at
    BY <1>o, <1>k DEF Unlinks
  <1>1. ASSUME NEW file \in Data, files' = [files EXCEPT ![a] = @ \cup {file}],
               \/ exec[s].at = "work" /\ file = "dump" /\ exec'[s].at = "metadata"
               \/ exec[s].at = "metadata" /\ file = "metadata" /\ exec'[s].at = "manifest"
               \/ exec[s].at = "manifest" /\ file = "manifest" /\ exec'[s].at = "evidence"
        PROVE  FilesAgree'
    <2>f. files'[a] = files[a] \cup {file} /\ \A b \in Artifact : files[b] \subseteq files'[b]
      BY <1>1, <1>a, <1>b DEF TypeOK
    <2>e. Early(s)' => "manifest" \notin files'[a]
      BY <1>1, <1>s, <1>h, <1>m, <2>f DEF Early
    <2>1. Unlisted'
      BY <1>a, <1>o, <1>b, <2>e DEF FilesAgree, Unlisted, Proceeds, Early
    <2>2. Built'
      <3>1. Written(s)' = Written(s) \cup {file}
        BY <1>1 DEF Written, Data
      <3>2. Written(s)' \subseteq files'[a] \/ Deleted(a)'
        BY <1>a, <1>d, <1>s, <2>f, <3>1 DEF FilesAgree, Built
      <3>3. ASSUME NEW c \in Submission \ {s}, KindOf[c] = "create"
            PROVE  Written(c)' \subseteq files'[ArtifactOf[c]] \/ Deleted(ArtifactOf[c])'
        <4>1. Written(c)' \subseteq Written(c)
          BY <1>o, <3>3 DEF Proceeds
        <4>2. Written(c) \subseteq files[ArtifactOf[c]] \/ Deleted(ArtifactOf[c])
          BY <3>3 DEF FilesAgree, Built
        <4>3. QED BY <1>a, <1>d, <2>f, <4>1, <4>2
      <3>4. QED BY <3>2, <3>3 DEF Built
    <2>3. Inspected'
      BY <1>a, <1>i, <2>f DEF FilesAgree, Inspected
    <2>4. Unlinked'
      <3>1. ASSUME NEW d \in Submission, Unlinks(d)'
            PROVE  /\ exec'[d].at = "answer" => files'[ArtifactOf[d]] = {}
                   /\ \A c \in Submission : ArtifactOf[c] = ArtifactOf[d] => ~Early(c)'
        <4>1. Unlinks(d) /\ exec'[d].at = exec[d].at /\ ArtifactOf[d] # a
          BY <3>1, <1>n, <1>l
        <4>2. files'[ArtifactOf[d]] = files[ArtifactOf[d]]
          BY <4>1, <1>a, <1>b
        <4>3. \A c \in Submission : ArtifactOf[c] = ArtifactOf[d] => (Early(c)' => Early(c))
          BY <4>1, <1>o DEF Proceeds
        <4>4. QED BY <4>1, <4>2, <4>3 DEF FilesAgree, Unlinked
      <3>2. QED BY <3>1 DEF Unlinked
    <2>5. QED BY <2>1, <2>2, <2>3, <2>4, <1>u DEF FilesAgree
  <1>2. ASSUME files' = [files EXCEPT ![a] = @ \ Data], exec'[s].at = "failing"
        PROVE  FilesAgree'
    <2>f. files'[a] = files[a] \ Data /\ \A b \in Artifact : files'[b] \subseteq files[b]
      BY <1>2, <1>a, <1>b DEF TypeOK
    <2>e. ~Early(s)'
      BY <1>2, <1>s, <1>h DEF Early
    <2>1. Unlisted'
      BY <1>a, <1>o, <2>e, <2>f DEF FilesAgree, Unlisted, Proceeds
    <2>2. Built'
      <3>1. Written(s)' = {}
        BY <1>2 DEF Written
      <3>2. ASSUME NEW c \in Submission \ {s}, KindOf[c] = "create"
            PROVE  Written(c)' \subseteq files'[ArtifactOf[c]] \/ Deleted(ArtifactOf[c])'
        <4>1. Written(c)' \subseteq Written(c) /\ files'[ArtifactOf[c]] = files[ArtifactOf[c]]
          BY <3>2, <1>a, <1>b, <1>o DEF Proceeds
        <4>2. QED BY <3>2, <1>a, <1>d, <4>1 DEF FilesAgree, Built
      <3>3. QED BY <3>1, <3>2 DEF Built
    <2>3. Inspected'
      <3> SUFFICES ASSUME NEW t \in Submission, Inspects(t)'
                   PROVE  Data \subseteq files'[ArtifactOf[t]]
        BY DEF Inspected
      <3>1. Data \subseteq files[ArtifactOf[t]]
        BY <1>i DEF FilesAgree, Inspected
      <3>2. ArtifactOf[t] # a
        BY <3>1, <1>m DEF Data
      <3>3. QED BY <3>1, <3>2, <1>a, <1>b
    <2>4. Unlinked'
      <3>1. ASSUME NEW d \in Submission, Unlinks(d)'
            PROVE  /\ exec'[d].at = "answer" => files'[ArtifactOf[d]] = {}
                   /\ \A c \in Submission : ArtifactOf[c] = ArtifactOf[d] => ~Early(c)'
        <4>1. Unlinks(d) /\ exec'[d].at = exec[d].at /\ ArtifactOf[d] # a
          BY <3>1, <1>n, <1>l
        <4>2. files'[ArtifactOf[d]] = files[ArtifactOf[d]]
          BY <4>1, <1>a, <1>b
        <4>3. \A c \in Submission : ArtifactOf[c] = ArtifactOf[d] => (Early(c)' => Early(c))
          BY <4>1, <1>o DEF Proceeds
        <4>4. QED BY <4>1, <4>2, <4>3 DEF FilesAgree, Unlinked
      <3>2. QED BY <3>1 DEF Unlinked
    <2>5. QED BY <2>1, <2>2, <2>3, <2>4, <1>u DEF FilesAgree
  <1>3. QED
    <2>1. \/ /\ exec[s].at = "work" /\ exec'[s].at = "metadata"
             /\ files' = [files EXCEPT ![a] = @ \cup {"dump"}]
          \/ /\ exec[s].at = "metadata" /\ exec'[s].at = "manifest"
             /\ files' = [files EXCEPT ![a] = @ \cup {"metadata"}]
          \/ /\ exec[s].at = "manifest" /\ exec'[s].at = "evidence"
             /\ files' = [files EXCEPT ![a] = @ \cup {"manifest"}]
          \/ exec'[s].at = "failing" /\ files' = [files EXCEPT ![a] = @ \ Data]
      BY <1>s, GoesAt DEF CreateFile
    <2>2. QED BY <2>1, <1>1, <1>2 DEF Data

\* A deletion that has an artifact is alone with it, and after its creation.
LEMMA UnlinkAgrees ==
    ASSUME TypeOK, TypeOK', Admitted, TempsKnown, FilesAgree,
           NEW s \in Submission, Unlink(s)
    PROVE  FilesAgree'
  <1> DEFINE a == ArtifactOf[s]
             rest == files[a] \ {"manifest"}
  <1>a. \A t \in Submission : ArtifactOf[t] \in Artifact
    BY DEF Artifact
  <1>s. /\ KindOf[s] = "delete" /\ exec[s].at \in {"work", "unlink"}
        /\ UNCHANGED <<receipt, temp>>
    BY DEF Unlink
  <1>h. Active(s) /\ Begun(s)
    BY <1>s DEF Admitted, ThreadsHold, Active, Begun
  <1>e. \A t \in Submission \ {s} : exec'[t] = exec[t] /\ Proceeds(t)
    BY <1>s, IdleProceeds DEF Unlink, Goes, TypeOK
  <1>d. \A b \in Artifact : Deleted(b) => Deleted(b)'
    BY <1>s DEF Deleted, Begun
  <1>o. \A t \in Submission \ {s} :
            Active(t) /\ KindOf[t] \in {"check", "delete"} => ArtifactOf[t] # a
    <2> SUFFICES ASSUME NEW t \in Submission \ {s}, Active(t), KindOf[t] \in {"check", "delete"}
                 PROVE  ArtifactOf[t] # a
      OBVIOUS
    <2>1. ~Conflicts(s, t)
      BY <1>h DEF Admitted, Compatible
    <2>2. {KindOf[s], KindOf[t]} \subseteq {"check", "delete"}
      BY <1>s
    <2>3. QED BY <2>1, <2>2 DEF Conflicts
  <1>k. KindOf[s] # "check" /\ KindOf[s] # "create"
    BY <1>s
  <1>c. \A t \in Submission : KindOf[t] = "check" /\ Unchecked(t)' => Unchecked(t)
    BY <1>s, <1>e, <1>k DEF Unchecked
  <1>i. \A t \in Submission : Inspects(t)' => Inspects(t) /\ t # s
    BY <1>s, <1>e, <1>k DEF Inspects, Active
  <1>x. \A t \in Submission : Inspects(t) => ArtifactOf[t] # a
    <2> SUFFICES ASSUME NEW t \in Submission, Inspects(t)
                 PROVE  ArtifactOf[t] # a
      OBVIOUS
    <2>1. KindOf[t] = "check" /\ t # s
      BY <1>k DEF Inspects
    <2>2. Active(t)
      BY DEF Inspects, Admitted, ThreadsHold
    <2>3. QED BY <1>o, <2>1, <2>2
  <1>n. \A t \in Submission \ {s} : Unlinks(t)' =>
            Unlinks(t) /\ exec'[t].at = exec[t].at /\ ArtifactOf[t] # a
    <2> SUFFICES ASSUME NEW t \in Submission \ {s}, Unlinks(t)'
                 PROVE  Unlinks(t) /\ exec'[t].at = exec[t].at /\ ArtifactOf[t] # a
      OBVIOUS
    <2>1. Unlinks(t) /\ exec'[t].at = exec[t].at
      BY <1>e DEF Unlinks
    <2>2. Active(t) /\ KindOf[t] = "delete"
      BY <2>1 DEF Unlinks, Admitted, ThreadsHold
    <2>3. QED BY <1>o, <2>1, <2>2
  <1>p. \A t \in Submission : Early(t)' => Early(t)
    <2>1. ~Early(s)'
      BY <1>k DEF Early
    <2>2. QED BY <2>1, <1>e DEF Proceeds
  <1>1. ASSUME exec[s].at = "unlink" \/ "manifest" \in files[a],
               NEW x \in Data \cup {"state"},
               files' = [files EXCEPT ![a] = @ \ {x}],
               rest = {} => x = "manifest",
               exec'[s].at = IF rest = {} THEN "answer" ELSE "unlink",
               UNCHANGED proof
        PROVE  FilesAgree'
    <2>f. /\ files'[a] = files[a] \ {x}
          /\ \A b \in Artifact : files'[b] \subseteq files[b]
          /\ \A b \in Artifact \ {a} : files'[b] = files[b]
      BY <1>1, <1>a DEF TypeOK
    <2>1. Unlisted'
      BY <1>a, <1>p, <2>f DEF FilesAgree, Unlisted
    <2>2. Built'
      <3> SUFFICES ASSUME NEW c \in Submission, KindOf[c] = "create"
                   PROVE  Written(c)' \subseteq files'[ArtifactOf[c]] \/ Deleted(ArtifactOf[c])'
        BY DEF Built
      <3>1. CASE ArtifactOf[c] = a
        BY <1>h, <1>a, <1>d, <3>1 DEF Deleted
      <3>2. CASE ArtifactOf[c] # a
        <4>1. Written(c)' \subseteq Written(c)
          BY <1>e, <3>2 DEF Proceeds
        <4>2. files'[ArtifactOf[c]] = files[ArtifactOf[c]]
          BY <1>a, <2>f, <3>2
        <4>3. QED BY <1>a, <1>d, <4>1, <4>2 DEF FilesAgree, Built
      <3>3. QED BY <3>1, <3>2
    <2>3. Inspected'
      BY <1>a, <1>i, <1>x, <2>f DEF FilesAgree, Inspected
    <2>4. Unlinked'
      <3> SUFFICES ASSUME NEW d \in Submission, Unlinks(d)'
                   PROVE  /\ exec'[d].at = "answer" => files'[ArtifactOf[d]] = {}
                          /\ \A c \in Submission : ArtifactOf[c] = ArtifactOf[d] => ~Early(c)'
        BY DEF Unlinked
      <3>1. CASE d = s
        <4>1. exec'[s].at = "answer" => files'[a] = {}
          BY <1>1, <2>f
        <4>2. \A c \in Submission : ArtifactOf[c] = a => ~Early(c)
          <5>1. CASE exec[s].at = "unlink"
            BY <1>s, <5>1 DEF FilesAgree, Unlinked, Unlinks
          <5>2. CASE "manifest" \in files[a]
            BY <5>2 DEF FilesAgree, Unlisted
          <5>3. QED BY <1>1, <5>1, <5>2
        <4>3. QED BY <1>p, <3>1, <4>1, <4>2
      <3>2. CASE d # s
        <4>1. files'[ArtifactOf[d]] = files[ArtifactOf[d]]
          BY <1>a, <1>n, <2>f, <3>2
        <4>2. QED BY <1>n, <1>p, <3>2, <4>1 DEF FilesAgree, Unlinked
      <3>3. QED BY <3>1, <3>2
    <2>5. Unproven'
      BY <1>1, <1>c DEF FilesAgree, Unproven
    <2>6. QED BY <2>1, <2>2, <2>3, <2>4, <2>5 DEF FilesAgree
  <1>2. ASSUME exec'[s].at = "failing", Writes(a, Known(a)) \/ UNCHANGED <<files, proof>>
        PROVE  FilesAgree'
    <2>1. Proceeds(s)
      BY <1>2, <1>s, <1>k DEF Proceeds, Early, Written, Inspects, Unlinks, Begun, Active
    <2>2. \A b \in Artifact, x \in Data : x \in files'[b] <=> x \in files[b]
      BY <1>2, <1>a, WritesData
    <2>3. \A b \in Artifact \ {a} : files'[b] = files[b]
      BY <1>2, <1>a, WritesData
    <2>4. ~Unlinks(s)'
      BY <1>2 DEF Unlinks
    <2>5. Unproven'
      <3>1. Known(a) \in Proof /\ Known(a).checked \in {Nobody, proof[a].checked}
        BY <1>a, KnownType DEF Known, Unproved
      <3>2. \A t \in Submission : KindOf[t] = "check" => proof'[ArtifactOf[t]].checked # t
                \/ proof'[ArtifactOf[t]].checked = proof[ArtifactOf[t]].checked
        BY ConstantsAssumption, <1>2, <1>a, <3>1 DEF Writes, TypeOK
      <3>3. QED BY <1>c, <3>2 DEF FilesAgree, Unproven
    <2>6. QED
      BY <1>a, <1>e, <1>n, <2>1, <2>2, <2>3, <2>4, <2>5, FilesStay
  <1>3. QED
    <2>1. \/ exec'[s].at = "failing" /\ (Writes(a, Known(a)) \/ UNCHANGED <<files, proof>>)
          \/ /\ exec[s].at = "unlink" \/ "manifest" \in files[a]
             /\ files' = [files EXCEPT ![a] =
                     @ \ {IF "dump" \in rest THEN "dump"
                          ELSE IF "metadata" \in rest THEN "metadata"
                          ELSE IF "state" \in rest THEN "state" ELSE "manifest"}]
             /\ exec'[s].at = IF rest = {} THEN "answer" ELSE "unlink"
             /\ UNCHANGED proof
      BY GoesAt DEF Unlink
    <2> DEFINE x == IF "dump" \in rest THEN "dump"
                    ELSE IF "metadata" \in rest THEN "metadata"
                    ELSE IF "state" \in rest THEN "state" ELSE "manifest"
    <2>2. x \in Data \cup {"state"} /\ (rest = {} => x = "manifest")
      BY DEF Data
    <2>3. QED BY <1>1, <1>2, <2>1, <2>2

\* The steps of a check: it claims the files it has seen, and writes what it found.
LEMMA CheckAgrees ==
    ASSUME TypeOK, TypeOK', Admitted, TempsKnown, FilesAgree,
           NEW s \in Submission, CheckPreflight(s) \/ CreateTarget(s) \/ CheckEvidence(s)
    PROVE  FilesAgree'
  <1> DEFINE a == ArtifactOf[s]
  <1>a. \A t \in Submission : ArtifactOf[t] \in Artifact
    BY DEF Artifact
  <1>s. /\ KindOf[s] = "check" /\ exec[s].at \in {"work", "target", "evidence"}
        /\ UNCHANGED receipt
    BY DEF CheckPreflight, CreateTarget, CheckEvidence, At
  <1>h. Active(s)
    BY <1>s DEF Admitted, ThreadsHold
  <1>k. KindOf[s] # "delete" /\ KindOf[s] # "create"
    BY <1>s
  <1>e. \A t \in Submission \ {s} :
            exec'[t] = exec[t] /\ (t \in temp' <=> t \in temp) /\ Proceeds(t)
    BY <1>s, IdleProceeds DEF CheckPreflight, CreateTarget, CheckEvidence, Goes, DefersFailure, TypeOK
  <1>g. /\ \A at \in Place : Goes(s, at) => exec'[s].at = at
        /\ DefersFailure(s) => exec'[s].at = "defer"
    BY GoesAt, StopsAt
  <1>d. exec'[s].at \in {"failing", "record", "clear", "defer"} \/ (exec'[s].at = "target" /\ Whole(a))
    <2>1. CASE CheckPreflight(s)
      BY <2>1, <1>g DEF Place, CheckPreflight
    <2>2. CASE CreateTarget(s)
      BY <2>2, <1>g DEF Place, CreateTarget
    <2>3. CASE CheckEvidence(s)
      <3>1. Goes(s, "clear") \/ Goes(s, "defer") \/ DefersFailure(s)
        BY <2>3 DEF CheckEvidence
      <3>2. QED BY <3>1, <1>g DEF Place
    <2>4. QED BY <2>1, <2>2, <2>3
  <1>n. exec[s].at \in {"target", "evidence"} => Inspects(s)
    BY <1>s DEF Inspects
  <1>v. exec[s].at = "work" => exec'[s].at \in {"failing", "target"}
    BY GoesAt DEF CheckPreflight, CreateTarget, CheckEvidence, At
  <1>p. Proceeds(s)
    <2>1. ~Early(s)' /\ ~Unlinks(s)' /\ Written(s)' \subseteq Written(s)
      BY <1>k, <1>d DEF Early, Unlinks, Written
    <2>2. Begun(s) => Begun(s)'
      BY <1>s DEF Begun
    <2>3. Inspects(s)' => Inspects(s) \/ Whole(a)
      <3>1. CASE exec[s].at \in {"target", "evidence"}
        BY <1>n, <3>1
      <3>2. CASE exec[s].at = "work"
        BY <1>s, <1>d, <1>v, <3>2 DEF Inspects, Active
      <3>3. QED BY <1>s, <3>1, <3>2
    <2>4. QED BY <2>1, <2>2, <2>3 DEF Proceeds
  <1>c. exec'[s].at \in {"failing", "clear", "defer"} => ~Unchecked(s)'
    <2>1. receipt[s].state # "none"
      BY <1>h DEF Active
    <2>2. exec'[s].at = "failing" => s \notin temp'
      <3>1. exec[s].at \in {"work", "target"} => s \notin temp
        BY DEF TempsKnown, TempKnown, TempStages
      <3>2. CASE CheckPreflight(s)
        BY <3>1, <3>2 DEF CheckPreflight, At
      <3>3. CASE CreateTarget(s)
        <4>1. exec'[s].at = "record" \/ temp' = temp
          BY <3>3, GoesAt DEF CreateTarget
        <4>2. QED BY <3>1, <3>3, <4>1 DEF CreateTarget, At
      <3>4. CASE CheckEvidence(s)
        <4>1. Goes(s, "clear") \/ Goes(s, "defer") \/ DefersFailure(s)
          BY <3>4 DEF CheckEvidence
        <4>2. QED BY <4>1, GoesAt, StopsAt
      <3>5. QED BY <3>2, <3>3, <3>4
    <2>3. exec'[s].at \in {"clear", "defer"} => receipt[s].temp
      BY GoesAt, <1>s DEF TempsKnown, TempKnown, TempStages, CheckPreflight, CreateTarget, CheckEvidence, At
    <2>4. QED BY <1>s, <2>1, <2>2, <2>3 DEF Unchecked
  <1>u. \A t \in Submission : Unchecked(t)' => Unchecked(t)
    <2>1. Unchecked(s)' => Unchecked(s)
      <3>1. exec'[s].at = "record" => exec[s].at = "target"
        BY GoesAt, StopsAt DEF CheckPreflight, CreateTarget, CheckEvidence, At
      <3>2. exec'[s].at = "target" => exec[s].at = "work"
        BY GoesAt, StopsAt DEF CheckPreflight, CreateTarget, CheckEvidence, At
      <3>3. QED BY <1>c, <1>d, <3>1, <3>2 DEF Unchecked
    <2>2. QED BY <1>e, <1>s, <2>1 DEF Unchecked
  <1>1. CASE UNCHANGED <<files, proof>>
    <2>1. Unproven'
      BY <1>1, <1>u, ProofsStay DEF FilesAgree
    <2>2. QED BY <1>1, <1>e, <1>p, <2>1, FilesStay
  <1>2. ASSUME NEW p \in Proof, Writes(a, p), p.checked = s,
               exec'[s].at \in {"failing", "clear", "defer"}, "manifest" \in files[a]
        PROVE  FilesAgree'
    <2>1. Unproven'
      BY <1>2, <1>c, <1>u, ProofsWritten DEF FilesAgree
    <2>2. /\ \A b \in Artifact, x \in Data : x \in files'[b] <=> x \in files[b]
          /\ \A b \in Artifact \ {a} : files'[b] = files[b]
      BY <1>2, <1>a, WritesData
    <2>3. ASSUME NEW d \in Submission, Unlinks(d)', exec'[d].at = "answer"
          PROVE  files'[ArtifactOf[d]] = files[ArtifactOf[d]]
      <3>1. d # s
        BY <1>k, <2>3 DEF Unlinks
      <3>2. files[ArtifactOf[d]] = {}
        BY <1>e, <2>3, <3>1 DEF FilesAgree, Unlinked, Unlinks
      <3>3. ArtifactOf[d] # a
        BY <1>2, <3>2
      <3>4. QED BY <1>a, <2>2, <3>3
    <2>4. QED BY <1>e, <1>p, <2>1, <2>2, <2>3, FilesStay
  <1>3. QED
    <2>1. Known(a) \in Proof /\ exec[s].passed \in BOOLEAN
      BY <1>a, KnownType DEF TypeOK, Exec
    <2>2. \A v \in BOOLEAN :
              /\ [Known(a) EXCEPT !.checked = s, !.passed = v] \in Proof
              /\ [Known(a) EXCEPT !.checked = s, !.passed = v].checked = s
      BY <2>1 DEF Proof
    <2>3. Inspects(s) => "manifest" \in files[a]
      BY DEF FilesAgree, Inspected, Data
    <2>4. CASE CheckPreflight(s)
      BY <2>4, <2>2, <1>1, <1>2, GoesAt DEF CheckPreflight
    <2>5. CASE CreateTarget(s)
      BY <2>5, <2>2, <2>3, <1>1, <1>2, <1>n, GoesAt DEF CreateTarget, At
    <2>6. CASE CheckEvidence(s)
      BY <2>6, <2>1, <2>2, <2>3, <1>1, <1>2, <1>n, GoesAt DEF CheckEvidence, At
    <2>7. QED BY <2>4, <2>5, <2>6

\* The other steps of the threads: nothing is written, and nothing new is claimed.
LEMMA OtherExecuteAgrees ==
    ASSUME TypeOK, TypeOK', Admitted, TempsKnown, FilesAgree, NEW s \in Submission,
           \/ Start(s) \/ CreateEvidence(s) \/ RecordTarget(s) \/ RestoreToTarget(s)
           \/ ClearTarget(s) \/ Defer(s) \/ Answer(s) \/ AnswerFailure(s)
    PROVE  FilesAgree'
  <1> DEFINE a == ArtifactOf[s]
  <1>x. Execute(s)
    BY DEF Execute
  <1>a. \A t \in Submission : ArtifactOf[t] \in Artifact
    BY DEF Artifact
  <1>h. exec[s].at # "off" /\ Active(s) /\ KindOf[s] \in {"create", "check", "delete"}
    BY ConstantsAssumption, <1>x, ExecuteFacts DEF Admitted, ThreadsHold
  <1>r. /\ receipt'[s].state # "none"
        /\ \A t \in Submission \ {s} : receipt'[t] = receipt[t] /\ exec'[t] = exec[t]
    BY <1>x, ExecuteFacts DEF Admitted, Terminal
  <1>g. /\ \A at \in Place : Goes(s, at) => exec'[s].at = at
        /\ DefersFailure(s) => exec'[s].at = "defer"
        /\ Stops(s) => exec'[s].at = "off"
    BY GoesAt, StopsAt
  <1>t. \A t \in Submission \ {s} : t \in temp' <=> t \in temp
    BY DEF Start, CreateEvidence, RecordTarget, RestoreToTarget, ClearTarget, Defer, Answer, AnswerFailure
  <1>k. TempStages(s) /\ OfCheck(s)
    BY DEF TempsKnown, TempKnown
  <1>1. /\ exec'[s].at \in {"accepted", "work"} => exec[s].at \in {"accepted", "work"}
        /\ exec'[s].at \in {"metadata", "manifest", "target", "record", "unlink"} => FALSE
        /\ exec'[s].at = "evidence" => KindOf[s] = "check"
        /\ exec'[s].at \in {"restore", "evidence", "clear", "defer"} => Inspects(s)
        /\ exec'[s].at = "answer" =>
              \/ KindOf[s] = "create" /\ exec[s].at = "evidence"
              \/ KindOf[s] = "check" /\ Inspects(s)
        /\ Inspects(s)' => Inspects(s)
    <2>1. CASE Start(s)
      <3>1. exec[s].at = "accepted" /\ exec'[s].at \in {"work", "off"}
        BY <2>1, <1>g DEF Start, Place
      <3>2. receipt'[s].deferred = receipt[s].deferred
        BY <2>1 DEF Start, TypeOK, Receipt
      <3>3. QED BY <1>h, <3>1, <3>2 DEF Inspects
    <2>2. CASE CreateEvidence(s)
      <3>1. /\ KindOf[s] = "create" /\ exec[s].at = "evidence"
            /\ exec'[s].at \in {"answer", "failing"}
        BY <2>2, <1>g DEF CreateEvidence, At, Place
      <3>2. QED BY <3>1 DEF Inspects
    <2>3. CASE RecordTarget(s)
      <3>1. /\ KindOf[s] = "check" /\ exec[s].at = "record"
            /\ exec'[s].at \in {"restore", "failing"}
        BY <2>3, <1>g DEF RecordTarget, At, Place
      <3>2. QED BY <3>1 DEF Inspects
    <2>4. CASE RestoreToTarget(s)
      <3>1. KindOf[s] = "check" /\ exec[s].at = "restore"
        BY <2>4 DEF RestoreToTarget, At
      <3>2. exec'[s].at = "evidence"
        BY <2>4 DEF RestoreToTarget, TypeOK
      <3>3. QED BY <3>1, <3>2 DEF Inspects
    <2>5. CASE ClearTarget(s)
      <3>1. /\ KindOf[s] = "check" /\ exec[s].at = "clear"
            /\ exec'[s].at \in {"answer", "defer"}
        BY <2>5, <1>g DEF ClearTarget, At, Place
      <3>2. QED BY <3>1 DEF Inspects
    <2>6. CASE Defer(s)
      <3>1. /\ KindOf[s] = "check" /\ exec[s].at = "defer"
            /\ exec'[s].at \in {"off", "defer"}
        BY <2>6, <1>g DEF Defer, At, Place
      <3>2. QED BY <3>1 DEF Inspects
    <2>7. CASE Answer(s) \/ AnswerFailure(s)
      <3>1. exec[s].at \in {"answer", "failing"} /\ exec'[s].at \in {"off", "failing"}
        BY <2>7, <1>g DEF Answer, AnswerFailure, Place
      <3>2. receipt'[s].deferred = receipt[s].deferred
        BY <2>7 DEF Answer, AnswerFailure, TypeOK, Receipt
      <3>3. QED BY <1>h, <3>1, <3>2 DEF Inspects
    <2>8. QED BY <2>1, <2>2, <2>3, <2>4, <2>5, <2>6, <2>7
  <1>2. Proceeds(s)
    <2>1. Early(s)' => Early(s)
      BY <1>1, <1>r DEF Early
    <2>2. KindOf[s] = "create" => Written(s)' \subseteq Written(s)
      BY <1>1 DEF Written
    <2>3. Unlinks(s)' => Unlinks(s) /\ exec'[s].at = exec[s].at
      BY <1>1 DEF Unlinks
    <2>4. Begun(s) => Begun(s)'
      BY <1>r DEF Begun
    <2>5. QED BY <1>1, <2>1, <2>2, <2>3, <2>4 DEF Proceeds
  <1>3. \A t \in Submission : Proceeds(t)
    BY <1>2, <1>r, IdleProceeds
  <1>4. \A t \in Submission : KindOf[t] = "check" => (Unchecked(t)' => Unchecked(t))
    <2>1. ASSUME KindOf[s] = "check", Unchecked(s)'
          PROVE  Unchecked(s)
      <3>1. CASE exec'[s].at \in {"accepted", "work", "target", "record"}
        BY <1>1, <3>1 DEF Unchecked
      <3>2. CASE s \in temp' /\ ~receipt'[s].temp
        <4>1. CASE ClearTarget(s)
          BY <1>k, <3>2, <4>1 DEF ClearTarget, At, TempStages
        <4>2. CASE ~ClearTarget(s)
          <5>1. temp' \subseteq temp
            BY <4>2 DEF Start, CreateEvidence, RecordTarget, RestoreToTarget, Defer, Answer,
               AnswerFailure
          <5>2. receipt[s].temp => receipt'[s].temp
            BY <4>2 DEF Start, CreateEvidence, RecordTarget, RestoreToTarget, Defer, Answer,
               AnswerFailure, TypeOK, Receipt
          <5>3. QED BY <3>2, <5>1, <5>2 DEF Unchecked
        <4>3. QED BY <4>1, <4>2
      <3>3. QED BY <1>r, <2>1, <3>1, <3>2 DEF Unchecked
    <2>2. QED BY <1>r, <1>t, <2>1 DEF Unchecked
  <1>5. CASE UNCHANGED <<files, proof>>
    <2>1. Unproven'
      BY <1>4, <1>5 DEF FilesAgree, Unproven
    <2>2. QED BY <1>3, <1>5, <2>1, FilesStay
  <1>6. CASE CreateEvidence(s) /\ "manifest" \in files[a]
              /\ Writes(a, [Known(a) EXCEPT !.created = s])
    <2>1. /\ \A b \in Artifact, x \in Data : x \in files'[b] <=> x \in files[b]
          /\ \A b \in Artifact \ {a} : files'[b] = files[b]
      BY <1>6, <1>a, WritesData
    <2>2. ASSUME NEW d \in Submission, Unlinks(d)', exec'[d].at = "answer"
          PROVE  files'[ArtifactOf[d]] = files[ArtifactOf[d]]
      <3>1. files[ArtifactOf[d]] = {}
        BY <1>3, <2>2 DEF FilesAgree, Unlinked, Proceeds
      <3>2. ArtifactOf[d] # a
        BY <1>6, <3>1
      <3>3. QED BY <1>a, <2>1, <3>2
    <2>3. Unproven'
      <3>1. /\ [Known(a) EXCEPT !.created = s].checked \in {Nobody, proof[a].checked}
            /\ a \in Artifact
        BY <1>a, KnownType DEF Known, Unproved, Proof
      <3>2. \A t \in Submission :
                proof'[ArtifactOf[t]].checked \in {Nobody, proof[ArtifactOf[t]].checked}
        BY <1>6, <1>a, <3>1 DEF Writes, TypeOK
      <3>3. QED BY ConstantsAssumption, <1>4, <3>2 DEF FilesAgree, Unproven
    <2>4. QED BY <1>3, <2>1, <2>2, <2>3, FilesStay
  <1>7. QED
    BY <1>5, <1>6 DEF Start, CreateEvidence, RecordTarget, RestoreToTarget, ClearTarget, Defer,
       Answer, AnswerFailure, At

LEMMA FilesStep ==
    ASSUME TypeOK, Admitted, TempsKnown, FilesAgree, [Next]_vars
    PROVE  FilesAgree'
  <1>t. TypeOK'
    BY TypeStep
  <1> USE DEF update, backups
  <1>1. ASSUME NEW stuck \in SUBSET temp, Reconciled(stuck), UNCHANGED <<files, proof>>,
               NEW now \in [Submission -> Receipt],
               \A t \in Submission : now[t] = Settled(t, stuck),
               \/ receipt' = now /\ exec' = exec
               \/ \E s \in Submission :
                     /\ receipt[s].state = "none"
                     /\ receipt' = [now EXCEPT ![s].state = "queued", ![s].mine = TRUE]
                     /\ exec' = [exec EXCEPT ![s].at = "accepted"]
        PROVE  FilesAgree'
    <2>1. ASSUME NEW t \in Submission, receipt'[t] = now[t], exec'[t] = exec[t]
          PROVE  Proceeds(t) /\ (Unchecked(t)' => Unchecked(t))
      <3>1. /\ receipt'[t].state = "none" <=> receipt[t].state = "none"
            /\ Active(t)' => Active(t)
        BY <1>1, <2>1, SettledFacts DEF Active
      <3>2. Active(t)' => receipt'[t].deferred = receipt[t].deferred
        BY <1>1, <2>1, SettledCases DEF Active, Terminal
      <3>3. Inspects(t)' => Inspects(t)
        BY <2>1, <3>1, <3>2 DEF Inspects
      <3>4. Proceeds(t)
        BY <2>1, <3>1, <3>3 DEF Proceeds, Early, Written, Unlinks, Begun
      <3>5. t \in temp' /\ ~receipt'[t].temp => t \in temp /\ ~receipt[t].temp
        BY <1>1, <2>1, SettledCases DEF Reconciled
      <3>6. QED BY <2>1, <3>1, <3>4, <3>5 DEF Unchecked
    <2>2. ASSUME NEW s \in Submission, receipt[s].state = "none",
                 receipt' = [now EXCEPT ![s].state = "queued", ![s].mine = TRUE],
                 exec' = [exec EXCEPT ![s].at = "accepted"]
          PROVE  Proceeds(s) /\ (Unchecked(s)' => Unchecked(s))
      <3>1. exec'[s].at = "accepted"
        BY <2>2 DEF TypeOK, Exec
      <3>2. receipt[s].deferred = "none" /\ ~Due(s)
        BY <2>2 DEF Admitted, Unbegun, Due, Active
      <3>3. receipt'[s].state # "none" /\ receipt'[s].deferred = "none"
        BY <1>1, <2>2, <3>2, SettledFacts DEF Receipt
      <3>4. Early(s)' => Early(s)
        BY <2>2 DEF Early
      <3>5. ~Inspects(s)' /\ ~Unlinks(s)' /\ Written(s)' = {}
        BY <3>1, <3>3 DEF Inspects, Unlinks, Written
      <3>6. Begun(s) => Begun(s)'
        BY <3>3 DEF Begun
      <3>7. QED BY <2>2, <3>4, <3>5, <3>6 DEF Proceeds, Unchecked
    <2>3. ASSUME NEW t \in Submission
          PROVE  Proceeds(t) /\ (Unchecked(t)' => Unchecked(t))
      <3>1. CASE receipt' = now /\ exec' = exec
        BY <2>1, <3>1
      <3>2. ASSUME NEW s \in Submission, receipt[s].state = "none",
                   receipt' = [now EXCEPT ![s].state = "queued", ![s].mine = TRUE],
                   exec' = [exec EXCEPT ![s].at = "accepted"]
            PROVE  Proceeds(t) /\ (Unchecked(t)' => Unchecked(t))
        <4>1. CASE t = s
          BY <2>2, <3>2, <4>1
        <4>2. CASE t # s
          <5>1. receipt'[t] = now[t] /\ exec'[t] = exec[t]
            BY <1>1, <3>2, <4>2 DEF TypeOK
          <5>2. QED BY <2>1, <5>1
        <4>3. QED BY <4>1, <4>2
      <3>3. QED BY <1>1, <3>1, <3>2
    <2>4. Unproven'
      BY <1>1, <2>3, ProofsStay DEF FilesAgree
    <2>5. QED BY <1>1, <2>3, <2>4, FilesStay
  <1>2. ASSUME NEW s \in Submission, Begin(s)
        PROVE  FilesAgree'
    <2> PICK stuck \in SUBSET temp :
          LET now == [t \in Submission |-> Settled(t, stuck)] IN
          /\ Reconciled(stuck)
          /\ IF \E t \in Submission : now[t].state \in {"queued", "running"} /\ Conflicts(s, t)
             THEN receipt' = now /\ UNCHANGED exec
             ELSE /\ receipt' = [now EXCEPT ![s].state = "queued", ![s].mine = TRUE]
                  /\ exec' = [exec EXCEPT ![s].at = "accepted"]
      BY <1>2 DEF Begin
    <2> DEFINE now == [t \in Submission |-> Settled(t, stuck)]
    <2>1. \/ receipt' = now /\ exec' = exec
          \/ /\ receipt' = [now EXCEPT ![s].state = "queued", ![s].mine = TRUE]
             /\ exec' = [exec EXCEPT ![s].at = "accepted"]
      OBVIOUS
    <2>2. now \in [Submission -> Receipt] /\ \A t \in Submission : now[t] = Settled(t, stuck)
      BY ReconciledReceipts
    <2>3. receipt[s].state = "none" /\ UNCHANGED <<files, proof>>
      BY <1>2 DEF Begin
    <2> HIDE DEF now
    <2>4. QED BY <1>1, <2>1, <2>2, <2>3
  <1>3. CASE Reconcile \/ RequestSchema \/ RequestUpdate \/ RequestRestore
    <2>1. PICK stuck \in SUBSET temp :
              /\ Reconciled(stuck) /\ UNCHANGED <<exec, files, proof>>
              /\ receipt' = [s \in Submission |-> Settled(s, stuck)]
      BY <1>3 DEF Reconcile, RequestSchema, RequestUpdate, RequestRestore, Admits
    <2>2. receipt' \in [Submission -> Receipt] /\ \A t \in Submission : receipt'[t] = Settled(t, stuck)
      BY <2>1, ReconciledReceipts
    <2>3. QED BY <1>1, <2>1, <2>2
  <1>4. ASSUME NEW s \in Submission, Execute(s)
        PROVE  FilesAgree'
    BY <1>4, <1>t, CreateFileAgrees, UnlinkAgrees, CheckAgrees, OtherExecuteAgrees DEF Execute
  <1>5. CASE ApiCrashes
    <2>1. /\ \A s \in Submission :
                 /\ exec'[s].at = "off"
                 /\ receipt'[s].state = receipt[s].state /\ receipt'[s].temp = receipt[s].temp
                 /\ receipt'[s].deferred = receipt[s].deferred
          /\ UNCHANGED <<temp, files, proof>>
      BY <1>5 DEF ApiCrashes, ExecOff, TypeOK, Receipt
    <2>2. \A s \in Submission : Proceeds(s)
      BY <2>1 DEF Proceeds, Early, Written, Inspects, Unlinks, Begun, Active
    <2>3. \A s \in Submission : Unchecked(s)' => Unchecked(s)
      BY <2>1 DEF Unchecked
    <2>4. QED BY <2>1, <2>2, <2>3, ProofsStay, FilesStay DEF FilesAgree
  <1>6. CASE \/ SchemaRuns \/ SchemaEnds
             \/ ReconcileUpdate \/ CancelUpdate \/ ClaimRestore \/ FinishRestore \/ ClaimUpdate
             \/ JournalMoves \/ PublishStatus \/ PublishTerminal \/ HelperBoots
             \/ HelperRestarts \/ UNCHANGED vars
    <2>1. UNCHANGED <<receipt, exec, temp, files, proof>>
      BY <1>6 DEF SchemaRuns, SchemaEnds, ReconcileUpdate, CancelUpdate, ClaimRestore,
             FinishRestore, ClaimUpdate, JournalMoves, PublishStatus, PublishTerminal,
             HelperBoots, HelperRestarts, vars
    <2>2. \A s \in Submission : Proceeds(s)
      BY <2>1, IdleProceeds
    <2>3. \A s \in Submission : Unchecked(s)' => Unchecked(s)
      BY <2>1 DEF Unchecked
    <2>4. QED BY <2>1, <2>2, <2>3, ProofsStay, FilesStay DEF FilesAgree
  <1>7. QED
    BY <1>2, <1>3, <1>4, <1>5, <1>6 DEF Next, Help

-----------------------------------------------------------------------------
(* The invariant, and what it shows.                                       *)

LEMMA InvariantStart ==
    Init => MaintenanceInvariant
  <1> SUFFICES ASSUME Init PROVE MaintenanceInvariant
    OBVIOUS
  <1>1. TypeOK
    BY TypeStart
  <1>2. \A s \in Submission :
            /\ receipt[s] = [state |-> "none", mine |-> FALSE, retry |-> FALSE,
                             temp |-> FALSE, deferred |-> "none"]
            /\ exec[s] = ExecOff /\ proof[ArtifactOf[s]] = Unproved
    BY DEF Init, Artifact
  <1>3. \A s \in Submission :
            /\ receipt[s].state = "none" /\ receipt[s].deferred = "none"
            /\ ~receipt[s].retry /\ ~receipt[s].temp
            /\ exec[s].at = "off" /\ proof[ArtifactOf[s]].checked = Nobody
            /\ ~Active(s) /\ s \notin temp
    <2> SUFFICES ASSUME NEW s \in Submission
                 PROVE  /\ receipt[s].state = "none" /\ receipt[s].deferred = "none"
                        /\ ~receipt[s].retry /\ ~receipt[s].temp
                        /\ exec[s].at = "off" /\ proof[ArtifactOf[s]].checked = Nobody
                        /\ ~Active(s) /\ s \notin temp
      OBVIOUS
    <2>1. receipt[s].state = "none" /\ receipt[s].deferred = "none"
      BY <1>2
    <2>2. receipt[s].retry = FALSE /\ receipt[s].temp = FALSE
      BY <1>2
    <2>3. exec[s].at = "off" /\ proof[ArtifactOf[s]].checked = Nobody
      BY <1>2 DEF ExecOff, Unproved
    <2>4. s \notin temp
      BY DEF Init
    <2>5. QED BY <2>1, <2>2, <2>3, <2>4 DEF Active
  <1>4. \A f \in DOMAIN flow : flow[f] = "none" /\ ~Blocks(f)
    BY DEF Init, Blocks
  <1>5. Admitted
    <2>1. ThreadsHold /\ Unbegun /\ OneFlow /\ FlowAlone /\ Compatible
      BY <1>3, <1>4 DEF ThreadsHold, Unbegun, OneFlow, FlowAlone, Compatible
    <2>2. WorkClaimed
      BY DEF Init, WorkClaimed
    <2>3. LocksExplained
      BY <1>3, <1>4, <1>1 DEF LocksExplained, TypeOK
    <2>4. QED BY <2>1, <2>2, <2>3 DEF Admitted
  <1>6. TempsKnown
    BY <1>3 DEF TempsKnown, TempKnown, Accounted, OfCheck, TempStages
  <1>7. FilesAgree
    <2>1. Unlisted
      <3> SUFFICES ASSUME NEW c \in Submission, KindOf[c] = "create"
                   PROVE  files[ArtifactOf[c]] = {}
        BY DEF Unlisted, Early
      <3>1. ArtifactOf[c] \in Artifact
        BY DEF Artifact
      <3>2. QED BY <3>1 DEF Init
    <2>2. Built
      BY <1>3 DEF Built, Written
    <2>3. Inspected /\ Unlinked
      BY <1>3 DEF Inspected, Inspects, Unlinked, Unlinks
    <2>4. Unproven
      BY ConstantsAssumption, <1>3 DEF Unproven
    <2>5. QED BY <2>1, <2>2, <2>3, <2>4 DEF FilesAgree
  <1>8. QED BY <1>1, <1>5, <1>6, <1>7 DEF MaintenanceInvariant

LEMMA InvariantStep ==
    ASSUME ~Strays, MaintenanceInvariant, [Next]_vars
    PROVE  MaintenanceInvariant'
  BY TypeStep, AdmittedStep, TempsStep, FilesStep DEF MaintenanceInvariant

\* Whoever works has a flow that blocks, or an active receipt: one at a time.
LEMMA ExclusiveWork ==
    ASSUME TypeOK, Admitted
    PROVE  FlowsExclusive
  <1>1. "backup" \in Works => \E s \in Submission : Active(s)
    BY DEF Works, Admitted, ThreadsHold
  <1>2. /\ "schema" \in Works => Blocks("schema")
        /\ "update" \in Works => Blocks("update")
        /\ "restore" \in Works => Blocks("restore")
    BY DEF Works, Admitted, WorkClaimed, Blocks, TypeOK
  <1>3. Works \subseteq {"backup", "schema", "update", "restore"}
    BY DEF Works
  <1>4. ASSUME NEW w \in Works, NEW x \in Works, w # x
        PROVE  FALSE
    <2>1. {"update", "restore", "schema"} = DOMAIN flow
      BY DEF TypeOK
    <2>2. CASE w = "backup" \/ x = "backup"
      BY <1>1, <1>2, <1>3, <1>4, <2>1, <2>2 DEF Admitted, FlowAlone
    <2>3. CASE w # "backup" /\ x # "backup"
      BY <1>2, <1>3, <1>4, <2>1, <2>3 DEF Admitted, OneFlow
    <2>4. QED BY <2>2, <2>3
  <1>5. Cardinality(Works) <= 1
    <2>1. CASE Works = {}
      BY <2>1, FS_EmptySet
    <2>2. CASE Works # {}
      <3>1. PICK w \in Works : TRUE
        BY <2>2
      <3>2. Works = {w}
        BY <1>4, <3>1
      <3>3. QED BY <3>2, FS_Singleton
    <2>3. QED BY <2>1, <2>2
  <1>6. QED BY <1>5 DEF FlowsExclusive, Admitted, ThreadsHold, Compatible

LEMMA InvariantSafe ==
    ASSUME MaintenanceInvariant
    PROVE  MaintenanceSafe
  <1>1. TempAccounted
    BY DEF MaintenanceInvariant, TempsKnown, TempKnown, Accounted, TempAccounted, TypeOK
  <1>2. QED
    BY <1>1, ExclusiveWork DEF MaintenanceInvariant, Admitted, MaintenanceSafe

\* A receipt that has ended stays as it is, whoever it is attributed to.
LEMMA EndsStay ==
    ASSUME TypeOK, Admitted, [Next]_vars, NEW s \in Submission, receipt[s].state \in Terminal
    PROVE  /\ receipt'[s] = [receipt[s] EXCEPT !.mine = receipt'[s].mine]
           /\ receipt'[s].state = receipt[s].state
  <1>r. receipt[s] \in Receipt /\ ~Active(s) /\ ~Due(s) /\ exec[s].at = "off" /\ receipt[s].state # "none"
    BY DEF TypeOK, Admitted, ThreadsHold, Active, Due, Terminal
  <1>u. receipt'[s] = receipt[s] => /\ receipt'[s] = [receipt[s] EXCEPT !.mine = receipt'[s].mine]
                                    /\ receipt'[s].state = receipt[s].state
    BY <1>r DEF Receipt
  <1> USE DEF update, backups
  <1>1. ASSUME NEW t \in Submission, Begin(t)
        PROVE  receipt'[s] = receipt[s]
    <2> PICK stuck \in SUBSET temp :
          LET now == [u \in Submission |-> Settled(u, stuck)] IN
          /\ Reconciled(stuck)
          /\ IF \E u \in Submission : now[u].state \in {"queued", "running"} /\ Conflicts(t, u)
             THEN receipt' = now /\ UNCHANGED exec
             ELSE /\ receipt' = [now EXCEPT ![t].state = "queued", ![t].mine = TRUE]
                  /\ exec' = [exec EXCEPT ![t].at = "accepted"]
      BY <1>1 DEF Begin
    <2> DEFINE now == [u \in Submission |-> Settled(u, stuck)]
    <2>1. receipt' = now \/ receipt' = [now EXCEPT ![t].state = "queued", ![t].mine = TRUE]
      OBVIOUS
    <2>2. now \in [Submission -> Receipt] /\ now[s] = receipt[s]
      BY <1>r, ReconciledReceipts, SettledFacts
    <2>3. s # t
      BY <1>1, <1>r DEF Begin
    <2> HIDE DEF now
    <2>4. QED BY <2>1, <2>2, <2>3
  <1>2. ASSUME NEW t \in Submission, Execute(t)
        PROVE  receipt'[s] = receipt[s]
    <2>1. s # t
      BY <1>2, <1>r, ExecuteFacts DEF Admitted
    <2>2. QED BY <1>2, <2>1, ExecuteFacts DEF Admitted
  <1>3. CASE Reconcile \/ RequestSchema \/ RequestUpdate \/ RequestRestore
    <2>1. PICK stuck \in SUBSET temp : receipt' = [t \in Submission |-> Settled(t, stuck)]
      BY <1>3 DEF Reconcile, RequestSchema, RequestUpdate, RequestRestore, Admits
    <2>2. receipt'[s] = receipt[s]
      BY <1>r, <2>1, SettledFacts
    <2>3. QED BY <1>u, <2>2
  <1>4. CASE ApiCrashes
    BY <1>4, <1>r DEF ApiCrashes, Receipt
  <1>5. CASE \/ SchemaRuns \/ SchemaEnds
             \/ ReconcileUpdate \/ CancelUpdate \/ ClaimRestore \/ FinishRestore \/ ClaimUpdate
             \/ JournalMoves \/ PublishStatus \/ PublishTerminal \/ HelperBoots
             \/ HelperRestarts \/ UNCHANGED vars
    BY <1>5, <1>u
       DEF SchemaRuns, SchemaEnds, ReconcileUpdate, CancelUpdate, ClaimRestore, FinishRestore,
           ClaimUpdate, JournalMoves, PublishStatus, PublishTerminal, HelperBoots,
           HelperRestarts, vars
  <1>6. QED
    BY <1>1, <1>2, <1>3, <1>4, <1>5, <1>u DEF Next, Help

\* What "completed" says of an operation.
Truth(s) ==
    LET a == ArtifactOf[s] IN
    CASE KindOf[s] = "create" -> Data \subseteq files'[a] \/ Deleted(a)
      [] KindOf[s] = "check" -> s \notin temp' /\ Data \subseteq files'[a]
      [] KindOf[s] = "delete" -> files'[a] = {}

\* A reconciliation believes the evidence, or a check that waits for its cleanup only.
LEMMA ReconciledTruth ==
    ASSUME TypeOK, Admitted, TempsKnown, FilesAgree,
           NEW stuck \in SUBSET temp, Reconciled(stuck), UNCHANGED files,
           NEW s \in Submission, receipt[s].state # "completed",
           Settled(s, stuck).state = "completed"
    PROVE  Truth(s)
  <1> DEFINE a == ArtifactOf[s]
  <1>1. Due(s) /\ ~(receipt[s].temp /\ s \in stuck)
    BY SettledCases
  <1>2. \/ receipt[s].temp /\ receipt[s].deferred = "completed"
        \/ EvidenceProven(s)
    BY <1>1, SettledCases
  <1>3. s \in temp' => s \in temp /\ ~receipt[s].temp
    BY <1>1 DEF Reconciled
  <1>4. CASE receipt[s].temp /\ receipt[s].deferred = "completed"
    <2>1. KindOf[s] = "check"
      BY <1>4 DEF TempsKnown, TempKnown, OfCheck
    <2>2. Inspects(s)
      BY <1>1, <1>4, <2>1 DEF Inspects, Due
    <2>3. QED BY <1>3, <1>4, <2>1, <2>2 DEF Truth, FilesAgree, Inspected
  <1>5. CASE EvidenceProven(s)
    <2>1. CASE KindOf[s] = "create"
      BY <1>5, <2>1 DEF EvidenceProven, Truth, Whole
    <2>2. CASE KindOf[s] = "check"
      <3>1. Whole(a) /\ proof[a].checked = s
        BY <1>5, <2>2 DEF EvidenceProven
      <3>2. s \notin temp'
        BY <1>3, <2>2, <3>1 DEF FilesAgree, Unproven, Unchecked
      <3>3. QED BY <2>2, <3>1, <3>2 DEF Truth, Whole
    <2>3. CASE KindOf[s] = "delete"
      BY <1>5, <2>3 DEF EvidenceProven, Truth
    <2>4. QED BY ConstantsAssumption, <2>1, <2>2, <2>3
  <1>6. QED BY <1>2, <1>4, <1>5

LEMMA AnswerTruth ==
    ASSUME TypeOK, Admitted, TempsKnown, FilesAgree,
           NEW s \in Submission, Answer(s)
    PROVE  Truth(s)
  <1>1. exec[s].at = "answer" /\ UNCHANGED <<files, temp>>
    BY DEF Answer
  <1>2. CASE KindOf[s] = "create"
    <2>1. Data \subseteq files[ArtifactOf[s]] \/ Deleted(ArtifactOf[s])
      BY <1>1, <1>2 DEF FilesAgree, Built, Written
    <2>2. QED BY <1>1, <1>2, <2>1 DEF Truth
  <1>3. CASE KindOf[s] = "check"
    <2>1. Inspects(s) /\ s \notin temp
      BY <1>1, <1>3 DEF Inspects, TempsKnown, TempKnown, TempStages
    <2>2. QED BY <1>1, <1>3, <2>1 DEF Truth, FilesAgree, Inspected
  <1>4. CASE KindOf[s] = "delete"
    BY <1>1, <1>4 DEF Truth, FilesAgree, Unlinked, Unlinks
  <1>5. QED BY ConstantsAssumption, <1>2, <1>3, <1>4

LEMMA CompletesTruly ==
    ASSUME MaintenanceInvariant, [Next]_vars,
           NEW s \in Submission, receipt[s].state # "completed", receipt'[s].state = "completed"
    PROVE  Truth(s)
  <1>i. TypeOK /\ Admitted /\ TempsKnown /\ FilesAgree
    BY DEF MaintenanceInvariant
  <1> USE DEF update, backups
  <1>1. ASSUME NEW t \in Submission, Begin(t)
        PROVE  Truth(s)
    <2> PICK stuck \in SUBSET temp :
          LET now == [u \in Submission |-> Settled(u, stuck)] IN
          /\ Reconciled(stuck)
          /\ IF \E u \in Submission : now[u].state \in {"queued", "running"} /\ Conflicts(t, u)
             THEN receipt' = now /\ UNCHANGED exec
             ELSE /\ receipt' = [now EXCEPT ![t].state = "queued", ![t].mine = TRUE]
                  /\ exec' = [exec EXCEPT ![t].at = "accepted"]
      BY <1>1 DEF Begin
    <2> DEFINE now == [u \in Submission |-> Settled(u, stuck)]
    <2>1. receipt' = now \/ receipt' = [now EXCEPT ![t].state = "queued", ![t].mine = TRUE]
      OBVIOUS
    <2>2. now \in [Submission -> Receipt] /\ now[s] = Settled(s, stuck) /\ UNCHANGED files
      BY <1>1, <1>i, ReconciledReceipts DEF Begin
    <2> HIDE DEF now
    <2>3. now[s].state = "completed"
      BY <2>1, <2>2 DEF Receipt
    <2>4. QED BY <1>i, <2>2, <2>3, ReconciledTruth
  <1>2. ASSUME NEW t \in Submission, Execute(t)
        PROVE  Truth(s)
    <2>1. s = t
      BY <1>2, <1>i, ExecuteFacts DEF Admitted
    <2>2. Answer(s)
      <3>1. CASE \/ CreateFile(s) \/ CreateEvidence(s) \/ CheckPreflight(s) \/ CreateTarget(s)
                 \/ RestoreToTarget(s) \/ CheckEvidence(s) \/ Unlink(s)
        BY <3>1 DEF CreateFile, CreateEvidence, CheckPreflight, CreateTarget, RestoreToTarget,
           CheckEvidence, Unlink
      <3>2. CASE Start(s) \/ RecordTarget(s) \/ ClearTarget(s) \/ Defer(s) \/ AnswerFailure(s)
        BY <3>2, <1>i DEF Start, RecordTarget, ClearTarget, Defer, AnswerFailure, TypeOK, Receipt
      <3>3. QED BY <1>2, <2>1, <3>1, <3>2 DEF Execute
    <2>3. QED BY <1>i, <2>2, AnswerTruth
  <1>3. CASE Reconcile \/ RequestSchema \/ RequestUpdate \/ RequestRestore
    <2>1. PICK stuck \in SUBSET temp :
              /\ Reconciled(stuck) /\ UNCHANGED files
              /\ receipt' = [t \in Submission |-> Settled(t, stuck)]
      BY <1>3 DEF Reconcile, RequestSchema, RequestUpdate, RequestRestore, Admits
    <2>2. QED BY <1>i, <2>1, ReconciledTruth
  <1>4. CASE ApiCrashes
    BY <1>4, <1>i DEF ApiCrashes, TypeOK, Receipt
  <1>5. CASE \/ SchemaRuns \/ SchemaEnds
             \/ ReconcileUpdate \/ CancelUpdate \/ ClaimRestore \/ FinishRestore \/ ClaimUpdate
             \/ JournalMoves \/ PublishStatus \/ PublishTerminal \/ HelperBoots
             \/ HelperRestarts \/ UNCHANGED vars
    BY <1>5
       DEF SchemaRuns, SchemaEnds, ReconcileUpdate, CancelUpdate, ClaimRestore, FinishRestore,
           ClaimUpdate, JournalMoves, PublishStatus, PublishTerminal, HelperBoots,
           HelperRestarts, vars
  <1>6. QED
    BY <1>1, <1>2, <1>3, <1>4, <1>5 DEF Next, Help

LEMMA StepTellsTruth ==
    ASSUME MaintenanceInvariant, [Next]_vars
    PROVE  TellsTruth
  <1> SUFFICES ASSUME NEW s \in Submission
               PROVE  /\ receipt[s].state \in Terminal =>
                            receipt'[s] = [receipt[s] EXCEPT !.mine = receipt'[s].mine]
                      /\ receipt[s].state # "completed" /\ receipt'[s].state = "completed" =>
                            LET a == ArtifactOf[s] IN
                            CASE KindOf[s] = "create" ->
                                     \/ Data \subseteq files'[a]
                                     \/ \E d \in Submission :
                                           /\ KindOf[d] = "delete" /\ ArtifactOf[d] = a
                                           /\ receipt[d].state # "none"
                              [] KindOf[s] = "check" -> s \notin temp' /\ Data \subseteq files'[a]
                              [] KindOf[s] = "delete" -> files'[a] = {}
    BY DEF TellsTruth
  <1>1. receipt[s].state \in Terminal =>
            receipt'[s] = [receipt[s] EXCEPT !.mine = receipt'[s].mine]
    BY EndsStay DEF MaintenanceInvariant
  <1>2. receipt[s].state # "completed" /\ receipt'[s].state = "completed" => Truth(s)
    BY CompletesTruly
  <1>3. QED BY <1>1, <1>2 DEF Truth, Deleted, Begun

-----------------------------------------------------------------------------
(* The theorems.                                                           *)

\* Whoever restarts and whatever fails, the flows exclude each other, a temporary database
\* is known to a receipt still to be reconciled, and what blocks the admission without
\* anybody at work is explained, provided a creation makes an artifact of its own and an
\* update is not answered while its activation journal is open.
THEOREM Safety ==
    ASSUME ~Strays
    PROVE  Spec => []MaintenanceSafe
  <1>1. Init => MaintenanceInvariant
    BY InvariantStart
  <1>2. MaintenanceInvariant /\ [Next]_vars => MaintenanceInvariant'
    BY InvariantStep
  <1>3. MaintenanceInvariant => MaintenanceSafe
    BY InvariantSafe
  <1>4. QED BY <1>1, <1>2, <1>3, PTL DEF Spec

\* A receipt says "completed" of what is so, and takes no answer back.
THEOREM Truthful ==
    ASSUME ~Strays
    PROVE  Spec => ReceiptsTruthful
  <1>1. Init => MaintenanceInvariant
    BY InvariantStart
  <1>2. MaintenanceInvariant /\ [Next]_vars => MaintenanceInvariant'
    BY InvariantStep
  <1>3. MaintenanceInvariant /\ [Next]_vars => [TellsTruth]_vars
    BY StepTellsTruth
  <1>4. QED BY <1>1, <1>2, <1>3, PTL DEF Spec, ReceiptsTruthful

=============================================================================

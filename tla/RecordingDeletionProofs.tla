------------------------ MODULE RecordingDeletionProofs ------------------------
(***************************************************************************)
(* Theorems about the deletion of recordings on request: the types, the    *)
(* truth of what an operation tells (DeletionTruthful), and that nothing   *)
(* follows what was told (DeletionFinal).  The last parts are about two    *)
(* other components of the same run (MCServices), the exports and the      *)
(* plans that remedy the findings of a scan.                               *)
(*                                                                         *)
(* The truth of a result is not inductive: it follows from the account     *)
(* that each request keeps at each place (RequestOK): what is neither left *)
(* to do nor removed was skipped or failed.  Two requests may work on one  *)
(* operation, the first of them taken for dead; the account of each stands *)
(* because what it relies on only grows (Grows), and because the manifest  *)
(* is written before anybody can work on its plan (Drafted, Untouched).    *)
(* That is one lemma (Frame); each kind of step is one more, which asks of *)
(* a step no more than its own account.                                    *)
(***************************************************************************)
EXTENDS MCServices, FiniteSetTheorems, WellFoundedInduction, TLAPS
-----------------------------------------------------------------------------
(* The invariant.                                                          *)

Lost(s) == seg[s].row # "none" /\ ~seg[s].file

\* Nothing was skipped and nothing went wrong so far.
Sound(r) == ~req[r].skip /\ ~req[r].fail

RequestOK(r) ==
    /\ req[r].at = "idle" => req[r].done = {}
    /\ req[r].at # "idle" => req[r].op \in Op /\ req[r].done \subseteq gone[req[r].op]
    /\ req[r].at \in {"draft", "publish"} =>
           req[r].op \in Plan /\ listed[req[r].op].by = r
    /\ req[r].at = "publish" => rec[req[r].op].state = "none"
    /\ req[r].at \in {"scope", "verify", "batch"} /\ req[r].op \in Exact =>
           /\ req[r].left \subseteq Target[req[r].op]
           /\ ~req[r].skip => req[r].left = Target[req[r].op]
    /\ req[r].at \in {"touch", "delete", "mark"} =>
           /\ req[r].left \subseteq listed[req[r].op].items
           /\ Sound(r) => \A s \in listed[req[r].op].items : s \in req[r].left \/ Removed(s)
    /\ req[r].at \in {"delete", "mark"} => req[r].left # {}
    /\ req[r].at = "mark" => Lost(First(r)) /\ First(r) \in gone[req[r].op]
    /\ req[r].at \in {"release", "save", "end"} /\ Sound(r) =>
           \A s \in listed[req[r].op].items : Removed(s)

OperationOK(o) ==
    /\ rec[o].state = "completed" \/ outer[o].state = "completed" =>
           \A s \in listed[o].items : Removed(s)
    /\ rec[o].said.deleted \subseteq gone[o]
    /\ outer[o].said.deleted \subseteq gone[o]
    /\ gone[o] \subseteq listed[o].items
    /\ o \in Exact => listed[o].items = Target[o]
    /\ rec[o].state \in Terminal => ~rec[o].live

\* While the manifest of a plan may still be written, nobody has worked on the plan.
Drafted(p) == listed[p].by = Nobody \/ \E r \in Request : req[r].at = "draft" /\ req[r].op = p
Untouched(p) ==
    /\ rec[p].state = "none" /\ outer[p].state = "none" /\ gone[p] = {}
    /\ \A r \in Request : req[r].op = p => req[r].at \in {"draft", "gone"}

DeletionInvariant ==
    /\ TypeOK
    /\ \A r \in Request : RequestOK(r)
    /\ \A o \in Op : OperationOK(o)
    /\ \A p \in Plan : Drafted(p) => Untouched(p)
    /\ ScopesExclusive

-----------------------------------------------------------------------------
(* The types.                                                              *)

\* Whatever a request may change of its job.
LEMMA JobChanged ==
    ASSUME NEW j \in Job, NEW a \in Place, NEW l \in SUBSET Seg, NEW b \in BOOLEAN
    PROVE  /\ [j EXCEPT !.at = a] \in Job
           /\ [j EXCEPT !.at = a, !.left = l] \in Job
           /\ [j EXCEPT !.at = a, !.left = l, !.skip = b] \in Job
           /\ [j EXCEPT !.at = a, !.skip = b] \in Job
           /\ [j EXCEPT !.at = a, !.fail = b] \in Job
           /\ [j EXCEPT !.at = a, !.left = l, !.fail = b] \in Job
           /\ [j EXCEPT !.slow = b] \in Job
           /\ \A o \in Op : [j EXCEPT !.at = a, !.op = o] \in Job
           /\ \A o \in Op : [j EXCEPT !.op = o, !.at = a, !.skip = b] \in Job
           /\ \A o \in Op : [j EXCEPT !.at = a, !.op = o, !.left = l] \in Job
           /\ \A d \in SUBSET Seg : [j EXCEPT !.at = a, !.done = d, !.fail = b] \in Job
           /\ \A d \in SUBSET Seg : [j EXCEPT !.at = a, !.fail = b, !.done = d] \in Job
           /\ \A d \in SUBSET Seg : [j EXCEPT !.at = a, !.left = l, !.done = d] \in Job
           /\ \A c \in BOOLEAN : [j EXCEPT !.at = a, !.outer = c, !.left = l, !.skip = b] \in Job
  <1> QED BY DEF Job

-----------------------------------------------------------------------------
(* What a step may disturb.                                                *)

Grows ==
    /\ \A s \in Seg : (Lost(s) => Lost(s)') /\ (Removed(s) => Removed(s)')
    /\ \A o \in Op : gone[o] \subseteq gone'[o]

\* What a request that takes no part may rely on.
LEMMA Frame ==
    ASSUME DeletionInvariant, NEW r \in Owner, Grows,
           NEW q \in Request, q # r, req'[q] = req[q],
           \A o \in Op : listed'[o].items # listed[o].items =>
                             o \in Plan /\ r # Nobody /\ req[r].at = "draft" /\ req[r].op = o,
           \A o \in Op : listed'[o].by # listed[o].by => listed[o].by = Nobody,
           \A o \in Plan : rec[o].state = "none" /\ rec'[o].state # "none" =>
                               r # Nobody /\ req[r].at = "publish" /\ req[r].op = o
    PROVE  RequestOK(q)'
  <1> USE ConstantsAssumption
  <1>1. RequestOK(q) /\ (r # Nobody => r \in Request /\ RequestOK(r))
    BY DEF DeletionInvariant, Owner
  <1>2. req[q].left \subseteq Seg /\ req[q].at \in Place
    BY DEF DeletionInvariant, TypeOK, Job
  <1>3. CASE req[q].at = "idle"
    BY <1>1, <1>3 DEF RequestOK
  <1> PICK o \in Op \cup {Nobody} : o = req[q].op
    BY DEF DeletionInvariant, TypeOK, Job
  <1>4. CASE req[q].at # "idle"
    <2>1. o \in Op /\ o = req'[q].op /\ listed[o].items \subseteq Seg /\ gone[o] \subseteq gone'[o]
      BY <1>1, <1>4 DEF RequestOK, DeletionInvariant, TypeOK, Manifest, Grows
    <2>2. First(q)' = First(q)
      BY DEF First
    <2>3. CASE listed'[o].items # listed[o].items
      <3>1. Untouched(o)
        BY <2>1, <2>3 DEF DeletionInvariant, Drafted, Owner
      <3>2. req[q].at \in {"draft", "gone"}
        BY <3>1 DEF Untouched
      <3>3. req[q].at # "draft"
        BY <1>1, <2>1, <2>3 DEF RequestOK
      <3>4. req'[q].at = "gone" /\ req'[q].done \subseteq gone'[o]
        BY <1>1, <3>2, <3>3, <2>1 DEF RequestOK
      <3> QED BY <3>4, <2>1 DEF RequestOK
    <2>4. CASE listed'[o].items = listed[o].items
      <3>1. \A s \in listed[o].items : Removed(s) => Removed(s)'
        BY <2>1 DEF Grows
      <3>2. Sound(q)' = Sound(q)
        BY DEF Sound
      <3>3. req[q].at \in {"draft", "publish"} => listed'[o].by = q
        BY <1>1, <2>1 DEF RequestOK
      <3>4. req[q].at = "publish" => rec'[o].state = "none"
        BY <1>1, <2>1 DEF RequestOK
      <3>5. req[q].at = "mark" => Lost(First(q))' /\ First(q) \in gone'[o]
        <4>1. SUFFICES ASSUME req[q].at = "mark" PROVE Lost(First(q))' /\ First(q) \in gone'[o]
          OBVIOUS
        <4>2. First(q) \in gone[o] /\ Lost(First(q))
          BY <1>1, <4>1 DEF RequestOK
        <4>3. First(q) \in Seg
          BY <4>2, <2>1 DEF DeletionInvariant, TypeOK
        <4>4. PICK s \in Seg : s = First(q)
          BY <4>3
        <4>5. First(q)' = s
          BY <2>2, <4>4
        <4>6. Lost(s)' /\ s \in gone'[o]
          BY <4>2, <4>4, <2>1 DEF Grows
        <4> HIDE DEF First
        <4> QED BY <4>4, <4>5, <4>6 DEF Lost
      <3>6. req'[q].done \subseteq gone'[o]
        BY <1>1, <1>4, <2>1 DEF RequestOK
      <3> HIDE DEF First
      <3> QED BY <1>1, <1>4, <2>1, <2>2, <2>4, <3>1, <3>2, <3>3, <3>4, <3>5, <3>6 DEF RequestOK
    <2> QED BY <2>3, <2>4
  <1> QED BY <1>3, <1>4

\* An operation that a step leaves alone.
LEMMA OperationKept ==
    ASSUME DeletionInvariant, NEW o \in Op, Grows,
           rec'[o] = rec[o], outer'[o] = outer[o], gone'[o] = gone[o],
           listed'[o].items = listed[o].items
    PROVE  OperationOK(o)'
  <1>1. OperationOK(o)
    BY DEF DeletionInvariant
  <1>2. listed[o].items \subseteq Seg
    BY DEF DeletionInvariant, TypeOK, Manifest
  <1>3. \A s \in listed[o].items : Removed(s) => Removed(s)'
    BY <1>2 DEF Grows
  <1> QED BY <1>1, <1>3 DEF OperationOK

\* A step of a request at work on its operation.
LEMMA WorkStep ==
    ASSUME DeletionInvariant, TypeOK', Grows, NEW r \in Request, NEW o \in Op, o = req[r].op,
           req[r].at \notin {"idle", "draft", "gone"}, req'[r].at \notin {"idle", "draft"},
           req'[r].op = o,
           \A q \in Request : q # r => req'[q] = req[q],
           UNCHANGED listed,
           \A p \in Op : p # o =>
               rec'[p] = rec[p] /\ outer'[p] = outer[p] /\ gone'[p] = gone[p],
           rec[o].state = "none" /\ rec'[o].state # "none" => req[r].at = "publish",
           RequestOK(r)', OperationOK(o)', ScopesExclusive'
    PROVE  DeletionInvariant'
  <1> USE ConstantsAssumption
  <1>1. \A q \in Request : RequestOK(q)'
    <2>1. r \in Owner
      BY DEF Owner
    <2>2. ASSUME NEW q \in Request, q # r PROVE RequestOK(q)'
      BY <2>1, <2>2, Frame DEF Op
    <2> QED BY <2>2
  <1>2. \A p \in Op : OperationOK(p)'
    BY OperationKept
  <1>3. ASSUME NEW p \in Plan, Drafted(p)' PROVE Untouched(p)'
    <2>1. Drafted(p)
      <3>1. CASE listed[p].by = Nobody
        BY <3>1 DEF Drafted
      <3>2. CASE listed[p].by # Nobody
        <4>1. PICK q \in Request : req'[q].at = "draft" /\ req'[q].op = p
          BY <1>3, <3>2 DEF Drafted
        <4>2. q # r
          BY <4>1
        <4> QED BY <4>1, <4>2 DEF Drafted
      <3> QED BY <3>1, <3>2
    <2>2. Untouched(p)
      BY <2>1 DEF DeletionInvariant
    <2>3. p # o
      BY <2>2 DEF Untouched
    <2>4. rec'[p] = rec[p] /\ outer'[p] = outer[p] /\ gone'[p] = gone[p]
      BY <2>3 DEF Op
    <2>5. ASSUME NEW q \in Request, req'[q].op = p PROVE req'[q].at \in {"draft", "gone"}
      <3>1. q # r
        BY <2>3, <2>5
      <3> QED BY <3>1, <2>2, <2>5 DEF Untouched
    <2> QED BY <2>2, <2>4, <2>5 DEF Untouched
  <1> QED BY <1>1, <1>2, <1>3 DEF DeletionInvariant

\* A step of no request.
LEMMA OtherStep ==
    ASSUME DeletionInvariant, TypeOK', Grows, UNCHANGED <<req, gone>>,
           \A o \in Op : listed'[o].items = listed[o].items /\ listed'[o].by = listed[o].by,
           \A p \in Plan : rec[p].state = "none" => rec'[p].state = "none",
           \A p \in Plan : outer[p].state = "none" => outer'[p].state = "none",
           \A o \in Op : OperationOK(o)', ScopesExclusive'
    PROVE  DeletionInvariant'
  <1>1. \A q \in Request : RequestOK(q)'
    <2>1. Nobody \in Owner
      BY DEF Owner
    <2>2. ASSUME NEW q \in Request PROVE RequestOK(q)'
      <3>1. q # Nobody
        BY ConstantsAssumption
      <3> QED BY <2>1, <3>1, Frame
    <2> QED BY <2>2
  <1>2. ASSUME NEW p \in Plan, Drafted(p)' PROVE Untouched(p)'
    <2>1. p \in Op
      BY DEF Op
    <2>2. Drafted(p)
      BY <1>2, <2>1 DEF Drafted
    <2>3. Untouched(p)
      BY <2>2 DEF DeletionInvariant
    <2> QED BY <2>3 DEF Untouched
  <1> QED BY <1>1, <1>2 DEF DeletionInvariant

LEMMA Minimum ==
    ASSUME NEW S, S \subseteq Nat, S # {}
    PROVE  \E s \in S : \A t \in S : s <= t
  <1>1. PICK s \in S : \A t \in S : <<t, s>> \notin OpToRel(<, Nat)
    BY NatLessThanWellFounded, WFMin
  <1>2. \A t \in S : ~ t < s
    BY <1>1 DEF OpToRel
  <1> QED BY <1>2

LEMMA FirstIsLeft ==
    ASSUME TypeOK, NEW r \in Request, req[r].left # {}
    PROVE  First(r) \in req[r].left
  <1>1. req[r].left \subseteq Nat
    BY ConstantsAssumption DEF TypeOK, Job
  <1> QED BY <1>1, Minimum DEF First

\* What a request at work starts from.
LEMMA AtWork ==
    ASSUME DeletionInvariant, NEW r \in Request, req[r].at # "idle"
    PROVE  /\ TypeOK /\ RequestOK(r) /\ OperationOK(req[r].op) /\ ScopesExclusive
           /\ req \in [Request -> Job] /\ req[r] \in Job
           /\ req[r].op \in Op /\ req[r].done \subseteq gone[req[r].op]
           /\ rec[req[r].op] \in Record /\ outer[req[r].op] \in Row
           /\ listed[req[r].op].items \subseteq Seg
           /\ spent \in 0 .. MaxEvents /\ guard \in Owner /\ r \in Owner /\ Nobody \in Owner
  <1>1. TypeOK /\ RequestOK(r) /\ ScopesExclusive
    BY DEF DeletionInvariant
  <1>2. req \in [Request -> Job] /\ req[r] \in Job
    BY <1>1 DEF TypeOK
  <1>3. req[r].op \in Op /\ req[r].done \subseteq gone[req[r].op]
    BY <1>1 DEF RequestOK
  <1>4. OperationOK(req[r].op)
    BY <1>3 DEF DeletionInvariant
  <1>5. rec[req[r].op] \in Record /\ outer[req[r].op] \in Row
        /\ listed[req[r].op].items \subseteq Seg
    BY <1>1, <1>3 DEF TypeOK, Manifest
  <1> QED BY <1>1, <1>2, <1>3, <1>4, <1>5 DEF TypeOK, Owner

\* A step that changes nothing but the job of a request at work, and what it holds.
LEMMA RequestStep ==
    ASSUME DeletionInvariant, NEW r \in Request, NEW j \in Job, req' = [req EXCEPT ![r] = j],
           req[r].at \notin {"idle", "draft", "gone"}, j.at \notin {"idle", "draft"},
           j.op = req[r].op,
           UNCHANGED <<seg, gone, listed, rec, outer>>,
           claim' \in [Op -> [owner : Owner, live : BOOLEAN]], ScopesExclusive',
           guard' \in Owner, spent' \in 0 .. MaxEvents,
           RequestOK(r)'
    PROVE  DeletionInvariant'
  <1> PICK o \in Op : o = req[r].op
    BY AtWork
  <1>1. req \in [Request -> Job]
    BY AtWork
  <1>2. req' \in [Request -> Job] /\ req'[r] = j /\ \A q \in Request : q # r => req'[q] = req[q]
    BY <1>1
  <1>3. TypeOK'
    BY <1>2 DEF DeletionInvariant, TypeOK
  <1>4. Grows
    BY DEF Grows, Lost, Removed
  <1>5. OperationOK(o)'
    BY <1>4, OperationKept
  <1> QED BY <1>2, <1>3, <1>4, <1>5, WorkStep

LEMMA ClaimsKept ==
    ASSUME DeletionInvariant, UNCHANGED <<claim, seg>>
    PROVE  claim' \in [Op -> [owner : Owner, live : BOOLEAN]] /\ ScopesExclusive'
  <1> QED BY DEF DeletionInvariant, TypeOK, ScopesExclusive

\* A request that gives up, or is done.
LEMMA QuitStep ==
    ASSUME DeletionInvariant, NEW r \in Request, NEW j \in Job, req' = [req EXCEPT ![r] = j],
           req[r].at \notin {"idle", "draft", "gone"},
           j.at \in {"release", "save", "end", "gone"}, j.op = req[r].op,
           j.done \subseteq gone[req[r].op],
           j.at = "gone" \/ j.skip \/ j.fail
              \/ (req[r].at \in {"release", "save", "end"}
                  /\ j.skip = req[r].skip /\ j.fail = req[r].fail),
           UNCHANGED <<seg, gone, listed, rec, outer>>,
           claim' \in [Op -> [owner : Owner, live : BOOLEAN]], ScopesExclusive',
           guard' \in Owner, spent' \in 0 .. MaxEvents
    PROVE  DeletionInvariant'
  <1> PICK o \in Op : o = req[r].op
    BY AtWork
  <1>1. req'[r] = j /\ RequestOK(r)
    BY AtWork
  <1>2. Sound(r)' => j.at = "gone" \/ (req[r].at \in {"release", "save", "end"} /\ Sound(r))
    BY <1>1 DEF Sound
  <1>3. j.at \in {"release", "save", "end"} /\ Sound(r)' => \A s \in listed[o].items : Removed(s)'
    BY <1>1, <1>2 DEF RequestOK, Removed
  <1>4. RequestOK(r)'
    BY <1>1, <1>3 DEF RequestOK
  <1> QED BY <1>4, RequestStep

-----------------------------------------------------------------------------
(* The steps of a request: its claims.                                     *)

\* An end before anything was done, and what an exception leaves.
LEMMA Quitting ==
    ASSUME DeletionInvariant, NEW r \in Request, req[r].at \notin {"idle", "draft", "gone"},
           UNCHANGED <<seg, gone, listed, rec, outer, claim>>,
           guard' \in Owner, spent' \in 0 .. MaxEvents,
           Blocked(r) \/ Raises(r) \/ Skips(r)
              \/ req' = [req EXCEPT ![r].at = "save", ![r].fail = TRUE] \/ Leaves(r)
    PROVE  DeletionInvariant'
  <1> claim' \in [Op -> [owner : Owner, live : BOOLEAN]] /\ ScopesExclusive'
    BY ClaimsKept
  <1>0. req[r] \in Job /\ {"save", "release", "gone"} \subseteq Place
        /\ req[r].done \subseteq gone[req[r].op] /\ req \in [Request -> Job]
    BY AtWork DEF Place
  <1>1. CASE Blocked(r)
    <2> DEFINE j == [req[r] EXCEPT !.at = "save", !.skip = TRUE]
    <2>1. j \in Job
      BY <1>0, JobChanged
    <2>2. j.at = "save" /\ j.op = req[r].op /\ j.done = req[r].done /\ j.skip
      BY <1>0 DEF Job
    <2>3. req' = [req EXCEPT ![r] = j]
      BY <1>1 DEF Blocked
    <2> HIDE DEF j
    <2> QED BY <1>0, <2>1, <2>2, <2>3, QuitStep
  <1>2. CASE Raises(r)
    <2> DEFINE j == [req[r] EXCEPT !.at = "release", !.done = {}, !.fail = TRUE]
    <2>1. j \in Job
      BY <1>0, JobChanged
    <2>2. j.at = "release" /\ j.op = req[r].op /\ j.done = {} /\ j.fail
      BY <1>0 DEF Job
    <2>3. req' = [req EXCEPT ![r] = j]
      BY <1>2 DEF Raises
    <2> HIDE DEF j
    <2> QED BY <1>0, <2>1, <2>2, <2>3, QuitStep
  <1>3. CASE Skips(r)
    <2> DEFINE j == [req[r] EXCEPT !.at = "release", !.skip = TRUE]
    <2>1. j \in Job
      BY <1>0, JobChanged
    <2>2. j.at = "release" /\ j.op = req[r].op /\ j.done = req[r].done /\ j.skip
      BY <1>0 DEF Job
    <2>3. req' = [req EXCEPT ![r] = j]
      BY <1>3 DEF Skips
    <2> HIDE DEF j
    <2> QED BY <1>0, <2>1, <2>2, <2>3, QuitStep
  <1>4. CASE req' = [req EXCEPT ![r].at = "save", ![r].fail = TRUE]
    <2> DEFINE j == [req[r] EXCEPT !.at = "save", !.fail = TRUE]
    <2>1. j \in Job
      BY <1>0, JobChanged
    <2>2. j.at = "save" /\ j.op = req[r].op /\ j.done = req[r].done /\ j.fail
      BY <1>0 DEF Job
    <2>3. req' = [req EXCEPT ![r] = j]
      BY <1>4
    <2> HIDE DEF j
    <2> QED BY <1>0, <2>1, <2>2, <2>3, QuitStep
  <1>5. CASE Leaves(r)
    <2> DEFINE j == [req[r] EXCEPT !.at = "gone"]
    <2>1. j \in Job
      BY <1>0, JobChanged
    <2>2. j.at = "gone" /\ j.op = req[r].op /\ j.done = req[r].done
      BY <1>0 DEF Job
    <2>3. req' = [req EXCEPT ![r] = j]
      BY <1>5 DEF Leaves, Goes
    <2> HIDE DEF j
    <2> QED BY <1>0, <2>1, <2>2, <2>3, QuitStep
  <1> QED BY <1>1, <1>2, <1>3, <1>4, <1>5

\* A request that goes on, with all it had before.
LEMMA Going ==
    ASSUME DeletionInvariant, NEW r \in Request, NEW a \in Place, Goes(r, a),
           req[r].at \notin {"idle", "draft", "gone"}, a \notin {"idle", "draft"}
    PROVE  /\ req' \in [Request -> Job]
           /\ req'[r] = [req[r] EXCEPT !.at = a] /\ req'[r] \in Job
           /\ req' = [req EXCEPT ![r] = req'[r]]
           /\ req'[r].at = a /\ req'[r].op = req[r].op /\ req'[r].left = req[r].left
           /\ req'[r].done = req[r].done /\ req'[r].skip = req[r].skip
           /\ req'[r].fail = req[r].fail
           /\ Sound(r)' = Sound(r) /\ First(r)' = First(r)
           /\ \A q \in Request : q # r => req'[q] = req[q]
  <1> DEFINE j == [req[r] EXCEPT !.at = a]
  <1>0. req[r] \in Job /\ req \in [Request -> Job]
    BY AtWork
  <1>1. j \in Job
    BY <1>0, JobChanged
  <1>2. /\ j.at = a /\ j.op = req[r].op /\ j.left = req[r].left /\ j.done = req[r].done
        /\ j.skip = req[r].skip /\ j.fail = req[r].fail
    BY <1>0 DEF Job
  <1>3. req' = [req EXCEPT ![r] = j]
    BY DEF Goes
  <1>4. req'[r] = j /\ req' \in [Request -> Job]
    BY <1>0, <1>1, <1>3
  <1>5. req' = [req EXCEPT ![r] = req'[r]]
    BY <1>3, <1>4
  <1>6. \A q \in Request : q # r => req'[q] = req[q]
    BY <1>0, <1>3
  <1>7. req'[r] = [req[r] EXCEPT !.at = a] /\ req'[r] \in Job
    BY <1>1, <1>4
  <1> HIDE DEF j
  <1>8. Sound(r)' = Sound(r) /\ First(r)' = First(r)
    BY <1>2, <1>4 DEF Sound, First
  <1> QED BY <1>2, <1>4, <1>5, <1>6, <1>7, <1>8

LEMMA NotFoundStep ==
    ASSUME DeletionInvariant, NEW r \in Request, NotFound(r)
    PROVE  DeletionInvariant'
  <1> QED BY AtWork, Quitting DEF NotFound, archive, store

LEMMA OuterRefusedStep ==
    ASSUME DeletionInvariant, NEW r \in Request, OuterRefused(r)
    PROVE  DeletionInvariant'
  <1> QED BY AtWork, Quitting DEF OuterRefused, archive, store

LEMMA ScopeRefusedStep ==
    ASSUME DeletionInvariant, NEW r \in Request, ScopeRefused(r)
    PROVE  DeletionInvariant'
  <1> QED BY AtWork, Quitting DEF ScopeRefused, archive, store

LEMMA VerifyStep ==
    ASSUME DeletionInvariant, NEW r \in Request, Verify(r)
    PROVE  DeletionInvariant'
  <1>0. req[r].at = "verify" /\ UNCHANGED <<seg, gone, listed, rec, outer, claim, guard, spent>>
    BY DEF Verify, archive, store
  <1>1. CASE Raises(r) \/ Skips(r)
    BY <1>0, <1>1, AtWork, Quitting
  <1>2. CASE Goes(r, "batch")
    <2>1. "batch" \in Place /\ req[r].at = "verify"
      BY <1>0 DEF Place
    <2>2. PICK j \in Job : j = req'[r]
      BY <1>2, <2>1, Going
    <2>3. /\ req' = [req EXCEPT ![r] = j] /\ j.at = "batch" /\ j.op = req[r].op
          /\ j.left = req[r].left /\ j.done = req[r].done /\ j.skip = req[r].skip
      BY <1>2, <2>1, <2>2, Going
    <2>4. RequestOK(r)'
      BY <1>0, <2>1, <2>2, <2>3, AtWork DEF RequestOK
    <2>5. guard' \in Owner /\ spent' \in 0 .. MaxEvents
      BY <1>0, AtWork
    <2> QED BY <1>0, <2>1, <2>3, <2>4, <2>5, ClaimsKept, RequestStep
  <1> QED BY <1>1, <1>2 DEF Verify

LEMMA TakeScopeStep ==
    ASSUME DeletionInvariant, NEW r \in Request, TakeScope(r)
    PROVE  DeletionInvariant'
  <1>0. /\ req[r].at = "scope" /\ UNCHANGED <<seg, gone, listed, rec, outer, guard, spent>>
        /\ Goes(r, "verify") /\ "verify" \in Place /\ ~ScopeTaken(r)
        /\ claim' = [o \in Op |-> IF o = req[r].op THEN [owner |-> r, live |-> TRUE]
                                  ELSE IF claim[o].live THEN claim[o] ELSE NoClaim]
    BY DEF TakeScope, archive, store, Place
  <1>a. PICK j \in Job : j = req'[r]
    BY <1>0, Going
  <1>b. /\ req' = [req EXCEPT ![r] = j] /\ j.at = "verify" /\ j.op = req[r].op
        /\ j.left = req[r].left /\ j.done = req[r].done /\ j.skip = req[r].skip
    BY <1>0, <1>a, Going
  <1>1. RequestOK(r)'
    BY <1>0, <1>a, <1>b, AtWork DEF RequestOK
  <1>2. claim' \in [Op -> [owner : Owner, live : BOOLEAN]]
    BY <1>0 DEF DeletionInvariant, TypeOK, NoClaim, Owner
  <1>3. ASSUME NEW o \in Op, NEW q \in Op, o # q, claim'[o].live, claim'[q].live
        PROVE  ~Overlap(o, q)
    <2>1. CASE o # req[r].op /\ q # req[r].op
      <3>1. claim[o].live /\ claim[q].live
        BY <1>0, <1>3, <2>1 DEF NoClaim
      <3> QED BY <1>3, <3>1 DEF DeletionInvariant, ScopesExclusive
    <2>2. CASE o = req[r].op
      <3>1. claim[q].live
        BY <1>0, <1>3, <2>2 DEF NoClaim
      <3> QED BY <1>0, <2>2, <3>1 DEF ScopeTaken, Overlap
    <2>3. CASE q = req[r].op
      <3>1. claim[o].live
        BY <1>0, <1>3, <2>3 DEF NoClaim
      <3> QED BY <1>0, <2>3, <3>1 DEF ScopeTaken, Overlap
    <2> QED BY <2>1, <2>2, <2>3
  <1>4. ScopesExclusive'
    BY <1>0, <1>3 DEF DeletionInvariant, ScopesExclusive, Overlap, Scope
  <1>5. guard' \in Owner /\ spent' \in 0 .. MaxEvents
    BY <1>0, AtWork
  <1> QED BY <1>0, <1>b, <1>1, <1>2, <1>4, <1>5, RequestStep

-----------------------------------------------------------------------------
(* The steps of a request: the deletion.                                   *)

LEMMA SecondPassStep ==
    ASSUME DeletionInvariant, NEW r \in Request, SecondPass(r)
    PROVE  DeletionInvariant'
  <1>0. req[r].at = "batch" /\ UNCHANGED <<seg, gone, listed, rec, outer, claim, guard, spent>>
    BY DEF SecondPass, archive, store
  <1> PICK o \in Op : o = req[r].op
    BY <1>0, AtWork
  <1> PICK items \in SUBSET Seg :
          items = IF o \in Plan THEN listed[o].items ELSE req[r].left
    BY <1>0, AtWork DEF Job
  <1>a. \A l \in SUBSET Seg, b \in BOOLEAN :
            [req[r] EXCEPT !.at = "touch", !.left = l, !.skip = b] \in Job
    <2>1. req[r] \in Job /\ "touch" \in Place
      BY <1>0, AtWork DEF Place
    <2> QED BY <2>1, JobChanged
  <1>1. CASE Raises(r)
    BY <1>0, <1>1, AtWork, Quitting
  <1>2. CASE ~Raises(r)
    <2> PICK left \in SUBSET Seg : left = {s \in items \cap Finalized : seg[s].file}
      OBVIOUS
    <2> PICK skip \in BOOLEAN :
            skip = (req[r].skip \/ \E s \in items : s \notin Finalized \/ ~seg[s].file)
      OBVIOUS
    <2> DEFINE j == [req[r] EXCEPT !.at = "touch", !.left = left, !.skip = skip]
    <2>1. req' = [req EXCEPT ![r] = j]
      BY <1>2 DEF SecondPass
    <2>2. j \in Job
      BY <1>a
    <2>3. /\ j.at = "touch" /\ j.op = o /\ j.left = left /\ j.done = req[r].done
          /\ j.skip = skip /\ j.fail = req[r].fail
      BY <1>0, AtWork DEF Job
    <2> HIDE DEF j
    <2>4. req'[r] = j
      BY <2>1, <1>0, AtWork
    <2>5. items \subseteq listed[o].items /\ (~req[r].skip => items = listed[o].items)
      BY <1>0, AtWork DEF RequestOK, OperationOK, Op
    <2>6. ~skip => ~req[r].skip /\ items \subseteq left
      OBVIOUS
    <2>7. RequestOK(r)'
      BY <1>0, <2>3, <2>4, <2>5, <2>6, AtWork DEF RequestOK, Sound
    <2> QED BY <1>0, <2>1, <2>2, <2>3, <2>7, AtWork, ClaimsKept, RequestStep
  <1> QED BY <1>1, <1>2

LEMMA TouchStep ==
    ASSUME DeletionInvariant, NEW r \in Request, Touch(r)
    PROVE  DeletionInvariant'
  <1>0. /\ req[r].at = "touch" /\ UNCHANGED <<seg, gone, listed, rec, outer, claim, guard, spent>>
        /\ {"release", "delete"} \subseteq Place
    BY DEF Touch, archive, store, Place
  <1> PICK o \in Op : o = req[r].op
    BY <1>0, AtWork
  <1>1. CASE Raises(r)
    BY <1>0, <1>1, AtWork, Quitting
  <1>2. ASSUME NEW a \in {"release", "delete"}, Goes(r, a),
               a = "release" => req[r].left = {}, a = "delete" => req[r].left # {}
        PROVE  DeletionInvariant'
    <2>1. PICK j \in Job : j = req'[r]
      BY <1>0, <1>2, Going
    <2>2. /\ req' = [req EXCEPT ![r] = j] /\ j.at = a /\ j.op = o
          /\ j.left = req[r].left /\ j.done = req[r].done /\ Sound(r)' = Sound(r)
      BY <1>0, <1>2, <2>1, Going
    <2>3. \A s \in Seg : Removed(s)' = Removed(s)
      BY <1>0 DEF Removed
    <2>4. RequestOK(r)'
      BY <1>0, <1>2, <2>1, <2>2, <2>3, AtWork DEF RequestOK
    <2> QED BY <1>0, <1>2, <2>2, <2>4, AtWork, ClaimsKept, RequestStep
  <1>3. (Goes(r, "release") /\ req[r].left = {}) \/ (Goes(r, "delete") /\ req[r].left # {})
        \/ Raises(r)
    BY DEF Touch
  <1> QED BY <1>1, <1>2, <1>3

LEMMA DeleteStep ==
    ASSUME DeletionInvariant, NEW r \in Request, Delete(r)
    PROVE  DeletionInvariant'
  <1>0. /\ req[r].at = "delete" /\ UNCHANGED <<listed, rec, outer, claim, spent>>
        /\ guard = Nobody /\ {"touch", "mark"} \subseteq Place
    BY DEF Delete, store, Place
  <1> PICK o \in Op : o = req[r].op
    BY <1>0, AtWork
  <1>1. PICK s \in Seg : s = First(r) /\ s \in req[r].left
    BY <1>0, AtWork, FirstIsLeft DEF RequestOK, Job
  <1>2. CASE (Skips(r) \/ Raises(r)) /\ UNCHANGED <<seg, gone, guard>>
    BY <1>0, <1>2, AtWork, Quitting
  <1>3. CASE /\ req' = [req EXCEPT ![r].at = "touch", ![r].left = req[r].left \ {s}, ![r].skip = TRUE]
             /\ UNCHANGED <<seg, gone, guard>>
    <2> DEFINE j == [req[r] EXCEPT !.at = "touch", !.left = req[r].left \ {s}, !.skip = TRUE]
    <2>1. req' = [req EXCEPT ![r] = j]
      BY <1>3
    <2>2. req[r].left \ {s} \in SUBSET Seg
      BY <1>0, AtWork DEF Job
    <2>3. j \in Job
      BY <1>0, <2>2, AtWork, JobChanged
    <2>4. /\ j.at = "touch" /\ j.op = o /\ j.left = req[r].left \ {s} /\ j.done = req[r].done
          /\ j.skip
      BY <1>0, AtWork DEF Job
    <2> HIDE DEF j
    <2>5. req'[r] = j
      BY <2>1, <1>0, AtWork
    <2>6. RequestOK(r)'
      BY <1>0, <1>3, <2>4, <2>5, AtWork DEF RequestOK, Sound
    <2> QED BY <1>0, <1>3, <2>1, <2>3, <2>4, <2>6, AtWork, ClaimsKept, RequestStep
  <1>4. CASE /\ s \in Finalized /\ seg[s].file /\ seg' = [seg EXCEPT ![s].file = FALSE]
             /\ gone' = [gone EXCEPT ![o] = @ \cup {s}]
             /\ guard' = r /\ Goes(r, "mark")
    <2>1. TypeOK /\ seg \in [Seg -> Catalogued] /\ gone \in [Op -> SUBSET Seg]
      BY DEF DeletionInvariant, TypeOK
    <2>2. seg' \in [Seg -> Catalogued] /\ gone' \in [Op -> SUBSET Seg]
      BY <1>4, <2>1 DEF Catalogued
    <2>3. /\ \A t \in Seg : t # s => seg'[t] = seg[t]
          /\ seg'[s].row = seg[s].row /\ ~seg'[s].file
      BY <1>4, <2>1 DEF Catalogued
    <2>4. /\ \A p \in Op : p # o => gone'[p] = gone[p]
          /\ gone'[o] = gone[o] \cup {s}
      BY <1>4, <2>1
    <2>5. Lost(s)'
      BY <1>4, <2>3 DEF Lost, Finalized
    <2>6. Grows
      BY <1>4, <2>3, <2>4 DEF Grows, Lost, Removed, Finalized
    <2>7. TypeOK'
      BY <1>0, <1>4, <2>1, <2>2, AtWork, Going DEF TypeOK
    <2>8. listed[o].items \subseteq Seg /\ s \in listed[o].items
      BY <1>0, <1>1, AtWork DEF RequestOK
    <2>9. OperationOK(o)'
      BY <1>0, <2>4, <2>6, <2>8, AtWork DEF OperationOK, Grows
    <2>10. First(r)' = s /\ Sound(r)' = Sound(r) /\ req'[r].op = o /\ req'[r].at = "mark"
           /\ req'[r].left = req[r].left /\ req'[r].done = req[r].done
           /\ \A q \in Request : q # r => req'[q] = req[q]
      BY <1>0, <1>1, <1>4, Going
    <2>11. Lost(First(r))' /\ First(r)' \in gone'[o]
      BY <2>4, <2>5, <2>10 DEF Lost
    <2>12. Sound(r) => \A t \in listed[o].items : t \in req[r].left \/ Removed(t)'
      BY <1>0, <2>6, <2>8, AtWork DEF RequestOK, Grows
    <2>13. RequestOK(r)'
      <3> HIDE DEF First
      <3> QED BY <1>0, <2>4, <2>10, <2>11, <2>12, AtWork DEF RequestOK
    <2>14. ScopesExclusive'
      BY <1>0, <2>3 DEF DeletionInvariant, ScopesExclusive
    <2> QED BY <1>0, <2>4, <2>6, <2>7, <2>9, <2>10, <2>13, <2>14, WorkStep
  <1> QED BY <1>1, <1>2, <1>3, <1>4 DEF Delete

LEMMA MarkStep ==
    ASSUME DeletionInvariant, NEW r \in Request, Mark(r)
    PROVE  DeletionInvariant'
  <1>0. /\ req[r].at = "mark" /\ UNCHANGED <<gone, listed, rec, outer, claim>>
        /\ guard' = Nobody /\ "touch" \in Place
    BY DEF Mark, store, Place
  <1> PICK o \in Op : o = req[r].op
    BY <1>0, AtWork
  <1>1. PICK s \in Seg : s = First(r) /\ s \in req[r].left
    BY <1>0, AtWork, FirstIsLeft DEF RequestOK, Job
  <1>2. Lost(s) /\ s \in gone[o]
    BY <1>0, <1>1, AtWork DEF RequestOK
  <1>3. seg \in [Seg -> Catalogued] /\ TypeOK
    BY DEF DeletionInvariant, TypeOK
  <1>4. seg' \in {seg, [seg EXCEPT ![s].row = "deleted"]}
    BY <1>1 DEF Mark
  <1>5. /\ seg' \in [Seg -> Catalogued] /\ seg'[s].file = FALSE
        /\ \A t \in Seg : t # s => seg'[t] = seg[t]
        /\ seg'[s].row \in {seg[s].row, "deleted"}
    BY <1>2, <1>3, <1>4 DEF Catalogued, Lost
  <1>6. Grows
    BY <1>0, <1>2, <1>5 DEF Grows, Lost, Removed, Catalogued
  <1>7. spent' \in 0 .. MaxEvents
    BY <1>0, <1>3, ConstantsAssumption DEF Mark, Event, TypeOK
  <1>8. OperationOK(o)'
    BY <1>0, <1>6, OperationKept
  <1>9. ScopesExclusive'
    BY <1>0, <1>5 DEF DeletionInvariant, ScopesExclusive
  <1>10. req[r].left \ {s} \in SUBSET Seg /\ req[r].done \cup {s} \in SUBSET Seg
    BY <1>0, AtWork DEF Job
  <1>11. listed[o].items \subseteq Seg /\ req[r].left \subseteq listed[o].items
    BY <1>0, AtWork DEF RequestOK
  <1>12. CASE /\ seg' = [seg EXCEPT ![s].row = "deleted"]
              /\ req' = [req EXCEPT ![r].at = "touch", ![r].left = req[r].left \ {s},
                                    ![r].done = req[r].done \cup {s}]
    <2> DEFINE j == [req[r] EXCEPT !.at = "touch", !.left = req[r].left \ {s},
                                   !.done = req[r].done \cup {s}]
    <2>1. req' = [req EXCEPT ![r] = j]
      BY <1>12
    <2>2. j \in Job
      BY <1>0, <1>10, AtWork, JobChanged
    <2>3. /\ j.at = "touch" /\ j.op = o /\ j.left = req[r].left \ {s}
          /\ j.done = req[r].done \cup {s} /\ j.skip = req[r].skip /\ j.fail = req[r].fail
      BY <1>0, AtWork DEF Job
    <2> HIDE DEF j
    <2>4. req'[r] = j /\ req' \in [Request -> Job] /\ \A q \in Request : q # r => req'[q] = req[q]
      BY <2>1, <2>2, <1>0, AtWork
    <2>5. TypeOK'
      BY <1>0, <1>3, <1>5, <1>7, <2>4, AtWork DEF TypeOK
    <2>6. Removed(s)'
      <3>1. seg'[s] \in Catalogued /\ seg'[s].row = "deleted" /\ seg'[s].file = FALSE
        BY <1>3, <1>5, <1>12 DEF Catalogued
      <3> QED BY <3>1 DEF Removed, Catalogued
    <2>7. Sound(r)' => \A t \in listed[o].items : t \in j.left \/ Removed(t)'
      <3>1. Sound(r)' => Sound(r)
        BY <2>3, <2>4 DEF Sound
      <3>2. Sound(r) => \A t \in listed[o].items : t \in req[r].left \/ Removed(t)
        BY <1>0, AtWork DEF RequestOK
      <3> QED BY <1>6, <1>11, <2>3, <2>6, <3>1, <3>2 DEF Grows
    <2>8. j.done \subseteq gone[o]
      BY <1>0, <1>2, <2>3, AtWork
    <2>9. RequestOK(r)'
      BY <1>0, <1>11, <2>3, <2>4, <2>7, <2>8 DEF RequestOK
    <2> QED BY <1>0, <1>6, <1>8, <1>9, <2>3, <2>4, <2>5, <2>9, WorkStep
  <1>13. CASE req' = [req EXCEPT ![r].at = "touch", ![r].left = req[r].left \ {s},
                                 ![r].fail = TRUE]
    <2> DEFINE j == [req[r] EXCEPT !.at = "touch", !.left = req[r].left \ {s}, !.fail = TRUE]
    <2>1. req' = [req EXCEPT ![r] = j]
      BY <1>13
    <2>2. j \in Job
      BY <1>0, <1>10, AtWork, JobChanged
    <2>3. /\ j.at = "touch" /\ j.op = o /\ j.left = req[r].left \ {s}
          /\ j.done = req[r].done /\ j.fail
      BY <1>0, AtWork DEF Job
    <2> HIDE DEF j
    <2>4. req'[r] = j /\ req' \in [Request -> Job] /\ \A q \in Request : q # r => req'[q] = req[q]
      BY <2>1, <2>2, <1>0, AtWork
    <2>5. TypeOK'
      BY <1>0, <1>3, <1>5, <1>7, <2>4, AtWork DEF TypeOK
    <2>6. ~Sound(r)'
      BY <2>3, <2>4 DEF Sound
    <2>7. RequestOK(r)'
      BY <1>0, <1>11, <2>3, <2>4, <2>6, AtWork DEF RequestOK
    <2> QED BY <1>0, <1>6, <1>8, <1>9, <2>3, <2>4, <2>5, <2>7, WorkStep
  <1> QED BY <1>1, <1>12, <1>13 DEF Mark

LEMMA ReleaseStep ==
    ASSUME DeletionInvariant, NEW r \in Request, Release(r)
    PROVE  DeletionInvariant'
  <1>0. /\ req[r].at = "release" /\ UNCHANGED <<seg, gone, listed, rec, outer, guard, spent>>
        /\ "save" \in Place
        /\ claim' \in {claim, [claim EXCEPT ![req[r].op] = NoClaim]}
    BY DEF Release, archive, store, Place
  <1> PICK o \in Op : o = req[r].op
    BY <1>0, AtWork
  <1>1. claim' \in [Op -> [owner : Owner, live : BOOLEAN]]
        /\ \A p \in Op : claim'[p].live => claim[p].live
    <2>1. claim \in [Op -> [owner : Owner, live : BOOLEAN]]
      BY DEF DeletionInvariant, TypeOK
    <2>2. NoClaim \in [owner : Owner, live : BOOLEAN] /\ NoClaim.live = FALSE
      BY DEF NoClaim, Owner
    <2> HIDE DEF NoClaim
    <2>3. CASE claim' = claim
      BY <2>1, <2>3
    <2>4. CASE claim' = [claim EXCEPT ![o] = NoClaim]
      <3>1. \A p \in Op : claim'[p] = IF p = o THEN NoClaim ELSE claim[p]
        BY <2>1, <2>4
      <3> QED BY <2>1, <2>2, <2>4, <3>1
    <2> QED BY <1>0, <2>3, <2>4
  <1>2. ScopesExclusive'
    BY <1>0, <1>1 DEF DeletionInvariant, ScopesExclusive, Overlap, Scope
  <1>3. CASE Goes(r, "save")
    <2>1. PICK j \in Job : j = req'[r]
      BY <1>0, <1>3, Going
    <2>2. /\ req' = [req EXCEPT ![r] = j] /\ j.at = "save" /\ j.op = o
          /\ j.done = req[r].done /\ j.skip = req[r].skip /\ j.fail = req[r].fail
      BY <1>0, <1>3, <2>1, Going
    <2> QED BY <1>0, <1>1, <1>2, <2>2, AtWork, QuitStep
  <1>4. CASE ~Goes(r, "save")
    <2> PICK done \in SUBSET Seg : done = IF o \in Plan THEN req[r].done ELSE {}
      BY <1>0, AtWork DEF Job
    <2> DEFINE j == [req[r] EXCEPT !.at = "save", !.fail = TRUE, !.done = done]
    <2>1. req' = [req EXCEPT ![r] = j]
      BY <1>4 DEF Release
    <2>2. j \in Job
      BY <1>0, AtWork, JobChanged
    <2>3. j.at = "save" /\ j.op = o /\ j.done = done /\ j.fail
      BY <1>0, AtWork DEF Job
    <2>4. done \subseteq gone[o]
      BY <1>0, AtWork
    <2> HIDE DEF j
    <2> QED BY <1>0, <1>1, <1>2, <2>1, <2>2, <2>3, <2>4, AtWork, QuitStep
  <1> QED BY <1>3, <1>4

-----------------------------------------------------------------------------
(* The steps of a request: records and rows.                               *)

LEMMA RecordChanged ==
    ASSUME NEW c \in Record, NEW t \in {"ready", "running"} \cup Terminal, NEW u \in Told,
           NEW w \in Owner, NEW b \in BOOLEAN
    PROVE  /\ [c EXCEPT !.state = t] \in Record
           /\ [c EXCEPT !.old = b] \in Record
           /\ [c EXCEPT !.live = b] \in Record
           /\ [c EXCEPT !.state = t, !.live = b, !.said = u] \in Record
           /\ [c EXCEPT !.state = t, !.owner = w, !.live = b] \in Record
           /\ NoRecord \in Record /\ NoRow \in Row /\ NoResult \in Told
  <1> QED BY DEF Record, Row, Told, NoRecord, NoRow, NoResult, Owner

LEMMA RowChanged ==
    ASSUME NEW c \in Row, NEW t \in Terminal, NEW u \in Told, NEW b \in BOOLEAN
    PROVE  /\ [c EXCEPT !.live = b] \in Row
           /\ [c EXCEPT !.state = t, !.live = b, !.said = u] \in Row
  <1> QED BY DEF Row

\* A step of a request at work on the record and the row of its operation.
LEMMA TellStep ==
    ASSUME DeletionInvariant, NEW r \in Request, NEW o \in Op, o = req[r].op,
           req[r].at \notin {"idle", "draft", "gone"},
           NEW j \in Job, req' = [req EXCEPT ![r] = j],
           j.at \notin {"idle", "draft"}, j.op = o,
           NEW c \in Record, rec' = [rec EXCEPT ![o] = c],
           NEW w \in Row, outer' = [outer EXCEPT ![o] = w],
           UNCHANGED <<seg, gone, listed, claim>>, guard' \in Owner, spent' \in 0 .. MaxEvents,
           rec[o].state = "none" /\ c.state # "none" => req[r].at = "publish",
           c.state \in Terminal => ~c.live,
           c.state = "completed" \/ w.state = "completed" =>
               \A s \in listed[o].items : Removed(s),
           c.said.deleted \subseteq gone[o], w.said.deleted \subseteq gone[o],
           RequestOK(r)'
    PROVE  DeletionInvariant'
  <1>1. TypeOK /\ ScopesExclusive /\ OperationOK(o)
    BY DEF DeletionInvariant
  <1>2. /\ req' \in [Request -> Job] /\ req'[r] = j /\ \A q \in Request : q # r => req'[q] = req[q]
        /\ rec' \in [Op -> Record] /\ rec'[o] = c /\ \A p \in Op : p # o => rec'[p] = rec[p]
        /\ outer' \in [Op -> Row] /\ outer'[o] = w /\ \A p \in Op : p # o => outer'[p] = outer[p]
    BY <1>1 DEF TypeOK
  <1>3. TypeOK'
    BY <1>1, <1>2 DEF TypeOK
  <1>4. Grows
    BY DEF Grows, Lost, Removed
  <1>5. \A s \in Seg : Removed(s)' = Removed(s)
    BY DEF Removed
  <1>6. listed[o].items \subseteq Seg
    BY <1>1 DEF TypeOK, Manifest
  <1>7. OperationOK(o)'
    BY <1>1, <1>2, <1>5, <1>6 DEF OperationOK
  <1>8. ScopesExclusive'
    BY <1>1 DEF ScopesExclusive
  <1> QED BY <1>2, <1>3, <1>4, <1>7, <1>8, WorkStep

LEMMA Kept ==
    ASSUME DeletionInvariant, NEW o \in Op
    PROVE  /\ rec = [rec EXCEPT ![o] = rec[o]] /\ outer = [outer EXCEPT ![o] = outer[o]]
           /\ rec[o] \in Record /\ outer[o] \in Row
           /\ rec[o].state \in Terminal => ~rec[o].live
           /\ rec[o].state = "completed" \/ outer[o].state = "completed" =>
                  \A s \in listed[o].items : Removed(s)
           /\ rec[o].said.deleted \subseteq gone[o] /\ outer[o].said.deleted \subseteq gone[o]
           /\ rec[o].said \in Told /\ outer[o].said \in Told
  <1> OperationOK(o)
    BY DEF DeletionInvariant
  <1> QED BY DEF DeletionInvariant, TypeOK, OperationOK, Record, Row

\* The same for the record alone, and for the row alone.
LEMMA TellRecord ==
    ASSUME DeletionInvariant, NEW r \in Request, NEW o \in Op, o = req[r].op,
           req[r].at \notin {"idle", "draft", "gone"},
           NEW j \in Job, req' = [req EXCEPT ![r] = j],
           j.at \notin {"idle", "draft"}, j.op = o,
           NEW c \in Record, rec' = [rec EXCEPT ![o] = c],
           UNCHANGED <<seg, gone, listed, claim, outer>>,
           guard' \in Owner, spent' \in 0 .. MaxEvents,
           rec[o].state = "none" /\ c.state # "none" => req[r].at = "publish",
           c.state \in Terminal => ~c.live,
           c.state = "completed" => \A s \in listed[o].items : Removed(s),
           c.said.deleted \subseteq gone[o],
           RequestOK(r)'
    PROVE  DeletionInvariant'
  <1>1. PICK w \in Row : w = outer[o]
    BY Kept
  <1>2. /\ outer' = [outer EXCEPT ![o] = w] /\ w.said.deleted \subseteq gone[o]
        /\ w.state = "completed" => \A s \in listed[o].items : Removed(s)
    BY <1>1, Kept
  <1> QED BY <1>2, TellStep

LEMMA TellRow ==
    ASSUME DeletionInvariant, NEW r \in Request, NEW o \in Op, o = req[r].op,
           req[r].at \notin {"idle", "draft", "gone"},
           NEW j \in Job, req' = [req EXCEPT ![r] = j],
           j.at \notin {"idle", "draft"}, j.op = o,
           NEW w \in Row, outer' = [outer EXCEPT ![o] = w],
           UNCHANGED <<seg, gone, listed, claim, rec>>,
           guard' \in Owner, spent' \in 0 .. MaxEvents,
           w.state = "completed" => \A s \in listed[o].items : Removed(s),
           w.said.deleted \subseteq gone[o],
           RequestOK(r)'
    PROVE  DeletionInvariant'
  <1>1. PICK c \in Record : c = rec[o]
    BY Kept
  <1>2. /\ rec' = [rec EXCEPT ![o] = c] /\ c.said.deleted \subseteq gone[o]
        /\ c.state = "completed" => \A s \in listed[o].items : Removed(s)
        /\ c.state \in Terminal => ~c.live
    BY <1>1, Kept
  <1> QED BY <1>1, <1>2, TellStep

LEMMA PublishStep ==
    ASSUME DeletionInvariant, NEW r \in Request, Publish(r)
    PROVE  DeletionInvariant'
  <1>0. /\ req[r].at = "publish" /\ Leaves(r) /\ "gone" \in Place
        /\ UNCHANGED <<seg, gone, listed, outer, claim, spent>> /\ guard' = Nobody
    BY DEF Publish, archive, Place
  <1> PICK o \in Op : o = req[r].op
    BY <1>0, AtWork
  <1> DEFINE c == [rec[o] EXCEPT !.state = "ready"]
  <1>1. rec[o] \in Record /\ rec[o].said.deleted \subseteq gone[o]
    BY Kept
  <1>2. c \in Record /\ c.state = "ready" /\ c.said = rec[o].said
    BY <1>1 DEF Record
  <1>3. rec' = [rec EXCEPT ![o] = c]
    BY DEF Publish
  <1>4. PICK j \in Job : j = req'[r]
    BY <1>0, Going DEF Leaves
  <1>5. req' = [req EXCEPT ![r] = j] /\ j.at = "gone" /\ j.op = o /\ j.done = req[r].done
    BY <1>0, <1>4, Going DEF Leaves
  <1>6. RequestOK(r)'
    BY <1>0, <1>4, <1>5, AtWork DEF RequestOK
  <1> HIDE DEF c
  <1> QED BY <1>0, <1>1, <1>2, <1>3, <1>5, <1>6, AtWork, TellRecord DEF Terminal

LEMMA CancelRecordStep ==
    ASSUME DeletionInvariant, NEW r \in Request, CancelRecord(r)
    PROVE  DeletionInvariant'
  <1>0. /\ req[r].at = "cancel" /\ Leaves(r) /\ "gone" \in Place
        /\ UNCHANGED <<seg, gone, listed, outer, claim, spent>> /\ guard' = Nobody
    BY DEF CancelRecord, archive, Place
  <1> PICK o \in Op : o = req[r].op
    BY <1>0, AtWork
  <1>2. NoRecord \in Record /\ NoRecord.state = "none" /\ NoRecord.said.deleted = {}
    BY DEF NoRecord, Record, NoResult, Told, Owner
  <1>3. rec' = [rec EXCEPT ![o] = NoRecord]
    BY DEF CancelRecord
  <1>4. PICK j \in Job : j = req'[r]
    BY <1>0, Going DEF Leaves
  <1>5. req' = [req EXCEPT ![r] = j] /\ j.at = "gone" /\ j.op = o /\ j.done = req[r].done
    BY <1>0, <1>4, Going DEF Leaves
  <1>6. RequestOK(r)'
    BY <1>0, <1>4, <1>5, AtWork DEF RequestOK
  <1> QED BY <1>0, <1>2, <1>3, <1>5, <1>6, AtWork, TellRecord DEF Terminal

LEMMA OuterReplaysStep ==
    ASSUME DeletionInvariant, NEW r \in Request, OuterReplays(r)
    PROVE  DeletionInvariant'
  <1>0. /\ req[r].at = "outer" /\ Leaves(r) /\ "gone" \in Place
        /\ UNCHANGED <<seg, gone, listed, outer, claim, guard, spent>>
        /\ outer[req[r].op].state \in Terminal
    BY DEF OuterReplays, archive, Place
  <1> PICK o \in Op : o = req[r].op
    BY <1>0, AtWork
  <1>1. CASE ~OwnsRecord(r)
    <2>1. UNCHANGED rec
      BY <1>1 DEF OuterReplays
    <2> QED BY <1>0, <2>1, AtWork, Quitting
  <1>2. CASE OwnsRecord(r)
    <2> DEFINE c == [rec[o] EXCEPT !.state = outer[o].state, !.live = FALSE,
                                   !.said = outer[o].said]
    <2>1. rec[o] \in Record /\ outer[o].said \in Told /\ outer[o].state \in Terminal
      BY <1>0, Kept
    <2>2. c \in Record /\ c.state = outer[o].state /\ c.said = outer[o].said /\ ~c.live
      BY <2>1 DEF Record
    <2>3. rec' = [rec EXCEPT ![o] = c]
      BY <1>2 DEF OuterReplays
    <2>4. PICK j \in Job : j = req'[r]
      BY <1>0, Going DEF Leaves
    <2>5. req' = [req EXCEPT ![r] = j] /\ j.at = "gone" /\ j.op = o /\ j.done = req[r].done
      BY <1>0, <2>4, Going DEF Leaves
    <2>6. RequestOK(r)'
      BY <1>0, <2>4, <2>5, AtWork DEF RequestOK
    <2>7. rec[o].state # "none"
      BY <1>2 DEF OwnsRecord
    <2> HIDE DEF c
    <2> QED BY <1>0, <2>2, <2>3, <2>5, <2>6, <2>7, AtWork, Kept, TellRecord
  <1> QED BY <1>1, <1>2

LEMMA ClaimOuterStep ==
    ASSUME DeletionInvariant, NEW r \in Request, ClaimOuter(r)
    PROVE  DeletionInvariant'
  <1>0. req[r].at = "outer" /\ UNCHANGED <<seg, gone, listed, rec, claim, guard, spent>>
    BY DEF ClaimOuter, archive, store
  <1> PICK o \in Op : o = req[r].op
    BY <1>0, AtWork
  <1> PICK left \in SUBSET Seg : left = Known(r)
    BY DEF Known, Finalized
  <1> PICK skip \in BOOLEAN : skip = (o \in Exact /\ left # Target[o])
    OBVIOUS
  <1> DEFINE j == [req[r] EXCEPT !.at = "scope", !.outer = TRUE, !.left = left, !.skip = skip]
             w == [state |-> "running", owner |-> r, live |-> TRUE, said |-> NoResult]
  <1>1. req' = [req EXCEPT ![r] = j] /\ outer' = [outer EXCEPT ![o] = w]
    BY DEF ClaimOuter
  <1>2. j \in Job
    <2>1. req[r] \in Job /\ "scope" \in Place
      BY <1>0, AtWork DEF Place
    <2> HIDE DEF j
    <2>2. \A l \in SUBSET Seg, b \in BOOLEAN :
              [req[r] EXCEPT !.at = "scope", !.outer = TRUE, !.left = l, !.skip = b] \in Job
      BY <2>1, JobChanged
    <2> QED BY <2>2 DEF j
  <1>3. /\ j.at = "scope" /\ j.op = o /\ j.left = left /\ j.done = req[r].done /\ j.skip = skip
    BY <1>0, AtWork DEF Job
  <1>4. w \in Row /\ w.state = "running" /\ w.said.deleted = {}
    BY DEF Row, NoResult, Told, Owner
  <1> HIDE DEF j, w
  <1>5. req'[r] = j
    BY <1>0, <1>1, AtWork
  <1>6. o \in Exact => left \subseteq Target[o]
    BY ConstantsAssumption DEF Known, Op
  <1>7. ~j.skip /\ o \in Exact => left = Target[o]
    BY <1>3
  <1>8. j.done \subseteq gone[o] /\ req'[r].at = "scope" /\ req'[r].op = o
        /\ req'[r].left = left /\ req'[r].skip = j.skip /\ req'[r].done = j.done
    BY <1>0, <1>3, <1>5, AtWork
  <1>9. RequestOK(r)'
    BY <1>0, <1>6, <1>7, <1>8 DEF RequestOK
  <1> QED BY <1>0, <1>1, <1>2, <1>3, <1>4, <1>9, AtWork, TellRow

\* A result that says "completed" is one of a request that skipped nothing.
LEMMA ResultFacts ==
    ASSUME DeletionInvariant, NEW r \in Request, req[r].at \in {"save", "end"}
    PROVE  /\ Status(r) \in Terminal /\ Result(r) \in Told
           /\ Result(r).status = Status(r) /\ Result(r).deleted = req[r].done
           /\ Status(r) = "completed" => \A s \in listed[req[r].op].items : Removed(s)
           /\ [Result(r) EXCEPT !.status = "partial"] \in Told
           /\ [Result(r) EXCEPT !.status = "partial"].status = "partial"
           /\ [Result(r) EXCEPT !.status = "partial"].deleted = req[r].done
  <1>1. req[r].done \in SUBSET Seg /\ RequestOK(r)
    BY AtWork DEF Job
  <1>2. Status(r) \in Terminal /\ (Status(r) = "completed" => Sound(r))
    BY DEF Status, Terminal, Sound
  <1>3. Status(r) = "completed" => \A s \in listed[req[r].op].items : Removed(s)
    BY <1>1, <1>2 DEF RequestOK
  <1> HIDE DEF Status
  <1>4. /\ Result(r) \in Told /\ Result(r).status = Status(r) /\ Result(r).deleted = req[r].done
        /\ [Result(r) EXCEPT !.status = "partial"] \in Told
        /\ [Result(r) EXCEPT !.status = "partial"].status = "partial"
        /\ [Result(r) EXCEPT !.status = "partial"].deleted = req[r].done
    BY <1>1, <1>2 DEF Result, Told, Terminal
  <1> QED BY <1>2, <1>3, <1>4

\* A request tells the result of the storage operation and is gone.
LEMMA EndOuterStep ==
    ASSUME DeletionInvariant, NEW r \in Request, req[r].at \in {"save", "end"},
           NEW u \in Told, u.status \in Terminal, EndOuter(r, u), Leaves(r),
           u.status = "completed" => \A s \in listed[req[r].op].items : Removed(s),
           u.deleted \subseteq gone[req[r].op],
           UNCHANGED <<seg, gone, listed, claim, rec, guard>>, spent' \in 0 .. MaxEvents
    PROVE  DeletionInvariant'
  <1> PICK o \in Op : o = req[r].op
    BY AtWork
  <1> DEFINE w == [outer[o] EXCEPT !.state = u.status, !.live = FALSE, !.said = u]
  <1>1. outer[o] \in Row /\ "gone" \in Place
    BY Kept DEF Place
  <1>2. w \in Row /\ w.state = u.status /\ w.said = u
    BY <1>1 DEF Row
  <1>3. outer' = [outer EXCEPT ![o] = w]
    BY DEF EndOuter
  <1>4. PICK j \in Job : j = req'[r]
    BY <1>1, Going DEF Leaves
  <1>5. req' = [req EXCEPT ![r] = j] /\ j.at = "gone" /\ j.op = o /\ j.done = req[r].done
    BY <1>1, <1>4, Going DEF Leaves
  <1>6. RequestOK(r)'
    BY <1>4, <1>5, AtWork DEF RequestOK
  <1> HIDE DEF w
  <1> QED BY <1>2, <1>3, <1>5, <1>6, AtWork, TellRow

LEMMA SaveStep ==
    ASSUME DeletionInvariant, NEW r \in Request, Save(r)
    PROVE  DeletionInvariant'
  <1>0. /\ req[r].at = "save" /\ {"end", "gone"} \subseteq Place
        /\ UNCHANGED <<seg, gone, listed, claim, guard, spent>>
    BY DEF Save, archive, Place
  <1> PICK o \in Op : o = req[r].op
    BY <1>0, AtWork
  <1>1. CASE OwnsRecord(r)
    <2> PICK a \in {"end", "gone"} : a = IF req[r].outer THEN "end" ELSE "gone"
      OBVIOUS
    <2> DEFINE c == [rec[o] EXCEPT !.state = Status(r), !.live = FALSE, !.said = Result(r)]
    <2>1. rec[o] \in Record
      BY Kept
    <2>2. c \in Record /\ c.state = Status(r) /\ c.said = Result(r) /\ ~c.live
      <3> HIDE DEF Status, Result
      <3> QED BY <1>0, <2>1, ResultFacts DEF Record
    <2>3. rec' = [rec EXCEPT ![o] = c] /\ Goes(r, a) /\ UNCHANGED outer
      BY <1>1 DEF Save
    <2>4. PICK j \in Job : j = req'[r]
      BY <1>0, <2>3, Going
    <2>5. /\ req' = [req EXCEPT ![r] = j] /\ j.at = a /\ j.op = o /\ j.done = req[r].done
          /\ Sound(r)' = Sound(r)
      BY <1>0, <2>3, <2>4, Going
    <2>6. \A s \in listed[o].items : Removed(s)' = Removed(s)
      BY <1>0 DEF Removed
    <2>7. RequestOK(r)'
      BY <1>0, <2>4, <2>5, <2>6, AtWork DEF RequestOK
    <2>8. rec[o].state # "none"
      BY <1>1 DEF OwnsRecord
    <2> HIDE DEF c, Status, Result
    <2>9. /\ c.state = "completed" => \A s \in listed[o].items : Removed(s)
          /\ c.said.deleted \subseteq gone[o]
      BY <1>0, <2>2, ResultFacts, AtWork
    <2> QED BY <1>0, <2>2, <2>3, <2>5, <2>7, <2>8, <2>9, AtWork, TellRecord
  <1>2. CASE ~OwnsRecord(r)
    <2>1. Leaves(r) /\ UNCHANGED rec
      BY <1>2 DEF Save
    <2>2. CASE UNCHANGED outer
      BY <1>0, <2>1, <2>2, AtWork, Quitting
    <2>3. CASE EndOuter(r, [status |-> "failed", deleted |-> {}])
      <3> DEFINE u == [status |-> "failed", deleted |-> {}]
      <3>1. u \in Told /\ u.status = "failed" /\ u.deleted = {} /\ u.status \in Terminal
        BY DEF Told, Terminal
      <3>2. EndOuter(r, u)
        BY <2>3
      <3> HIDE DEF u
      <3> QED BY <1>0, <2>1, <3>1, <3>2, AtWork, EndOuterStep
    <2> QED BY <1>2, <2>2, <2>3 DEF Save
  <1> QED BY <1>1, <1>2

LEMMA EndStep ==
    ASSUME DeletionInvariant, NEW r \in Request, End(r)
    PROVE  DeletionInvariant'
  <1>0. /\ req[r].at = "end" /\ Leaves(r)
        /\ UNCHANGED <<seg, gone, listed, rec, claim, guard>>
    BY DEF End, archive, store
  <1>1. spent' \in 0 .. MaxEvents
    BY <1>0, AtWork, ConstantsAssumption DEF End, Event
  <1>2. CASE UNCHANGED outer
    BY <1>0, <1>1, <1>2, AtWork, Quitting
  <1>3. ASSUME NEW u \in Told, EndOuter(r, u), u.deleted = req[r].done,
               u.status = Status(r) \/ u.status = "partial"
        PROVE  DeletionInvariant'
    <2>1. u.status \in Terminal
          /\ (u.status = "completed" => \A s \in listed[req[r].op].items : Removed(s))
      <3> HIDE DEF Status
      <3> QED BY <1>0, <1>3, ResultFacts DEF Terminal
    <2>2. u.deleted \subseteq gone[req[r].op]
      BY <1>0, <1>3, AtWork
    <2> QED BY <1>0, <1>1, <1>3, <2>1, <2>2, EndOuterStep
  <1>4. CASE EndOuter(r, Result(r))
    <2> HIDE DEF Result, Status
    <2> QED BY <1>0, <1>3, <1>4, ResultFacts
  <1>5. CASE EndOuter(r, [Result(r) EXCEPT !.status = "partial"])
    <2> DEFINE u == [Result(r) EXCEPT !.status = "partial"]
    <2>1. u \in Told /\ u.status = "partial" /\ u.deleted = req[r].done
      BY <1>0, ResultFacts
    <2>2. EndOuter(r, u)
      BY <1>5
    <2> HIDE DEF u
    <2> QED BY <1>3, <2>1, <2>2
  <1> QED BY <1>2, <1>4, <1>5 DEF End

-----------------------------------------------------------------------------
(* The steps of a request: plans, and taking an operation up.              *)

Started(o) ==
    /\ rec[o].state \in {"ready", "running", "none"} /\ (o \in Plan => rec[o].state # "none")
    /\ rec'[o].state = "running" /\ rec'[o].said = rec[o].said

\* A request that was idle takes an operation up.
TakesUp(r, o) ==
    /\ req[r].at = "idle" /\ UNCHANGED <<seg, gone, outer, claim>>
    /\ req' \in [Request -> Job] /\ \A q \in Request : q # r => req'[q] = req[q]
    /\ req'[r].op = o /\ req'[r].done = req[r].done
    /\ req'[r].at \in {"draft", "cancel", "save", "outer"}
    /\ req'[r].at = "save" => req'[r].skip
    /\ req'[r].at = "draft" => o \in Plan /\ listed'[o].by = r /\ listed[o].by = Nobody
    /\ req'[r].at # "draft" => (o \in Plan => ~Untouched(o))
    /\ \A p \in Op :
          /\ listed'[p].items = listed[p].items
          /\ req'[r].at # "draft" \/ p # o => listed'[p].by = listed[p].by
          /\ rec'[p] = rec[p] \/ (p = o /\ Started(p))
    /\ listed' \in [Op -> Manifest] /\ rec' \in [Op -> Record]
    /\ guard' \in Owner /\ spent' \in 0 .. MaxEvents

LEMMA TakenUp ==
    ASSUME DeletionInvariant, NEW r \in Request, NEW o \in Op, TakesUp(r, o)
    PROVE  DeletionInvariant'
  <1> USE ConstantsAssumption DEF TakesUp
  <1>1. TypeOK /\ ScopesExclusive /\ RequestOK(r) /\ OperationOK(o) /\ r \in Owner
    BY DEF DeletionInvariant, Owner
  <1> PICK j \in Job : j = req'[r]
    OBVIOUS
  <1>2. /\ req' \in [Request -> Job] /\ req'[r] = j
        /\ \A q \in Request : q # r => req'[q] = req[q]
    OBVIOUS
  <1>3. TypeOK'
    BY <1>1, <1>2 DEF TypeOK
  <1>4. Grows
    BY DEF Grows, Lost, Removed
  <1>5. ASSUME NEW q \in Request PROVE RequestOK(q)'
    <2>1. CASE q = r
      <3>1. j.done = {} /\ j.done \subseteq gone[o]
        BY <1>1 DEF RequestOK
      <3>2. j.at = "save" => ~Sound(r)'
        BY <1>2 DEF Sound
      <3> QED BY <1>2, <2>1, <3>1, <3>2 DEF RequestOK
    <2>2. CASE q # r
      <3>1. \A p \in Plan : rec[p].state = "none" => rec'[p].state = "none"
        BY DEF Op, Started
      <3>2. \A p \in Op : listed'[p].by # listed[p].by => listed[p].by = Nobody
        OBVIOUS
      <3> QED BY <1>1, <1>2, <1>4, <2>2, <3>1, <3>2, Frame
    <2> QED BY <2>1, <2>2
  <1>6. ASSUME NEW p \in Op PROVE OperationOK(p)'
    <2>1. CASE rec'[p] = rec[p]
      BY <1>4, <2>1, OperationKept
    <2>2. CASE rec'[p] # rec[p]
      <3>1. OperationOK(p) /\ rec'[p].state = "running" /\ rec'[p].said = rec[p].said
        BY <1>1, <2>2 DEF Started
      <3>2. \A s \in Seg : Removed(s)' = Removed(s)
        BY DEF Removed
      <3>3. listed[p].items \subseteq Seg
        BY <1>1 DEF TypeOK, Manifest
      <3> QED BY <3>1, <3>2, <3>3 DEF OperationOK, Terminal
    <2> QED BY <2>1, <2>2
  <1>7. ASSUME NEW p \in Plan, Drafted(p)' PROVE Untouched(p)'
    <2>1. p \in Op
      BY DEF Op
    <2>2. Drafted(p)
      <3>1. CASE j.at = "draft" /\ p = o
        BY <3>1 DEF Drafted
      <3>2. CASE ~(j.at = "draft" /\ p = o)
        <4>1. listed'[p].by = listed[p].by
          BY <2>1, <3>2
        <4>2. ASSUME NEW q \in Request, req'[q].at = "draft", req'[q].op = p
              PROVE  req[q].at = "draft" /\ req[q].op = p
          BY <1>2, <3>2, <4>2
        <4> QED BY <1>7, <4>1, <4>2 DEF Drafted
      <3> QED BY <3>1, <3>2
    <2>3. Untouched(p)
      BY <2>2 DEF DeletionInvariant
    <2>4. rec'[p] = rec[p]
      BY <2>1, <2>3 DEF Untouched, Started
    <2>5. ASSUME NEW q \in Request, req'[q].op = p PROVE req'[q].at \in {"draft", "gone"}
      BY <1>2, <2>3, <2>5 DEF Untouched
    <2> QED BY <2>3, <2>4, <2>5 DEF Untouched
  <1>8. ScopesExclusive'
    BY <1>1 DEF ScopesExclusive
  <1> QED BY <1>3, <1>5, <1>6, <1>7, <1>8 DEF DeletionInvariant

LEMMA DraftStep ==
    ASSUME DeletionInvariant, NEW r \in Request, NEW p \in Plan, Draft(r, p)
    PROVE  DeletionInvariant'
  <1> p \in Op /\ TypeOK /\ r \in Owner
    BY DEF Op, DeletionInvariant, Owner
  <1>2. req[r] \in Job /\ "draft" \in Place /\ Finalized \in SUBSET Seg
    BY DEF TypeOK, Place, Finalized
  <1>3. [req[r] EXCEPT !.at = "draft", !.op = p, !.left = Finalized] \in Job
    BY <1>2, JobChanged
  <1> PICK j \in Job : j = [req[r] EXCEPT !.at = "draft", !.op = p, !.left = Finalized]
    BY <1>3
  <1>1. /\ req[r].at = "idle" /\ req' = [req EXCEPT ![r] = j]
        /\ listed' = [listed EXCEPT ![p].by = r] /\ listed[p].by = Nobody
        /\ UNCHANGED <<seg, gone, rec, outer, claim, guard, spent>>
    BY DEF Draft, archive
  <1>4. j.at = "draft" /\ j.op = p /\ j.done = req[r].done
    BY <1>2 DEF Job
  <1>5. /\ listed' \in [Op -> Manifest] /\ listed'[p].by = r
        /\ \A o \in Op : listed'[o].items = listed[o].items
        /\ \A o \in Op : o # p => listed'[o].by = listed[o].by
    BY <1>1 DEF TypeOK, Manifest
  <1>6. rec' \in [Op -> Record] /\ guard' \in Owner /\ spent' \in 0 .. MaxEvents
    BY <1>1 DEF TypeOK
  <1>7. /\ req' \in [Request -> Job] /\ req'[r] = j
        /\ \A q \in Request : q # r => req'[q] = req[q]
    BY <1>1 DEF TypeOK
  <1> QED
    <2>1. TakesUp(r, p)
      BY <1>1, <1>4, <1>5, <1>6, <1>7 DEF TakesUp
    <2> QED BY <2>1, TakenUp

LEMMA CancelManifestStep ==
    ASSUME DeletionInvariant, NEW r \in Request, NEW p \in Plan, CancelManifest(r, p)
    PROVE  DeletionInvariant'
  <1> p \in Op /\ TypeOK /\ r \in Owner
    BY DEF Op, DeletionInvariant, Owner
  <1> DEFINE j == [req[r] EXCEPT !.at = "cancel", !.op = p]
  <1>1. /\ req[r].at = "idle" /\ req' = [req EXCEPT ![r] = j]
        /\ listed' = [listed EXCEPT ![p].there = FALSE] /\ rec[p].state = "ready"
        /\ UNCHANGED <<seg, gone, rec, outer, claim, spent>> /\ guard' = r
    BY DEF CancelManifest, archive
  <1>2. req[r] \in Job /\ "cancel" \in Place
    BY DEF TypeOK, Place
  <1>3. j \in Job
    BY <1>2, JobChanged
  <1>4. j.at = "cancel" /\ j.op = p /\ j.done = req[r].done
    BY <1>2 DEF Job
  <1>5. /\ listed' \in [Op -> Manifest]
        /\ \A o \in Op : listed'[o].items = listed[o].items /\ listed'[o].by = listed[o].by
    BY <1>1 DEF TypeOK, Manifest
  <1>6. rec' \in [Op -> Record] /\ guard' \in Owner /\ spent' \in 0 .. MaxEvents
    BY <1>1 DEF TypeOK
  <1>7. ~Untouched(p)
    BY <1>1 DEF Untouched
  <1> HIDE DEF j
  <1>8. /\ req' \in [Request -> Job] /\ req'[r] = j
        /\ \A q \in Request : q # r => req'[q] = req[q]
    BY <1>1, <1>3 DEF TypeOK
  <1>9. TakesUp(r, p)
    BY <1>1, <1>4, <1>5, <1>6, <1>7, <1>8 DEF TakesUp
  <1> QED BY <1>9, TakenUp

LEMMA ClaimStep ==
    ASSUME DeletionInvariant, NEW r \in Request, NEW o \in Op, Claim(r, o)
    PROVE  DeletionInvariant'
  <1> TypeOK /\ r \in Owner
    BY DEF DeletionInvariant, Owner
  <1> PICK skip \in BOOLEAN : skip = (rec[o].state = "ready" /\ rec[o].old)
    OBVIOUS
  <1> PICK a \in {"save", "outer"} : a = IF skip THEN "save" ELSE "outer"
    OBVIOUS
  <1> DEFINE j == [req[r] EXCEPT !.op = o, !.at = a, !.skip = skip]
             c == [rec[o] EXCEPT !.state = "running", !.owner = r, !.live = TRUE]
  <1>1. /\ req[r].at = "idle" /\ req' = [req EXCEPT ![r] = j] /\ rec' = [rec EXCEPT ![o] = c]
        /\ Claimable(o) /\ UNCHANGED <<seg, gone, listed, outer, claim, guard, spent>>
    BY DEF Claim, archive
  <1>2. req[r] \in Job /\ rec[o] \in Record
    BY DEF TypeOK
  <1>3. j \in Job
    <2>1. "save" \in Place /\ "outer" \in Place
      BY DEF Place
    <2>2. \A b \in BOOLEAN : [req[r] EXCEPT !.op = o, !.at = "save", !.skip = b] \in Job
                          /\ [req[r] EXCEPT !.op = o, !.at = "outer", !.skip = b] \in Job
      BY <1>2, <2>1, JobChanged
    <2> QED BY <2>2
  <1>4. j.at = a /\ j.op = o /\ j.done = req[r].done /\ j.skip = skip
    BY <1>2 DEF Job
  <1>5. c \in Record /\ c.state = "running" /\ c.said = rec[o].said
    BY <1>2 DEF Record
  <1>6. /\ rec[o].state \in {"ready", "running", "none"}
        /\ o \in Plan => rec[o].state # "none"
    BY <1>1 DEF Claimable
  <1> HIDE DEF j, c
  <1>7. /\ rec' \in [Op -> Record] /\ rec'[o] = c /\ \A p \in Op : p # o => rec'[p] = rec[p]
        /\ guard' \in Owner /\ spent' \in 0 .. MaxEvents /\ listed' \in [Op -> Manifest]
    BY <1>1, <1>5 DEF TypeOK
  <1>8. o \in Plan => ~Untouched(o)
    BY <1>6 DEF Untouched
  <1>9. j.at \in {"save", "outer"} /\ (j.at = "save" => j.skip)
    BY <1>4
  <1>10. \A q \in Op : rec'[q] = rec[q] \/ (q = o /\ Started(q))
    BY <1>5, <1>6, <1>7 DEF Started
  <1>11. /\ j.at # "draft" /\ j.at \in {"draft", "cancel", "save", "outer"}
         /\ \A q \in Op : listed'[q].items = listed[q].items /\ listed'[q].by = listed[q].by
    BY <1>1, <1>9
  <1>12. /\ req' \in [Request -> Job] /\ req'[r] = j
         /\ \A q \in Request : q # r => req'[q] = req[q]
    BY <1>1, <1>3 DEF TypeOK
  <1>13. TakesUp(r, o)
    BY <1>1, <1>4, <1>7, <1>8, <1>9, <1>10, <1>11, <1>12 DEF TakesUp
  <1> QED BY <1>13, TakenUp

\* The manifest is written, and nobody has worked on its plan.
LEMMA WriteManifestStep ==
    ASSUME DeletionInvariant, NEW r \in Request, WriteManifest(r)
    PROVE  DeletionInvariant'
  <1> USE ConstantsAssumption
  <1>1. req[r].at = "draft" /\ UNCHANGED <<seg, gone, rec, outer, claim, spent>> /\ guard' = r
        /\ req' = [req EXCEPT ![r].at = "publish"]
    BY DEF WriteManifest, archive, Goes
  <1>2. /\ TypeOK /\ RequestOK(r) /\ ScopesExclusive /\ req[r] \in Job /\ r \in Owner
        /\ req \in [Request -> Job] /\ req[r].left \subseteq Seg
    BY <1>1, AtWork DEF Job
  <1> PICK o \in Plan : o = req[r].op
    BY <1>1, <1>2 DEF RequestOK
  <1> o \in Op /\ o \notin Exact
    BY DEF Op
  <1>3. listed[o].by = r /\ Untouched(o) /\ OperationOK(o) /\ req[r].done \subseteq gone[o]
    BY <1>1, <1>2 DEF RequestOK, DeletionInvariant, Drafted
  <1> DEFINE j == [req[r] EXCEPT !.at = "publish"]
  <1>4. j \in Job /\ j.at = "publish" /\ j.op = o /\ j.done = req[r].done
    <2>1. "publish" \in Place
      BY DEF Place
    <2>2. j \in Job
      BY <1>2, <2>1, JobChanged
    <2> QED BY <1>2, <2>2 DEF Job
  <1>5. req' = [req EXCEPT ![r] = j]
    BY <1>1
  <1> HIDE DEF j
  <1>6. /\ req' \in [Request -> Job] /\ req'[r] = j
        /\ \A q \in Request : q # r => req'[q] = req[q]
    BY <1>2, <1>4, <1>5
  <1>7. /\ listed' \in [Op -> Manifest] /\ \A p \in Op : p # o => listed'[p] = listed[p]
        /\ \A p \in Op : listed'[p].by = listed[p].by
    <2>1. listed' = [listed EXCEPT ![o].there = TRUE, ![o].items = req[r].left]
      BY DEF WriteManifest
    <2>2. listed \in [Op -> Manifest] /\ listed[o] \in Manifest
      BY <1>2 DEF TypeOK
    <2> DEFINE m == [listed[o] EXCEPT !.there = TRUE, !.items = req[r].left]
    <2>3. m \in Manifest /\ m.by = listed[o].by
      BY <1>2, <2>2 DEF Manifest
    <2>4. listed' = [listed EXCEPT ![o] = m]
      BY <2>1
    <2> HIDE DEF m
    <2> QED BY <2>2, <2>3, <2>4
  <1>8. TypeOK'
    BY <1>1, <1>2, <1>6, <1>7 DEF TypeOK
  <1>9. Grows
    BY <1>1 DEF Grows, Lost, Removed
  <1>10. ASSUME NEW q \in Request PROVE RequestOK(q)'
    <2>1. CASE q = r
      BY <1>1, <1>3, <1>4, <1>6, <1>7, <2>1 DEF RequestOK, Untouched
    <2>2. CASE q # r
      BY <1>1, <1>2, <1>6, <1>7, <1>9, <2>2, Frame
    <2> QED BY <2>1, <2>2
  <1>11. ASSUME NEW p \in Op PROVE OperationOK(p)'
    <2>1. CASE p # o
      BY <1>1, <1>7, <1>9, <2>1, OperationKept
    <2>2. CASE p = o
      BY <1>1, <1>3, <2>2 DEF OperationOK, Untouched, Terminal
    <2> QED BY <2>1, <2>2
  <1>12. ASSUME NEW p \in Plan, Drafted(p)' PROVE Untouched(p)'
    <2>1. p \in Op
      BY DEF Op
    <2>2. p # o
      <3>1. CASE listed'[p].by = Nobody
        BY <1>3, <1>7, <2>1, <3>1
      <3>2. CASE \E q \in Request : req'[q].at = "draft" /\ req'[q].op = p
        <4>1. PICK q \in Request : req'[q].at = "draft" /\ req'[q].op = p
          BY <3>2
        <4>2. q # r /\ req[q].at = "draft" /\ req[q].op = p
          BY <1>4, <1>6, <4>1
        <4>3. listed[p].by = q
          BY <4>2 DEF DeletionInvariant, RequestOK
        <4> QED BY <1>3, <4>2, <4>3
      <3> QED BY <1>12, <3>1, <3>2 DEF Drafted
    <2>3. Drafted(p)
      BY <1>4, <1>6, <1>7, <1>12, <2>1 DEF Drafted
    <2>4. Untouched(p)
      BY <2>3 DEF DeletionInvariant
    <2> QED BY <1>1, <1>4, <1>6, <2>2, <2>4 DEF Untouched
  <1>13. ScopesExclusive'
    BY <1>1, <1>2 DEF ScopesExclusive
  <1> QED BY <1>8, <1>10, <1>11, <1>12, <1>13 DEF DeletionInvariant

-----------------------------------------------------------------------------
(* The steps of no request.                                                *)

\* The record of one operation changes, or nothing but a manifest that goes away.
LEMMA RecordStep ==
    ASSUME DeletionInvariant, NEW o \in Op, NEW c \in Record, rec' = [rec EXCEPT ![o] = c],
           UNCHANGED <<seg, gone, outer, claim, guard, req, spent>>,
           listed' \in [Op -> Manifest],
           \A p \in Op : listed'[p].items = listed[p].items /\ listed'[p].by = listed[p].by,
           rec[o].state = "none" => c.state = "none",
           c.state = "completed" => rec[o].state = "completed",
           c.said.deleted \subseteq gone[o], c.state \in Terminal => ~c.live
    PROVE  DeletionInvariant'
  <1>1. TypeOK /\ ScopesExclusive
    BY DEF DeletionInvariant
  <1>2. /\ rec' \in [Op -> Record] /\ rec'[o] = c /\ \A p \in Op : p # o => rec'[p] = rec[p]
    BY <1>1 DEF TypeOK
  <1>3. TypeOK' /\ ScopesExclusive'
    BY <1>1, <1>2 DEF TypeOK, ScopesExclusive
  <1>4. Grows
    BY DEF Grows, Lost, Removed
  <1>5. ASSUME NEW p \in Op PROVE OperationOK(p)'
    <2>1. CASE p # o
      BY <1>2, <1>4, <2>1, OperationKept
    <2>2. CASE p = o
      <3>1. OperationOK(o) /\ listed[o].items \subseteq Seg
        BY <1>1 DEF DeletionInvariant, TypeOK, Manifest
      <3>2. \A s \in listed[o].items : Removed(s) => Removed(s)'
        BY <1>4, <3>1 DEF Grows
      <3> QED BY <1>2, <2>2, <3>1, <3>2 DEF OperationOK
    <2> QED BY <2>1, <2>2
  <1>6. \A p \in Plan : rec[p].state = "none" => rec'[p].state = "none"
    BY <1>2 DEF Op
  <1> QED BY <1>3, <1>4, <1>5, <1>6, OtherStep

\* A manifest goes away: what it listed is remembered.
LEMMA ManifestGone ==
    ASSUME DeletionInvariant, NEW o \in Op, listed' = [listed EXCEPT ![o].there = FALSE]
    PROVE  /\ listed' \in [Op -> Manifest]
           /\ \A p \in Op : listed'[p].items = listed[p].items /\ listed'[p].by = listed[p].by
  <1> QED BY DEF DeletionInvariant, TypeOK, Manifest

LEMMA ExpireStep ==
    ASSUME DeletionInvariant, NEW o \in Plan, Expire(o)
    PROVE  DeletionInvariant'
  <1> o \in Op
    BY DEF Op
  <1>1. rec[o].state = "ready" /\ rec[o] \in Record /\ rec[o].said.deleted \subseteq gone[o]
    BY Kept DEF Expire
  <1>2. [rec[o] EXCEPT !.old = TRUE] \in Record
    BY <1>1 DEF Record
  <1> PICK c \in Record : c = [rec[o] EXCEPT !.old = TRUE]
    BY <1>2
  <1>3. c.state = "ready" /\ c.said = rec[o].said
    BY <1>1 DEF Record
  <1>4. rec' = [rec EXCEPT ![o] = c]
    BY DEF Expire
  <1>5. UNCHANGED <<seg, gone, listed, outer, claim, guard, req, spent>>
    BY DEF Expire, archive
  <1>6. listed' \in [Op -> Manifest]
    BY <1>5 DEF DeletionInvariant, TypeOK
  <1> QED BY <1>1, <1>3, <1>4, <1>5, <1>6, RecordStep DEF Terminal

LEMMA RecordLapsesStep ==
    ASSUME DeletionInvariant, NEW o \in Op, RecordLapses(o)
    PROVE  DeletionInvariant'
  <1>1. rec[o] \in Record /\ rec[o].said.deleted \subseteq gone[o]
    BY Kept
  <1>2. [rec[o] EXCEPT !.live = FALSE] \in Record
    BY <1>1 DEF Record
  <1> PICK c \in Record : c = [rec[o] EXCEPT !.live = FALSE]
    BY <1>2
  <1>3. c.state = rec[o].state /\ c.said = rec[o].said /\ c.live = FALSE
    BY <1>1 DEF Record
  <1>4. rec' = [rec EXCEPT ![o] = c]
    BY DEF RecordLapses
  <1>5. UNCHANGED <<seg, gone, listed, outer, claim, guard, req, spent>>
    BY DEF RecordLapses, archive
  <1>6. listed' \in [Op -> Manifest]
    BY <1>5 DEF DeletionInvariant, TypeOK
  <1> QED BY <1>1, <1>3, <1>4, <1>5, <1>6, RecordStep

LEMMA CleanupStep ==
    ASSUME DeletionInvariant, NEW o \in Op, Cleanup(o)
    PROVE  DeletionInvariant'
  <1>1. NoRecord \in Record
    BY DEF Record, NoRecord, NoResult, Told, Owner
  <1> PICK c \in Record : c = NoRecord
    BY <1>1
  <1>2. c.state = "none" /\ c.said.deleted = {} /\ c.live = FALSE
    BY DEF NoRecord, NoResult
  <1>3. /\ rec' = [rec EXCEPT ![o] = c] /\ listed' = [listed EXCEPT ![o].there = FALSE]
        /\ UNCHANGED <<seg, gone, outer, claim, guard, req, spent>>
    BY DEF Cleanup, archive
  <1>4. c.state # "completed" /\ c.state \notin Terminal /\ c.said.deleted \subseteq gone[o]
    BY <1>2 DEF Terminal
  <1> QED BY <1>2, <1>3, <1>4, ManifestGone, RecordStep

LEMMA CleanManifestStep ==
    ASSUME DeletionInvariant, NEW o \in Plan, CleanManifest(o)
    PROVE  DeletionInvariant'
  <1> o \in Op
    BY DEF Op
  <1>1. /\ rec[o] \in Record /\ rec = [rec EXCEPT ![o] = rec[o]]
        /\ rec[o].said.deleted \subseteq gone[o] /\ (rec[o].state \in Terminal => ~rec[o].live)
    BY Kept
  <1> PICK c \in Record : c = rec[o]
    BY <1>1
  <1>2. /\ rec' = [rec EXCEPT ![o] = c] /\ listed' = [listed EXCEPT ![o].there = FALSE]
        /\ UNCHANGED <<seg, gone, outer, claim, guard, req, spent>>
    BY <1>1 DEF CleanManifest, archive
  <1> QED BY <1>1, <1>2, ManifestGone, RecordStep

LEMMA OuterLapsesStep ==
    ASSUME DeletionInvariant, NEW o \in Op, OuterLapses(o)
    PROVE  DeletionInvariant'
  <1>1. TypeOK /\ ScopesExclusive /\ outer[o] \in Row
    BY DEF DeletionInvariant, TypeOK
  <1> PICK w \in Row : w = [outer[o] EXCEPT !.live = FALSE]
    BY <1>1, RowChanged DEF Row
  <1>2. /\ outer' = [outer EXCEPT ![o] = w]
        /\ UNCHANGED <<seg, gone, listed, rec, claim, guard, req, spent>>
    BY DEF OuterLapses, archive, store
  <1>3. w.state = outer[o].state /\ w.said = outer[o].said
    BY <1>1 DEF Row
  <1>4. outer' \in [Op -> Row] /\ outer'[o] = w /\ \A p \in Op : p # o => outer'[p] = outer[p]
    BY <1>1, <1>2 DEF TypeOK
  <1>5. TypeOK' /\ ScopesExclusive'
    BY <1>1, <1>2, <1>4 DEF TypeOK, ScopesExclusive
  <1>6. Grows
    BY <1>2 DEF Grows, Lost, Removed
  <1>7. ASSUME NEW p \in Op PROVE OperationOK(p)'
    <2>1. CASE p # o
      BY <1>2, <1>4, <1>6, <2>1, OperationKept
    <2>2. CASE p = o
      <3>1. OperationOK(o) /\ listed[o].items \subseteq Seg
        BY <1>1 DEF DeletionInvariant, TypeOK, Manifest
      <3>2. \A s \in listed[o].items : Removed(s) => Removed(s)'
        BY <1>6, <3>1 DEF Grows
      <3> QED BY <1>2, <1>3, <1>4, <2>2, <3>1, <3>2 DEF OperationOK
    <2> QED BY <2>1, <2>2
  <1>8. \A p \in Plan : outer[p].state = "none" => outer'[p].state = "none"
    BY <1>3, <1>4 DEF Op
  <1> QED BY <1>2, <1>5, <1>6, <1>7, <1>8, OtherStep

LEMMA ScopeLapsesStep ==
    ASSUME DeletionInvariant, NEW o \in Op, ScopeLapses(o)
    PROVE  DeletionInvariant'
  <1>1. TypeOK /\ ScopesExclusive
    BY DEF DeletionInvariant
  <1>2. /\ claim' = [claim EXCEPT ![o].live = FALSE]
        /\ UNCHANGED <<seg, gone, listed, rec, outer, guard, req, spent>>
    BY DEF ScopeLapses, archive, store
  <1>3. /\ claim' \in [Op -> [owner : Owner, live : BOOLEAN]]
        /\ \A p \in Op : claim'[p].live => claim[p].live
    BY <1>1, <1>2 DEF TypeOK
  <1>4. TypeOK'
    BY <1>1, <1>2, <1>3 DEF TypeOK
  <1>5. ScopesExclusive'
    BY <1>1, <1>2, <1>3 DEF ScopesExclusive, Overlap, Scope
  <1>6. Grows
    BY <1>2 DEF Grows, Lost, Removed
  <1>7. \A p \in Op : OperationOK(p)'
    BY <1>2, <1>6, OperationKept
  <1> QED BY <1>2, <1>4, <1>5, <1>6, <1>7, OtherStep

\* A step that changes one recording: its file goes, or it is new.
LEMMA RecordingStep ==
    ASSUME DeletionInvariant, NEW s \in Seg, NEW n \in Catalogued, seg' = [seg EXCEPT ![s] = n],
           UNCHANGED <<listed, rec, outer, claim, guard, req, gone>>, spent' \in 0 .. MaxEvents,
           Lost(s) => n.row # "none" /\ ~n.file,
           Removed(s) => n = [file |-> FALSE, row |-> "deleted"],
           n.row = "deleted" => ~n.file
    PROVE  DeletionInvariant'
  <1>1. TypeOK /\ ScopesExclusive
    BY DEF DeletionInvariant
  <1>2. /\ seg' \in [Seg -> Catalogued] /\ seg'[s] = n
        /\ \A t \in Seg : t # s => seg'[t] = seg[t]
    BY <1>1 DEF TypeOK
  <1>3. TypeOK'
    BY <1>1, <1>2 DEF TypeOK
  <1>4. ScopesExclusive'
    BY <1>1, <1>2 DEF ScopesExclusive, Overlap, Scope
  <1>5. Grows
    BY <1>2 DEF Grows, Lost, Removed
  <1>6. \A p \in Op : OperationOK(p)'
    BY <1>5, OperationKept
  <1> QED BY <1>3, <1>4, <1>5, <1>6, OtherStep

LEMMA ElsewhereStep ==
    ASSUME DeletionInvariant, NEW s \in Seg, Elsewhere(s)
    PROVE  DeletionInvariant'
  <1>1. /\ seg \in [Seg -> Catalogued] /\ seg[s] \in Catalogued /\ spent \in 0 .. MaxEvents
        /\ seg[s].row = "deleted" => ~seg[s].file
    BY DEF DeletionInvariant, TypeOK, ScopesExclusive
  <1>2. /\ UNCHANGED <<listed, rec, outer, claim, guard, req, gone>> /\ spent' \in 0 .. MaxEvents
        /\ seg[s].row = "finalized"
    BY <1>1, ConstantsAssumption DEF Elsewhere, Event, store
  <1>3. CASE seg' = [seg EXCEPT ![s] = [file |-> FALSE, row |-> "deleted"]]
    <2> PICK n \in Catalogued : n = [file |-> FALSE, row |-> "deleted"]
      BY DEF Catalogued
    <2> QED BY <1>2, <1>3, RecordingStep
  <1>4. CASE seg' = [seg EXCEPT ![s].file = FALSE]
    <2>1. [seg[s] EXCEPT !.file = FALSE] \in Catalogued
      BY <1>1 DEF Catalogued
    <2> PICK n \in Catalogued : n = [seg[s] EXCEPT !.file = FALSE]
      BY <2>1
    <2>2. n.row = "finalized" /\ n.file = FALSE
      BY <1>1, <1>2 DEF Catalogued
    <2>3. seg' = [seg EXCEPT ![s] = n]
      BY <1>4
    <2>4. ~Removed(s)
      BY <1>2 DEF Removed
    <2> QED BY <1>2, <2>2, <2>3, <2>4, RecordingStep
  <1> QED BY <1>3, <1>4 DEF Elsewhere

LEMMA RecordedStep ==
    ASSUME DeletionInvariant, NEW s \in Seg, Recorded(s)
    PROVE  DeletionInvariant'
  <1>1. /\ UNCHANGED <<listed, rec, outer, claim, guard, req, gone, spent>>
        /\ seg[s].row = "none" /\ seg' = [seg EXCEPT ![s] = [file |-> TRUE, row |-> "finalized"]]
    BY DEF Recorded, store
  <1>2. spent' \in 0 .. MaxEvents /\ ~Lost(s) /\ ~Removed(s)
    BY <1>1 DEF DeletionInvariant, TypeOK, Lost, Removed
  <1> PICK n \in Catalogued : n = [file |-> TRUE, row |-> "finalized"]
    BY DEF Catalogued
  <1> QED BY <1>1, <1>2, RecordingStep

\* Requests are held up, or are gone.
LEMMA AsideStep ==
    ASSUME DeletionInvariant, UNCHANGED <<seg, gone, listed, rec, outer, claim>>,
           req' \in [Request -> Job], guard' \in Owner, spent' \in 0 .. MaxEvents,
           \A q \in Request :
               /\ req'[q].op = req[q].op /\ req'[q].left = req[q].left
               /\ req'[q].done = req[q].done
               /\ req'[q].skip = req[q].skip /\ req'[q].fail = req[q].fail
               /\ req'[q].at = req[q].at \/ (req'[q].at = "gone" /\ req[q].at # "idle")
    PROVE  DeletionInvariant'
  <1>1. TypeOK /\ ScopesExclusive
    BY DEF DeletionInvariant
  <1>2. TypeOK' /\ ScopesExclusive'
    BY <1>1 DEF TypeOK, ScopesExclusive
  <1>3. ASSUME NEW q \in Request PROVE RequestOK(q)'
    <2>1. RequestOK(q)
      BY DEF DeletionInvariant
    <2>2. CASE req'[q].at = "gone" /\ req[q].at # "idle"
      BY <2>1, <2>2 DEF RequestOK
    <2>3. CASE req'[q].at = req[q].at
      <3>1. First(q)' = First(q)
        BY DEF First
      <3>2. Sound(q)' = Sound(q) /\ \A s : Removed(s)' = Removed(s)
        BY DEF Sound, Removed
      <3>3. req[q].at = "mark" => Lost(First(q))'
        BY <2>1, <3>1 DEF RequestOK, Lost
      <3> HIDE DEF First
      <3> QED BY <2>1, <2>3, <3>1, <3>2, <3>3 DEF RequestOK
    <2> QED BY <2>2, <2>3
  <1>4. Grows
    BY DEF Grows, Lost, Removed
  <1>5. \A o \in Op : OperationOK(o)'
    BY <1>4, OperationKept
  <1>6. ASSUME NEW p \in Plan, Drafted(p)' PROVE Untouched(p)'
    <2>1. Drafted(p)
      BY <1>6 DEF Drafted
    <2>2. Untouched(p)
      BY <2>1 DEF DeletionInvariant
    <2> QED BY <2>2 DEF Untouched
  <1> QED BY <1>2, <1>3, <1>5, <1>6 DEF DeletionInvariant

LEMMA DelayStep ==
    ASSUME DeletionInvariant, NEW r \in Request, Delay(r)
    PROVE  DeletionInvariant'
  <1>1. /\ req' = [req EXCEPT ![r].slow = TRUE]
        /\ UNCHANGED <<seg, gone, listed, rec, outer, claim, guard>>
        /\ spent \in 0 .. MaxEvents /\ spent' = spent + 1 /\ spent < MaxEvents
    BY DEF Delay, Event, archive, store, DeletionInvariant, TypeOK
  <1>2. req[r] \in Job /\ req \in [Request -> Job] /\ guard' \in Owner
    BY <1>1 DEF DeletionInvariant, TypeOK
  <1> DEFINE j == [req[r] EXCEPT !.slow = TRUE]
  <1>3. /\ j \in Job /\ j.at = req[r].at /\ j.op = req[r].op /\ j.left = req[r].left
        /\ j.done = req[r].done /\ j.skip = req[r].skip /\ j.fail = req[r].fail
    BY <1>2 DEF Job
  <1>4. req' = [req EXCEPT ![r] = j]
    BY <1>1
  <1> HIDE DEF j
  <1>5. /\ req' \in [Request -> Job] /\ req'[r] = j
        /\ \A q \in Request : q # r => req'[q] = req[q]
    BY <1>2, <1>3, <1>4
  <1>6. spent' \in 0 .. MaxEvents
    BY <1>1, ConstantsAssumption
  <1> QED BY <1>1, <1>2, <1>3, <1>5, <1>6, AsideStep

LEMMA CrashStep ==
    ASSUME DeletionInvariant, Crash
    PROVE  DeletionInvariant'
  <1>1. /\ req' = [r \in Request |-> IF req[r].at = "idle" THEN req[r]
                                     ELSE [req[r] EXCEPT !.at = "gone"]]
        /\ UNCHANGED <<seg, gone, listed, rec, outer, claim>> /\ guard' = Nobody
        /\ spent \in 0 .. MaxEvents /\ spent' = spent + 1 /\ spent < MaxEvents
    BY DEF Crash, Event, archive, store, DeletionInvariant, TypeOK
  <1>2. req \in [Request -> Job] /\ guard' \in Owner
    BY <1>1 DEF DeletionInvariant, TypeOK, Owner
  <1>3. "gone" \in Place
    BY DEF Place
  <1>4. ASSUME NEW q \in Request
        PROVE  /\ req'[q] \in Job
               /\ req'[q].op = req[q].op /\ req'[q].left = req[q].left
               /\ req'[q].done = req[q].done
               /\ req'[q].skip = req[q].skip /\ req'[q].fail = req[q].fail
               /\ req'[q].at = req[q].at \/ (req'[q].at = "gone" /\ req[q].at # "idle")
    <2>1. req[q] \in Job
      BY <1>2
    <2>2. CASE req[q].at = "idle"
      BY <1>1, <2>1, <2>2
    <2>3. CASE req[q].at # "idle"
      BY <1>1, <1>3, <2>1, <2>3 DEF Job
    <2> QED BY <2>2, <2>3
  <1>5. req' \in [Request -> Job]
    BY <1>1, <1>4
  <1>6. spent' \in 0 .. MaxEvents
    BY <1>1, ConstantsAssumption
  <1> QED BY <1>1, <1>2, <1>4, <1>5, <1>6, AsideStep

-----------------------------------------------------------------------------
(* The theorems.                                                           *)

LEMMA InvariantStart == Init => DeletionInvariant
  <1> SUFFICES ASSUME Init PROVE DeletionInvariant
    OBVIOUS
  <1> USE ConstantsAssumption DEF Init
  <1>1. PICK last \in Seg : seg = [s \in Seg |-> IF s <= last
                                     THEN [file |-> TRUE, row |-> "finalized"]
                                     ELSE [file |-> FALSE, row |-> "none"]]
    OBVIOUS
  <1>2. seg \in [Seg -> Catalogued] /\ \A s \in Seg : seg[s].row # "deleted"
    BY <1>1 DEF Catalogued
  <1>3. NoRecord \in Record /\ NoRow \in Row /\ NoClaim \in [owner : Owner, live : BOOLEAN]
    BY DEF NoRecord, NoRow, NoClaim, NoResult, Record, Row, Told, Owner
  <1>4. Fresh \in Job
    BY DEF Fresh, Job, Place
  <1>5. listed \in [Op -> Manifest] /\ \A o \in Exact : listed[o].items = Target[o]
    <2>1. NoManifest \in Manifest
          /\ \A T \in SUBSET Seg : /\ [NoManifest EXCEPT !.items = T] \in Manifest
                                   /\ [NoManifest EXCEPT !.items = T].items = T
      BY DEF NoManifest, Manifest, Owner
    <2>2. \A o \in Op : o \notin Plan => Target[o] \in SUBSET Seg
      BY DEF Op
    <2> QED BY <2>1, <2>2 DEF Op
  <1>6. TypeOK
    <2>1. rec \in [Op -> Record] /\ outer \in [Op -> Row]
      BY <1>3
    <2>2. claim \in [Op -> [owner : Owner, live : BOOLEAN]]
      BY <1>3
    <2>3. req \in [Request -> Job] /\ gone \in [Op -> SUBSET Seg]
      BY <1>4
    <2>4. guard \in Owner /\ spent \in 0 .. MaxEvents
      BY DEF Owner
    <2> QED BY <1>2, <1>5, <2>1, <2>2, <2>3, <2>4 DEF TypeOK
  <1>7. \A r \in Request : req[r].at = "idle" /\ req[r].done = {} /\ req[r].op = Nobody
    BY DEF Fresh
  <1>8. \A r \in Request : RequestOK(r)
    BY <1>7 DEF RequestOK
  <1>9. \A o \in Op : /\ rec[o].state = "none" /\ rec[o].said.deleted = {}
                      /\ outer[o].state = "none" /\ outer[o].said.deleted = {}
                      /\ gone[o] = {} /\ claim[o].live = FALSE
    BY DEF NoRecord, NoRow, NoResult, NoClaim
  <1>10. \A o \in Op : OperationOK(o)
    BY <1>5, <1>9 DEF OperationOK, Terminal
  <1>11. \A p \in Plan : Untouched(p)
    <2>1. ASSUME NEW p \in Plan, NEW r \in Request PROVE req[r].op # p
      BY <1>7, <2>1
    <2> QED BY <1>9, <2>1 DEF Untouched, Op
  <1>12. ScopesExclusive
    BY <1>2, <1>9 DEF ScopesExclusive
  <1> QED BY <1>6, <1>8, <1>10, <1>11, <1>12 DEF DeletionInvariant

LEMMA Stutters == ASSUME DeletionInvariant, UNCHANGED vars PROVE DeletionInvariant'
  <1>1. UNCHANGED <<seg, gone, listed, rec, outer, claim, req, guard, spent>>
    BY DEF vars
  <1> QED BY <1>1, AsideStep DEF DeletionInvariant, TypeOK

LEMMA RequestKeeps ==
    ASSUME DeletionInvariant, NEW r \in Request, Step(r)
    PROVE  DeletionInvariant'
  <1>1. ASSUME WriteManifest(r) \/ Publish(r) \/ CancelRecord(r) PROVE DeletionInvariant'
    BY <1>1, WriteManifestStep, PublishStep, CancelRecordStep
  <1>2. ASSUME NotFound(r) \/ ClaimOuter(r) \/ OuterRefused(r) \/ OuterReplays(r)
        PROVE  DeletionInvariant'
    BY <1>2, NotFoundStep, ClaimOuterStep, OuterRefusedStep, OuterReplaysStep
  <1>3. ASSUME TakeScope(r) \/ ScopeRefused(r) \/ Verify(r) \/ SecondPass(r) \/ Touch(r)
        PROVE  DeletionInvariant'
    BY <1>3, TakeScopeStep, ScopeRefusedStep, VerifyStep, SecondPassStep, TouchStep
  <1>4. ASSUME Delete(r) \/ Mark(r) \/ Release(r) \/ Save(r) \/ End(r) PROVE DeletionInvariant'
    BY <1>4, DeleteStep, MarkStep, ReleaseStep, SaveStep, EndStep
  <1> QED BY <1>1, <1>2, <1>3, <1>4 DEF Step

LEMMA InvariantKept ==
    ASSUME DeletionInvariant, [Next]_vars
    PROVE  DeletionInvariant'
  <1>1. CASE \E r \in Request :
                 \/ Step(r) \/ Delay(r)
                 \/ \E p \in Plan : Draft(r, p) \/ CancelManifest(r, p)
                 \/ \E o \in Op : Claim(r, o)
    <2> PICK r \in Request :
            \/ Step(r) \/ Delay(r)
            \/ \E p \in Plan : Draft(r, p) \/ CancelManifest(r, p)
            \/ \E o \in Op : Claim(r, o)
      BY <1>1
    <2>1. CASE Step(r) \/ Delay(r)
      BY <2>1, RequestKeeps, DelayStep
    <2>2. CASE \E p \in Plan : Draft(r, p) \/ CancelManifest(r, p)
      BY <2>2, DraftStep, CancelManifestStep
    <2>3. CASE \E o \in Op : Claim(r, o)
      BY <2>3, ClaimStep
    <2> QED BY <2>1, <2>2, <2>3
  <1>2. CASE \E p \in Plan : Expire(p) \/ CleanManifest(p)
    BY <1>2, ExpireStep, CleanManifestStep
  <1>3. CASE \E o \in Op : Cleanup(o) \/ OuterLapses(o) \/ RecordLapses(o) \/ ScopeLapses(o)
    BY <1>3, CleanupStep, OuterLapsesStep, RecordLapsesStep, ScopeLapsesStep
  <1>4. CASE \E s \in Seg : Elsewhere(s) \/ Recorded(s)
    BY <1>4, ElsewhereStep, RecordedStep
  <1>5. CASE Crash \/ UNCHANGED vars
    BY <1>5, CrashStep, Stutters
  <1> QED BY <1>1, <1>2, <1>3, <1>4, <1>5 DEF Next

\* Every variable keeps its type in every behaviour.
THEOREM TypeCorrect == Spec => []TypeOK
  <1>1. Init => DeletionInvariant
    BY InvariantStart
  <1>2. DeletionInvariant /\ [Next]_vars => DeletionInvariant'
    BY InvariantKept
  <1>3. DeletionInvariant => TypeOK
    BY DEF DeletionInvariant
  <1> QED BY <1>1, <1>2, <1>3, PTL DEF Spec

\* However requests for the same and for overlapping recordings interleave, crash, are
\* held up and take one another over: an operation that its record or its row calls
\* completed has left nothing of what was asked for, what a result counts was removed for
\* that operation, nothing else was removed, and overlapping scopes are never held
\* together (deletion_plan.py, storage_operations.py).
THEOREM Truthful == Spec => []DeletionTruthful
  <1>1. Init => DeletionInvariant
    BY InvariantStart
  <1>2. DeletionInvariant /\ [Next]_vars => DeletionInvariant'
    BY InvariantKept
  <1>3. DeletionInvariant => DeletionTruthful
    BY DEF DeletionInvariant, DeletionTruthful, ResultsTruthful, OperationOK
  <1> QED BY <1>1, <1>2, <1>3, PTL DEF Spec

-----------------------------------------------------------------------------
(* A result that was told.                                                 *)

\* The record of an ended operation is nobody's, so the guard of each removal refuses.
LEMMA EndedIsNobodys ==
    ASSUME DeletionInvariant, NEW r \in Request, req[r].op \in Op,
           rec[req[r].op].state \in Terminal
    PROVE  ~OwnsRecord(r) /\ ~Guarded(r)
  <1> QED BY DEF OwnsRecord, Guarded, Terminal

LEMMA RequestEndsNothing ==
    ASSUME DeletionInvariant, NEW r \in Request, Step(r), NEW o \in Op, rec[o].state \in Terminal
    PROVE  gone'[o] = gone[o] /\ (rec'[o] = rec[o] \/ rec'[o].state = "none")
  <1>1. CASE UNCHANGED <<gone, rec>>
    BY <1>1
  <1>2. ASSUME req[r].at # "idle"
        PROVE  /\ req[r].op \in Op /\ rec \in [Op -> Record] /\ gone \in [Op -> SUBSET Seg]
               /\ req[r].op = o => ~OwnsRecord(r) /\ ~Guarded(r)
    BY <1>2, AtWork, EndedIsNobodys DEF TypeOK
  <1>3. CASE Publish(r)
    <2>1. req[r].at = "publish"
      BY <1>3 DEF Publish
    <2>2. rec[req[r].op].state = "none"
      BY <2>1 DEF DeletionInvariant, RequestOK
    <2> QED BY <1>2, <1>3, <2>1, <2>2 DEF Publish, archive, Terminal
  <1>4. CASE CancelRecord(r)
    BY <1>2, <1>4 DEF CancelRecord, archive, NoRecord
  <1>5. CASE OuterReplays(r)
    BY <1>2, <1>5 DEF OuterReplays, archive
  <1>6. CASE Save(r)
    BY <1>2, <1>6 DEF Save, archive
  <1>7. CASE Delete(r)
    BY <1>2, <1>7 DEF Delete, store
  <1>8. CASE \/ WriteManifest(r) \/ NotFound(r) \/ ClaimOuter(r) \/ OuterRefused(r)
             \/ TakeScope(r) \/ ScopeRefused(r) \/ Verify(r) \/ SecondPass(r) \/ Touch(r)
             \/ Mark(r) \/ Release(r) \/ End(r)
    <2>1. UNCHANGED <<gone, rec>>
      BY <1>8 DEF WriteManifest, NotFound, ClaimOuter, OuterRefused, TakeScope, ScopeRefused,
                  Verify, SecondPass, Touch, Mark, Release, End, archive, store
    <2> QED BY <2>1
  <1> QED BY <1>3, <1>4, <1>5, <1>6, <1>7, <1>8 DEF Step

LEMMA StepEndsNothing ==
    ASSUME DeletionInvariant, [Next]_vars
    PROVE  ResultFinal
  <1> SUFFICES ASSUME NEW o \in Op, rec[o].state \in Terminal
               PROVE  gone'[o] = gone[o] /\ (rec'[o] = rec[o] \/ rec'[o].state = "none")
    BY DEF ResultFinal
  <1> TypeOK /\ rec[o].state \notin {"none", "ready", "running"} /\ ~rec[o].live
    BY DEF DeletionInvariant, OperationOK, Terminal
  <1>1. CASE \E r \in Request : Step(r)
    BY <1>1, RequestEndsNothing
  <1>2. CASE \E r \in Request : \E p \in Op : Claim(r, p)
    BY <1>2 DEF Claim, Claimable, archive, TypeOK
  <1>3. CASE \E p \in Plan : Expire(p)
    BY <1>3 DEF Expire, archive, TypeOK, Op
  <1>4. CASE \E p \in Op : Cleanup(p)
    BY <1>4 DEF Cleanup, archive, TypeOK, NoRecord
  <1>5. CASE \E p \in Op : RecordLapses(p)
    BY <1>5 DEF RecordLapses, archive, TypeOK
  <1>6. CASE UNCHANGED <<gone, rec>>
    BY <1>6
  <1>7. ASSUME \/ \E r \in Request : Delay(r) \/ \E p \in Plan : Draft(r, p) \/ CancelManifest(r, p)
               \/ \E p \in Plan : CleanManifest(p)
               \/ \E p \in Op : OuterLapses(p) \/ ScopeLapses(p)
               \/ \E s \in Seg : Elsewhere(s) \/ Recorded(s)
               \/ Crash \/ UNCHANGED vars
        PROVE  UNCHANGED <<gone, rec>>
    BY <1>7 DEF Delay, Draft, CancelManifest, CleanManifest, OuterLapses, ScopeLapses,
                Elsewhere, Recorded, Crash, vars, archive, store
  <1> QED BY <1>1, <1>2, <1>3, <1>4, <1>5, <1>6, <1>7 DEF Next

\* Once an operation has told its result, no request removes anything more in its name,
\* although one that worked on it may still be at its batch; and the result stays until
\* the record is thrown away.
THEOREM Final == Spec => DeletionFinal
  <1>1. Init => DeletionInvariant
    BY InvariantStart
  <1>2. DeletionInvariant /\ [Next]_vars => DeletionInvariant'
    BY InvariantKept
  <1>3. DeletionInvariant /\ [Next]_vars => [ResultFinal]_vars
    BY StepEndsNothing
  <1> QED BY <1>1, <1>2, <1>3, PTL DEF Spec, DeletionFinal

-----------------------------------------------------------------------------
(***************************************************************************)
(* The exports of recordings (ArchiveExports, with the constants and variables *)
(* that MCServices gives it): what a row says of its clip and manifest is true *)
(* (EvidenceTruthful), and no finished clip is taken (EvidenceKept).       *)
(*                                                                         *)
(* A row is true because one request at a time makes an export (ExportLeaseOK) *)
(* and, until it has, nothing was ever made of it (ExportFresh): neither a late *)
(* description nor a cleanup that read an older row finds anything to spoil *)
(* (ExportCleanOK).                                                        *)
(***************************************************************************)
\* A request that writes the description of an export.
ExportDescribing == {"describing", "described"}

\* Nothing was ever made of this export.
ExportFresh(e) ==
    /\ ~job[e].out /\ ~job[e].man /\ manifest[e] = Exports!Absent
    /\ \A r \in Asker : asks[r].pc \in ExportDescribing => asks[r].e # e
    /\ \A c \in Cleaner : ~clean[c].row[e].out /\ ~clean[c].row[e].man

\* One generation of an export at a time, and none of one that was finished.
ExportLeaseOK ==
    /\ \A r, q \in Asker :
           asks[r].pc \in Exports!Generating /\ asks[q].pc \in Exports!Generating /\
               asks[r].e = asks[q].e => r = q
    /\ \A r \in Asker : asks[r].pc \in Exports!Generating =>
           job[asks[r].e].status \in {"queued", "running", "expired"} /\ ExportFresh(asks[r].e)
    /\ \A r \in Asker : asks[r].pc = "counted" => job[asks[r].e].status = "none"
    /\ \A r, q \in Asker :
           asks[r].pc = "counted" /\ asks[q].pc = "counted" /\ asks[r].e = asks[q].e => r = q

\* What the row of an export says of its files.
ExportRowOK ==
    /\ \A e \in Export : job[e].status \notin {"done", "expired"} => ExportFresh(e)
    /\ \A e \in Export : job[e].status = "done" =>
           clip[e] \in {job[e].sum, Exports!Absent} /\ manifest[e] \in {job[e].sum, Exports!Absent}
    /\ \A e \in due : job[e].status # "none"

\* A description states the checksum of the row.
ExportDescriptionOK ==
    \A r \in Asker : asks[r].pc \in ExportDescribing /\ job[asks[r].e].status = "done" =>
        asks[r].sum = job[asks[r].e].sum

\* The source versions of an attempt, and the clip it has written.
ExportAttemptOf(r) ==
        /\ asks[r].pc \in {"running", "trimmed", "written", "checked"} =>
               /\ asks[r].sum \in Exports!Content /\ asks[r].from # 0
               /\ source # 0 => asks[r].from <= source
        /\ asks[r].pc = "trimmed" =>
               \E x \in asks[r].from .. (MaxVersions + 1) :
                   asks[r].of = {x} /\ (source # 0 => x <= source)
        /\ asks[r].pc = "written" =>
               /\ asks[r].sum.of # {}
               /\ \A x \in asks[r].sum.of : asks[r].from <= x /\ (source # 0 => x <= source)
        /\ asks[r].pc = "checked" => asks[r].sum.of = {asks[r].from}
        /\ asks[r].pc \in {"written", "checked"} => clip[asks[r].e] = asks[r].sum

\* What a cleanup has read and not yet committed.
ExportCleanOK ==
    \A c \in Cleaner, e \in Export :
        LET did == clean[c]
            read == did.row[e]
        IN  /\ (read.out \/ read.man) /\ read.status = "expired" => job[e].status = "expired"
            /\ e \in did.cleared => read.out /\ (e \in did.expired \/ read.status = "expired")
            /\ e \in did.undescribed => read.man /\ (e \in did.expired \/ read.status = "expired")
            /\ e \in did.todo \cup did.expired => read.status = "expired" \/ e \in due
            /\ e \in did.expired => read.status # "expired"

ExportAttemptOK == \A r \in Asker : ExportAttemptOf(r)

ExportInvariant ==
    /\ Exports!TypeOK /\ ExportLeaseOK /\ ExportRowOK /\ ExportDescriptionOK /\ ExportAttemptOK
    /\ ExportCleanOK /\ Exports!EvidenceUnmixed

-----------------------------------------------------------------------------
(* The types.                                                              *)

ExportPlaces == {"off", "counted", "leased", "running", "trimmed", "written", "checked",
           "failing", "describing", "described"}

LEMMA ExportOffTyped == Exports!ReqOff(Exports!AnyExport) \in Exports!Req /\
    \A e \in Export : Exports!ReqOff(e) \in Exports!Req
  <1>1. Exports!AnyExport \in Export
    BY ExportAssumption DEF Exports!AnyExport
  <1> QED BY <1>1, ExportAssumption DEF Exports!Req, Exports!ReqOff, Exports!Absent

\* Whatever a request may change of what it is doing.
LEMMA ExportReqTyped ==
    ASSUME NEW j \in Exports!Req, NEW pc \in ExportPlaces
    PROVE  /\ [j EXCEPT !.pc = pc] \in Exports!Req
           /\ \A of \in SUBSET (0 .. MaxVersions + 1) :
                  [j EXCEPT !.pc = pc, !.of = of] \in Exports!Req
           /\ \A sum \in Exports!Content \cup {Exports!Absent} :
                  [j EXCEPT !.pc = pc, !.sum = sum] \in Exports!Req
           /\ \A sum \in Exports!Content \cup {Exports!Absent}, from \in 0 .. MaxVersions + 1 :
                  [j EXCEPT !.pc = pc, !.from = from, !.sum = sum] \in Exports!Req
           /\ \A sum \in Exports!Content \cup {Exports!Absent}, b \in BOOLEAN :
                  [j EXCEPT !.pc = pc, !.sum = sum, !.known = b] \in Exports!Req
  <1> QED BY DEF Exports!Req, ExportPlaces

LEMMA ExportCleanTyped == Exports!CleanOff \in Exports!Clean
  <1> QED BY DEF Exports!Clean, Exports!CleanOff, Exports!NoRow, Exports!Row, Exports!Status

-----------------------------------------------------------------------------
(* The steps of a generation.                                              *)

LEMMA ExportAttempted ==
    ASSUME ExportInvariant, NEW r \in Asker, asks[r].pc \in Exports!Generating, Exports!TypeOK',
           \A q \in Asker : q # r => asks'[q] = asks[q],
           asks'[r].pc \in Exports!Generating \cup {"off"},
           asks'[r].pc # "off" => asks'[r].e = asks[r].e,
           \A e \in Export :
               \/ job'[e] = job[e]
               \/ /\ e = asks[r].e /\ job[e].status = "queued"
                  /\ job'[e] = [job[e] EXCEPT !.status = "running"],
           \A e \in Export : e # asks[r].e => clip'[e] = clip[e],
           UNCHANGED <<due, manifest, clean>>
    PROVE  ExportLeaseOK' /\ ExportRowOK' /\ ExportDescriptionOK' /\ ExportCleanOK' /\
               (Exports!EvidenceUnmixed => Exports!EvidenceUnmixed')
  <1> USE DEF ExportInvariant, Exports!Generating, ExportDescribing
  <1>1. asks[r].e \in Export /\ \A q \in Asker : asks[q].e \in Export
    BY DEF Exports!TypeOK, Exports!Req
  <1>2. \A e \in Export : /\ job'[e].out = job[e].out /\ job'[e].man = job[e].man
                          /\ job'[e].sum = job[e].sum
                          /\ job'[e].status = job[e].status \/
                               (e = asks[r].e /\ job[e].status = "queued" /\
                                   job'[e].status = "running")
    BY DEF Exports!TypeOK, Exports!Row
  <1>3. \A e \in Export : ExportFresh(e) => ExportFresh(e)'
    BY <1>1, <1>2 DEF ExportFresh
  <1>4. ExportLeaseOK'
    BY <1>1, <1>2, <1>3 DEF ExportLeaseOK
  <1>5. ExportRowOK'
    <2>1. job[asks[r].e].status \in {"queued", "running", "expired"}
      BY DEF ExportLeaseOK
    <2>2. \A e \in Export : job'[e].status \notin {"done", "expired"} => ExportFresh(e)'
      BY <1>2, <1>3, <2>1 DEF ExportRowOK
    <2>3. \A e \in Export : job'[e].status = "done" =>
              clip'[e] \in {job'[e].sum, Exports!Absent} /\
                  manifest'[e] \in {job'[e].sum, Exports!Absent}
      BY <1>2, <2>1 DEF ExportRowOK
    <2>4. \A e \in due' : job'[e].status # "none"
      BY <1>2 DEF ExportRowOK, Exports!TypeOK
    <2> QED BY <2>2, <2>3, <2>4 DEF ExportRowOK
  <1>6. ExportDescriptionOK'
    BY <1>1, <1>2 DEF ExportDescriptionOK
  <1>7. ExportCleanOK'
    BY <1>1, <1>2 DEF ExportCleanOK
  <1>8. Exports!EvidenceUnmixed'
    BY <1>2 DEF Exports!EvidenceUnmixed
  <1> QED BY <1>4, <1>5, <1>6, <1>7, <1>8

\* What another request has made of its attempt stands when nobody touches its clip.
LEMMA ExportOthersAttempts ==
    ASSUME ExportInvariant, NEW r \in Asker, asks[r].pc \in Exports!Generating,
           \A q \in Asker : q # r => asks'[q] = asks[q],
           \A e \in Export : e # asks[r].e => clip'[e] = clip[e],
           UNCHANGED source, NEW q \in Asker, q # r
    PROVE  ExportAttemptOf(q)'
  <1>1. ExportAttemptOf(q) /\ asks'[q] = asks[q] /\ asks[q].e \in Export
    BY DEF ExportInvariant, ExportAttemptOK, Exports!TypeOK, Exports!Req
  <1>2. asks[q].pc \in {"written", "checked"} => asks[q].e # asks[r].e
    BY DEF ExportInvariant, ExportLeaseOK, Exports!Generating
  <1> QED BY <1>1, <1>2 DEF ExportAttemptOf

LEMMA ExportCountKeeps ==
    ASSUME ExportInvariant, NEW r \in Asker, NEW e \in Export, Exports!Count(r, e)
    PROVE  ExportInvariant'
  <1> USE ExportAssumption
  <1> USE DEF ExportInvariant, Exports!Count, Exports!Go, Exports!End, Exports!Generating,
          ExportDescribing
  <1>1. Exports!TypeOK'
    <2>1. Exports!ReqOff(e) \in Exports!Req
      BY ExportOffTyped, ExportReqTyped
    <2>2. asks'[r] \in Exports!Req
      BY <2>1, ExportOffTyped, ExportReqTyped DEF ExportPlaces, Exports!TypeOK
    <2>3. asks' \in [Asker -> Exports!Req]
      BY <2>2 DEF Exports!TypeOK
    <2> QED BY <2>3 DEF Exports!TypeOK
  <1>2. ExportLeaseOK'
    BY DEF Exports!ReqOff, ExportLeaseOK, ExportFresh
  <1>3. ExportRowOK'
    BY DEF Exports!ReqOff, ExportLeaseOK, ExportRowOK, Exports!Req, ExportFresh
  <1>4. ExportDescriptionOK'
    BY DEF ExportDescriptionOK, ExportLeaseOK, Exports!Req
  <1>5. ExportAttemptOK'
    BY DEF ExportAttemptOK, ExportAttemptOf
  <1>6. ExportCleanOK'
    BY DEF ExportCleanOK, ExportLeaseOK
  <1>7. Exports!EvidenceUnmixed'
    BY DEF Exports!EvidenceUnmixed, ExportAttemptOK
  <1> QED BY <1>1, <1>2, <1>3, <1>4, <1>5, <1>6, <1>7

LEMMA ExportInsertKeeps ==
    ASSUME ExportInvariant, NEW r \in Asker, Exports!Insert(r)
    PROVE  ExportInvariant'
  <1> USE ExportAssumption
  <1> USE DEF ExportInvariant, Exports!Insert, Exports!Go, Exports!End, Exports!Generating,
          ExportDescribing
  <1>1. Exports!TypeOK'
    <2>1. asks' \in [Asker -> Exports!Req]
      BY ExportOffTyped, ExportReqTyped DEF Exports!TypeOK
    <2> QED BY <2>1 DEF Exports!TypeOK, Exports!Row, Exports!Status, Exports!Absent
  <1>2. ExportLeaseOK'
    BY DEF Exports!ReqOff, ExportLeaseOK, Exports!TypeOK, Exports!Req, ExportFresh
  <1>3. ExportRowOK'
    BY DEF Exports!ReqOff, ExportLeaseOK, ExportRowOK, Exports!Req, ExportFresh
  <1>4. ExportDescriptionOK'
    BY DEF Exports!ReqOff, ExportDescriptionOK, ExportLeaseOK, Exports!Req
  <1>5. ExportAttemptOK'
    BY DEF Exports!ReqOff, ExportAttemptOK, ExportAttemptOf
  <1>6. ExportCleanOK'
    BY DEF Exports!ReqOff, ExportCleanOK, ExportLeaseOK
  <1>7. Exports!EvidenceUnmixed'
    BY DEF Exports!EvidenceUnmixed, ExportAttemptOK, Exports!TypeOK
  <1> QED BY <1>1, <1>2, <1>3, <1>4, <1>5, <1>6, <1>7

LEMMA ExportLeaseKeeps ==
    ASSUME ExportInvariant, NEW r \in Asker, NEW e \in Export, Exports!Lease(r, e)
    PROVE  ExportInvariant'
  <1> USE ExportAssumption
  <1> USE DEF ExportInvariant, Exports!Lease, Exports!Go, Exports!End, Exports!Generating,
          ExportDescribing
  <1>1. Exports!TypeOK'
    <2>1. Exports!ReqOff(e) \in Exports!Req
      BY ExportOffTyped, ExportReqTyped
    <2>2. asks'[r] \in Exports!Req
      BY <2>1, ExportOffTyped, ExportReqTyped DEF ExportPlaces, Exports!TypeOK
    <2>3. asks' \in [Asker -> Exports!Req]
      BY <2>2 DEF Exports!TypeOK
    <2> QED BY <2>3 DEF Exports!TypeOK
  <1>2. ExportLeaseOK'
    BY DEF Exports!ReqOff, ExportLeaseOK, ExportFresh, ExportRowOK, Exports!LeaseFree
  <1>3. ExportRowOK'
    BY DEF Exports!ReqOff, ExportLeaseOK, ExportRowOK, Exports!Req, ExportFresh,
       ExportDescriptionOK
  <1>4. ExportDescriptionOK'
    BY DEF ExportDescriptionOK, ExportLeaseOK, Exports!Req
  <1>5. ExportAttemptOK'
    BY DEF ExportAttemptOK, ExportAttemptOf
  <1>6. ExportCleanOK'
    BY DEF ExportCleanOK, ExportLeaseOK
  <1>7. Exports!EvidenceUnmixed'
    BY DEF Exports!EvidenceUnmixed, ExportAttemptOK
  <1> QED BY <1>1, <1>2, <1>3, <1>4, <1>5, <1>6, <1>7

LEMMA ExportValidateKeeps ==
    ASSUME ExportInvariant, NEW r \in Asker, Exports!Validate(r)
    PROVE  ExportInvariant'
  <1> USE ExportAssumption DEF ExportInvariant, Exports!Validate, Exports!Go, Exports!End
  <1>1. asks[r] \in Exports!Req /\ asks[r].e \in Export /\
            asks[r].pc \in Exports!Generating /\ ExportAttemptOf(r)
    BY DEF Exports!TypeOK, Exports!Req, Exports!Generating, ExportAttemptOK
  <1>2. Exports!TypeOK'
    <2>1. CASE source = 0
      BY <1>1, <2>1, ExportOffTyped, ExportReqTyped DEF ExportPlaces, Exports!TypeOK
    <2>2. CASE source # 0
      <3> DEFINE sum == [by |-> used.attempts + 1, of |-> {}]
      <3>1. sum \in Exports!Content /\ used'.attempts \in 0 .. MaxAttempts
        BY <2>2 DEF Exports!TypeOK, Exports!Content
      <3>2. [asks[r] EXCEPT !.pc = "running", !.from = source, !.sum = sum] \in Exports!Req
        BY <1>1, <3>1, ExportOffTyped, ExportReqTyped DEF ExportPlaces, Exports!TypeOK
      <3>3. asks' \in [Asker -> Exports!Req]
        BY <2>2, <3>2 DEF Exports!TypeOK
      <3>4. job' \in [Export -> Exports!Row]
        BY <2>2, <1>1 DEF Exports!TypeOK, Exports!Row, Exports!Status
      <3>5. used' \in [attempts : 0 .. MaxAttempts, crashes : 0 .. MaxCrashes]
        BY <2>2, <3>1 DEF Exports!TypeOK
      <3> QED BY <3>3, <3>4, <3>5 DEF Exports!TypeOK
    <2> QED BY <2>1, <2>2
  <1>3. /\ \A q \in Asker : q # r => asks'[q] = asks[q]
        /\ \A e \in Export : e # asks[r].e => clip'[e] = clip[e]
    BY <1>1 DEF Exports!TypeOK
  <1>4. ExportLeaseOK' /\ ExportRowOK' /\ ExportDescriptionOK' /\ ExportCleanOK' /\
            Exports!EvidenceUnmixed'
    <2>1. /\ asks'[r].pc \in Exports!Generating \cup {"off"}
          /\ asks'[r].pc # "off" => asks'[r].e = asks[r].e
          /\ UNCHANGED <<due, manifest, clean>>
      BY <1>1 DEF Exports!TypeOK, Exports!Req, Exports!Generating
    <2>2. \A e \in Export :
              \/ job'[e] = job[e]
              \/ /\ e = asks[r].e /\ job[e].status = "queued"
                 /\ job'[e] = [job[e] EXCEPT !.status = "running"]
      <3> DEFINE x == asks[r].e
      <3>1. CASE UNCHANGED job
        BY <3>1
      <3>2. CASE job' = [job EXCEPT ![x].status = IF @ = "queued" THEN "running" ELSE @]
        <4>1. \A e \in Export : e # x => job'[e] = job[e]
          BY <3>2
        <4>2. CASE job[x].status = "queued"
          <5>1. job'[x] = [job[x] EXCEPT !.status = "running"]
            BY <1>1, <3>2, <4>2 DEF Exports!TypeOK
          <5> QED BY <4>1, <4>2, <5>1
        <4>3. CASE job[x].status # "queued"
          <5>1. job'[x] = [job[x] EXCEPT !.status = job[x].status] /\ job[x] \in Exports!Row
            BY <1>1, <3>2, <4>3 DEF Exports!TypeOK
          <5>2. job'[x] = job[x]
            BY <5>1 DEF Exports!Row
          <5> QED BY <4>1, <5>2
        <4> QED BY <4>2, <4>3
      <3> QED BY <3>1, <3>2
    <2> QED BY <1>1, <1>2, <1>3, <2>1, <2>2, ExportAttempted
  <1>5. ExportAttemptOf(r)'
    BY <1>1, <1>2 DEF ExportAttemptOf, Exports!TypeOK, Exports!Req, Exports!Content
  <1>6. \A q \in Asker : q # r => ExportAttemptOf(q)'
    BY <1>1, <1>3, ExportOthersAttempts DEF Exports!TypeOK
  <1>7. ExportAttemptOK'
    BY <1>5, <1>6 DEF ExportAttemptOK
  <1> QED BY <1>2, <1>4, <1>7

LEMMA ExportTrimKeeps ==
    ASSUME ExportInvariant, NEW r \in Asker, Exports!Trim(r)
    PROVE  ExportInvariant'
  <1> USE ExportAssumption DEF ExportInvariant, Exports!Trim, Exports!Go, Exports!End
  <1>1. asks[r] \in Exports!Req /\ asks[r].e \in Export /\
            asks[r].pc \in Exports!Generating /\ ExportAttemptOf(r)
    BY DEF Exports!TypeOK, Exports!Req, Exports!Generating, ExportAttemptOK
  <1>2. Exports!TypeOK'
    <2>1. CASE Exports!Go(r, "failing")
      BY <1>1, <2>1, ExportOffTyped, ExportReqTyped DEF ExportPlaces, Exports!TypeOK
    <2>2. CASE asks' = [asks EXCEPT ![r].pc = "trimmed", ![r].of = {source}]
      <3>1. {source} \in SUBSET (0 .. MaxVersions + 1)
        BY DEF Exports!TypeOK
      <3>2. [asks[r] EXCEPT !.pc = "trimmed", !.of = {source}] \in Exports!Req
        BY <1>1, <3>1, ExportOffTyped, ExportReqTyped DEF ExportPlaces
      <3> QED BY <2>2, <3>2 DEF Exports!TypeOK
    <2> QED BY <2>1, <2>2
  <1>3. /\ \A q \in Asker : q # r => asks'[q] = asks[q]
        /\ \A e \in Export : e # asks[r].e => clip'[e] = clip[e]
    BY <1>1 DEF Exports!TypeOK
  <1>4. ExportLeaseOK' /\ ExportRowOK' /\ ExportDescriptionOK' /\ ExportCleanOK' /\
            Exports!EvidenceUnmixed'
    <2>1. /\ asks'[r].pc \in Exports!Generating \cup {"off"}
          /\ asks'[r].pc # "off" => asks'[r].e = asks[r].e
          /\ UNCHANGED <<due, manifest, clean>>
      BY <1>1 DEF Exports!TypeOK, Exports!Req, Exports!Generating
    <2>2. \A e \in Export :
              \/ job'[e] = job[e]
              \/ /\ e = asks[r].e /\ job[e].status = "queued"
                 /\ job'[e] = [job[e] EXCEPT !.status = "running"]
      BY <1>1
    <2> QED BY <1>1, <1>2, <1>3, <2>1, <2>2, ExportAttempted
  <1>5. ExportAttemptOf(r)'
    BY <1>1, <1>2 DEF ExportAttemptOf, Exports!TypeOK, Exports!Req
  <1>6. \A q \in Asker : q # r => ExportAttemptOf(q)'
    BY <1>1, <1>3, ExportOthersAttempts DEF Exports!TypeOK
  <1>7. ExportAttemptOK'
    BY <1>5, <1>6 DEF ExportAttemptOK
  <1> QED BY <1>2, <1>4, <1>7

LEMMA ExportWriteKeeps ==
    ASSUME ExportInvariant, NEW r \in Asker, Exports!Write(r)
    PROVE  ExportInvariant'
  <1> USE ExportAssumption DEF ExportInvariant, Exports!Write, Exports!Go, Exports!End
  <1>1. asks[r] \in Exports!Req /\ asks[r].e \in Export /\
            asks[r].pc \in Exports!Generating /\ ExportAttemptOf(r)
    BY DEF Exports!TypeOK, Exports!Req, Exports!Generating, ExportAttemptOK
  <1>2. Exports!TypeOK'
    <2> DEFINE part == [asks[r].sum EXCEPT !.of = asks[r].of]
                whole == [asks[r].sum EXCEPT !.of = asks[r].of \cup {source}]
    <2>1. part \in Exports!Content /\ whole \in Exports!Content
      BY <1>1 DEF ExportAttemptOf, Exports!TypeOK, Exports!Req, Exports!Content
    <2>2. CASE Exports!Go(r, "failing") /\ clip' \in {clip, [clip EXCEPT ![asks[r].e] = part]}
      BY <1>1, <2>1, <2>2, ExportOffTyped, ExportReqTyped DEF ExportPlaces, Exports!TypeOK
    <2>3. CASE /\ asks' = [asks EXCEPT ![r].pc = "written", ![r].sum = whole]
               /\ clip' = [clip EXCEPT ![asks[r].e] = whole]
      <3>1. [asks[r] EXCEPT !.pc = "written", !.sum = whole] \in Exports!Req
        BY <1>1, <2>1, ExportOffTyped, ExportReqTyped DEF ExportPlaces
      <3> QED BY <1>1, <2>1, <2>3, <3>1 DEF Exports!TypeOK
    <2> QED BY <2>2, <2>3
  <1>3. /\ \A q \in Asker : q # r => asks'[q] = asks[q]
        /\ \A e \in Export : e # asks[r].e => clip'[e] = clip[e]
    BY <1>1 DEF Exports!TypeOK
  <1>4. ExportLeaseOK' /\ ExportRowOK' /\ ExportDescriptionOK' /\ ExportCleanOK' /\
            Exports!EvidenceUnmixed'
    <2>1. /\ asks'[r].pc \in Exports!Generating \cup {"off"}
          /\ asks'[r].pc # "off" => asks'[r].e = asks[r].e
          /\ UNCHANGED <<due, manifest, clean>>
      BY <1>1 DEF Exports!TypeOK, Exports!Req, Exports!Generating
    <2>2. \A e \in Export :
              \/ job'[e] = job[e]
              \/ /\ e = asks[r].e /\ job[e].status = "queued"
                 /\ job'[e] = [job[e] EXCEPT !.status = "running"]
      BY <1>1
    <2> QED BY <1>1, <1>2, <1>3, <2>1, <2>2, ExportAttempted
  <1>5. ExportAttemptOf(r)'
    <2> DEFINE whole == [asks[r].sum EXCEPT !.of = asks[r].of \cup {source}]
    <2>2. CASE Exports!Go(r, "failing")
      <3>1. asks'[r].pc = "failing"
        BY <2>2, <1>1 DEF Exports!TypeOK
      <3> QED BY <3>1 DEF ExportAttemptOf
    <2>3. CASE /\ asks' = [asks EXCEPT ![r].pc = "written", ![r].sum = whole]
               /\ clip' = [clip EXCEPT ![asks[r].e] = whole] /\ source # 0
      <3>1. /\ asks'[r] = [asks[r] EXCEPT !.pc = "written", !.sum = whole]
            /\ clip'[asks[r].e] = whole /\ source' = source
        BY <1>1, <2>3 DEF Exports!TypeOK
      <3> HIDE DEF whole
      <3>0. /\ asks'[r].pc = "written" /\ asks'[r].sum = whole /\ asks'[r].from = asks[r].from
            /\ asks'[r].e = asks[r].e
        BY <1>1, <3>1
      <3>2. /\ asks[r].sum \in Exports!Content /\ asks[r].from # 0 /\ asks[r].from <= source
            /\ \E x \in asks[r].from .. (MaxVersions + 1) : asks[r].of = {x} /\ x <= source
        BY <1>1, <2>3 DEF ExportAttemptOf
      <3>3. asks'[r].sum \in Exports!Content /\ asks'[r].sum.of = asks[r].of \cup {source}
        BY <1>1, <3>0, <3>2 DEF Exports!TypeOK, Exports!Req, whole
      <3>4. \A x \in asks'[r].sum.of : asks[r].from <= x /\ x <= source
        BY <1>1, <3>2, <3>3 DEF Exports!TypeOK, Exports!Req
      <3> QED BY <3>0, <3>1, <3>2, <3>3, <3>4 DEF ExportAttemptOf
    <2> QED BY <2>2, <2>3
  <1>6. \A q \in Asker : q # r => ExportAttemptOf(q)'
    BY <1>1, <1>3, ExportOthersAttempts DEF Exports!TypeOK
  <1>7. ExportAttemptOK'
    BY <1>5, <1>6 DEF ExportAttemptOK
  <1> QED BY <1>2, <1>4, <1>7

LEMMA ExportCheckKeeps ==
    ASSUME ExportInvariant, NEW r \in Asker, Exports!Check(r)
    PROVE  ExportInvariant'
  <1> USE ExportAssumption DEF ExportInvariant, Exports!Check, Exports!Go, Exports!End
  <1>1. asks[r] \in Exports!Req /\ asks[r].e \in Export /\
            asks[r].pc \in Exports!Generating /\ ExportAttemptOf(r)
    BY DEF Exports!TypeOK, Exports!Req, Exports!Generating, ExportAttemptOK
  <1>2. Exports!TypeOK'
    BY <1>1, ExportOffTyped, ExportReqTyped DEF ExportPlaces, Exports!TypeOK
  <1>3. /\ \A q \in Asker : q # r => asks'[q] = asks[q]
        /\ \A e \in Export : e # asks[r].e => clip'[e] = clip[e]
    BY <1>1 DEF Exports!TypeOK
  <1>4. ExportLeaseOK' /\ ExportRowOK' /\ ExportDescriptionOK' /\ ExportCleanOK' /\
            Exports!EvidenceUnmixed'
    <2>1. /\ asks'[r].pc \in Exports!Generating \cup {"off"}
          /\ asks'[r].pc # "off" => asks'[r].e = asks[r].e
          /\ UNCHANGED <<due, manifest, clean>>
      BY <1>1 DEF Exports!TypeOK, Exports!Req, Exports!ReqOff, Exports!Generating
    <2>2. \A e \in Export :
              \/ job'[e] = job[e]
              \/ /\ e = asks[r].e /\ job[e].status = "queued"
                 /\ job'[e] = [job[e] EXCEPT !.status = "running"]
      BY <1>1
    <2> QED BY <1>1, <1>2, <1>3, <2>1, <2>2, ExportAttempted
  <1>5. ExportAttemptOf(r)'
    <2>1. CASE source = asks[r].from /\ Exports!Go(r, "checked")
      <3>1. source = asks[r].from /\ asks'[r] = [asks[r] EXCEPT !.pc = "checked"]
        BY <1>1, <2>1 DEF Exports!TypeOK
      <3>2. /\ asks[r].sum \in Exports!Content /\ asks[r].sum.of # {} /\ source # 0
            /\ \A x \in asks[r].sum.of : asks[r].from <= x /\ x <= source
            /\ clip[asks[r].e] = asks[r].sum
        BY <1>1, <3>1 DEF ExportAttemptOf
      <3>3. \A x \in asks[r].sum.of : x = asks[r].from
        BY <1>1, <3>1, <3>2 DEF Exports!TypeOK, Exports!Content
      <3>4. asks[r].sum.of = {asks[r].from}
        BY <3>2, <3>3
      <3>5. /\ asks'[r].sum = asks[r].sum /\ asks'[r].from = asks[r].from /\ asks'[r].e = asks[r].e
            /\ UNCHANGED <<source, clip>>
        BY <1>1, <3>1
      <3>6. source <= source
        BY DEF Exports!TypeOK
      <3>7. asks'[r].pc = "checked"
        BY <1>1, <3>1 DEF Exports!Req
      <3> QED BY <3>1, <3>2, <3>4, <3>5, <3>6, <3>7 DEF ExportAttemptOf
    <2>2. CASE Exports!Go(r, "failing") \/ Exports!End(r)
      <3>1. asks'[r].pc \in {"failing", "off"}
        BY <1>1, <2>2 DEF Exports!TypeOK, Exports!Req, Exports!ReqOff
      <3> QED BY <3>1 DEF ExportAttemptOf
    <2> QED BY <2>1, <2>2
  <1>6. \A q \in Asker : q # r => ExportAttemptOf(q)'
    BY <1>1, <1>3, ExportOthersAttempts DEF Exports!TypeOK
  <1>7. ExportAttemptOK'
    BY <1>5, <1>6 DEF ExportAttemptOK
  <1> QED BY <1>2, <1>4, <1>7

LEMMA ExportFinishKeeps ==
    ASSUME ExportInvariant, NEW r \in Asker, Exports!Finish(r)
    PROVE  ExportInvariant'
  <1> USE ExportAssumption
  <1> USE DEF ExportInvariant, Exports!Finish, Exports!Go, Exports!End, Exports!Generating,
          ExportDescribing
  <1>1. Exports!TypeOK'
    <2>1. asks' \in [Asker -> Exports!Req]
      BY ExportOffTyped, ExportReqTyped DEF Exports!TypeOK
    <2> QED BY <2>1 DEF Exports!TypeOK, Exports!Row, Exports!Status
  <1>2. ExportLeaseOK'
    BY DEF Exports!ReqOff, ExportLeaseOK, Exports!TypeOK, ExportFresh
  <1>3. ExportRowOK'
    BY DEF Exports!ReqOff, ExportLeaseOK, ExportRowOK, Exports!Req, ExportFresh
  <1>4. ExportDescriptionOK'
    BY DEF Exports!ReqOff, ExportDescriptionOK, ExportLeaseOK, Exports!Req, ExportFresh
  <1>5. ExportAttemptOK'
    BY DEF Exports!ReqOff, ExportAttemptOK, ExportAttemptOf, Exports!Content
  <1>6. ExportCleanOK'
    BY DEF Exports!ReqOff, ExportCleanOK, ExportLeaseOK, ExportFresh
  <1>7. Exports!EvidenceUnmixed'
    <2>1. /\ clip[asks[r].e] = asks[r].sum /\ asks[r].sum.of = {asks[r].from}
          /\ asks[r].from \in 0 .. MaxVersions + 1
      BY DEF ExportAttemptOK, ExportAttemptOf, Exports!TypeOK, Exports!Req
    <2>2. \A e \in Export : job'[e].sum = IF e = asks[r].e THEN clip[e] ELSE job[e].sum
      BY DEF Exports!TypeOK, Exports!Req
    <2> QED BY <2>1, <2>2 DEF Exports!EvidenceUnmixed
  <1> QED BY <1>1, <1>2, <1>3, <1>4, <1>5, <1>6, <1>7

LEMMA ExportFailKeeps ==
    ASSUME ExportInvariant, NEW r \in Asker, Exports!Fail(r)
    PROVE  ExportInvariant'
  <1> USE ExportAssumption
  <1> USE DEF ExportInvariant, Exports!Fail, Exports!Go, Exports!End, Exports!Generating,
          ExportDescribing
  <1>1. Exports!TypeOK'
    <2>1. asks' \in [Asker -> Exports!Req]
      BY ExportOffTyped, ExportReqTyped DEF Exports!TypeOK
    <2> QED BY <2>1 DEF Exports!TypeOK, Exports!Row, Exports!Status
  <1>2. ExportLeaseOK'
    BY DEF Exports!ReqOff, ExportLeaseOK, Exports!TypeOK, ExportFresh
  <1>3. ExportRowOK'
    BY DEF Exports!ReqOff, ExportLeaseOK, ExportRowOK, Exports!Req, ExportFresh
  <1>4. ExportDescriptionOK'
    BY DEF Exports!ReqOff, ExportDescriptionOK, ExportLeaseOK, Exports!Req
  <1>5. ExportAttemptOK'
    BY DEF Exports!ReqOff, ExportAttemptOK, ExportAttemptOf, ExportLeaseOK
  <1>6. ExportCleanOK'
    BY DEF Exports!ReqOff, ExportCleanOK, ExportLeaseOK, Exports!TypeOK, ExportFresh
  <1>7. Exports!EvidenceUnmixed'
    BY DEF Exports!EvidenceUnmixed, ExportAttemptOK, Exports!TypeOK, Exports!Absent
  <1> QED BY <1>1, <1>2, <1>3, <1>4, <1>5, <1>6, <1>7

LEMMA ExportDescribeKeeps ==
    ASSUME ExportInvariant, NEW r \in Asker, NEW e \in Export, Exports!Describe(r, e)
    PROVE  ExportInvariant'
  <1> USE ExportAssumption
  <1> USE DEF ExportInvariant, Exports!Describe, Exports!Go, Exports!End, Exports!Generating,
          ExportDescribing
  <1>1. Exports!TypeOK'
    <2>1. Exports!ReqOff(e) \in Exports!Req
      BY ExportOffTyped, ExportReqTyped
    <2>2. asks'[r] \in Exports!Req
      BY <2>1, ExportOffTyped, ExportReqTyped DEF ExportPlaces, Exports!TypeOK, Exports!Row
    <2>3. asks' \in [Asker -> Exports!Req]
      BY <2>2 DEF Exports!TypeOK
    <2> QED BY <2>3 DEF Exports!TypeOK
  <1>2. ExportLeaseOK'
    BY DEF Exports!ReqOff, ExportLeaseOK, ExportFresh
  <1>3. ExportRowOK'
    BY DEF Exports!ReqOff, ExportLeaseOK, ExportRowOK, Exports!Req, ExportFresh
  <1>4. ExportDescriptionOK'
    BY DEF Exports!ReqOff, ExportDescriptionOK, ExportLeaseOK, Exports!Req
  <1>5. ExportAttemptOK'
    BY DEF Exports!ReqOff, ExportAttemptOK, ExportAttemptOf
  <1>6. ExportCleanOK'
    BY DEF ExportCleanOK, ExportLeaseOK
  <1>7. Exports!EvidenceUnmixed'
    BY DEF Exports!EvidenceUnmixed, ExportAttemptOK
  <1> QED BY <1>1, <1>2, <1>3, <1>4, <1>5, <1>6, <1>7

LEMMA ExportReplaceKeeps ==
    ASSUME ExportInvariant, NEW r \in Asker, Exports!Replace(r)
    PROVE  ExportInvariant'
  <1> USE ExportAssumption
  <1> USE DEF ExportInvariant, Exports!Replace, Exports!Go, Exports!End, Exports!Generating,
          ExportDescribing
  <1>1. Exports!TypeOK'
    <2>1. asks' \in [Asker -> Exports!Req]
      BY ExportOffTyped, ExportReqTyped DEF ExportPlaces, Exports!TypeOK
    <2> QED BY <2>1 DEF Exports!TypeOK, Exports!Req
  <1>2. ExportLeaseOK'
    BY DEF Exports!ReqOff, ExportLeaseOK, ExportFresh
  <1>3. ExportRowOK'
    BY DEF ExportLeaseOK, ExportRowOK, Exports!Req, ExportFresh, ExportDescriptionOK
  <1>4. ExportDescriptionOK'
    BY DEF ExportDescriptionOK, ExportLeaseOK, Exports!Req
  <1>5. ExportAttemptOK'
    BY DEF ExportAttemptOK, ExportAttemptOf
  <1>6. ExportCleanOK'
    BY DEF ExportCleanOK, ExportLeaseOK
  <1>7. Exports!EvidenceUnmixed'
    BY DEF Exports!EvidenceUnmixed, ExportAttemptOK
  <1> QED BY <1>1, <1>2, <1>3, <1>4, <1>5, <1>6, <1>7

LEMMA ExportRegisterKeeps ==
    ASSUME ExportInvariant, NEW r \in Asker, Exports!Register(r)
    PROVE  ExportInvariant'
  <1> USE ExportAssumption
  <1> USE DEF ExportInvariant, Exports!Register, Exports!Go, Exports!End, Exports!Generating,
          ExportDescribing
  <1>1. Exports!TypeOK'
    <2>1. asks' \in [Asker -> Exports!Req]
      BY ExportOffTyped, ExportReqTyped DEF Exports!TypeOK
    <2>2. (job[asks[r].e].man \/ ~asks[r].known) \in BOOLEAN
      OBVIOUS
    <2>3. job' = [job EXCEPT ![asks[r].e].man = job[asks[r].e].man \/ ~asks[r].known]
      OBVIOUS
    <2>4. asks[r].e \in Export /\ job \in [Export -> Exports!Row]
      BY DEF Exports!TypeOK, Exports!Req
    <2> HIDE DEF Exports!Register
    <2>5. job' \in [Export -> Exports!Row]
      BY <2>2, <2>3, <2>4 DEF Exports!Row
    <2>6. UNCHANGED <<due, clip, manifest, source, clean, used>>
      BY DEF Exports!Register
    <2> QED BY <2>1, <2>5, <2>6 DEF Exports!TypeOK
  <1>2. ExportLeaseOK'
    BY DEF Exports!ReqOff, ExportLeaseOK, ExportFresh
  <1>3. ExportRowOK'
    BY DEF Exports!ReqOff, ExportLeaseOK, ExportRowOK, Exports!Req, ExportFresh
  <1>4. ExportDescriptionOK'
    BY DEF Exports!ReqOff, ExportDescriptionOK, ExportLeaseOK, Exports!Req
  <1>5. ExportAttemptOK'
    BY DEF Exports!ReqOff, ExportAttemptOK, ExportAttemptOf
  <1>6. ExportCleanOK'
    BY DEF Exports!ReqOff, ExportCleanOK, ExportLeaseOK
  <1>7. Exports!EvidenceUnmixed'
    BY DEF Exports!EvidenceUnmixed, ExportAttemptOK
  <1> QED BY <1>1, <1>2, <1>3, <1>4, <1>5, <1>6, <1>7

LEMMA ExportExpireKeeps ==
    ASSUME ExportInvariant, NEW e \in Export, Exports!Expire(e)
    PROVE  ExportInvariant'
  <1> USE ExportAssumption
  <1> USE DEF ExportInvariant, Exports!Expire, Exports!Go, Exports!End, Exports!Generating,
          ExportDescribing
  <1>1. Exports!TypeOK'
    BY DEF Exports!TypeOK
  <1>2. ExportLeaseOK'
    BY DEF Exports!ReqOff, ExportLeaseOK, ExportFresh
  <1>3. ExportRowOK'
    BY DEF ExportLeaseOK, ExportRowOK, Exports!Req, ExportFresh
  <1>4. ExportDescriptionOK'
    BY DEF ExportDescriptionOK, ExportLeaseOK, Exports!Req
  <1>5. ExportAttemptOK'
    BY DEF ExportAttemptOK, ExportAttemptOf
  <1>6. ExportCleanOK'
    BY DEF ExportCleanOK, ExportLeaseOK
  <1>7. Exports!EvidenceUnmixed'
    BY DEF Exports!EvidenceUnmixed, ExportAttemptOK
  <1> QED BY <1>1, <1>2, <1>3, <1>4, <1>5, <1>6, <1>7

LEMMA ExportCleanStartKeeps ==
    ASSUME ExportInvariant, NEW c \in Cleaner, Exports!CleanStart(c)
    PROVE  ExportInvariant'
  <1> USE ExportAssumption
  <1> USE DEF ExportInvariant, Exports!CleanStart, Exports!Go, Exports!End, Exports!Generating,
          ExportDescribing
  <1>1. Exports!TypeOK'
    BY ExportCleanTyped DEF Exports!TypeOK, Exports!Clean
  <1>2. ExportLeaseOK'
    BY DEF Exports!ReqOff, ExportLeaseOK, ExportFresh
  <1>3. ExportRowOK'
    BY DEF ExportLeaseOK, ExportRowOK, Exports!Req, ExportFresh
  <1>4. ExportDescriptionOK'
    BY DEF ExportDescriptionOK, ExportLeaseOK, Exports!Req
  <1>5. ExportAttemptOK'
    BY DEF ExportAttemptOK, ExportAttemptOf
  <1>6. ExportCleanOK'
    BY DEF ExportCleanOK, ExportLeaseOK, Exports!CleanOff, Exports!Selected
  <1>7. Exports!EvidenceUnmixed'
    BY DEF Exports!EvidenceUnmixed, ExportAttemptOK
  <1> QED BY <1>1, <1>2, <1>3, <1>4, <1>5, <1>6, <1>7

LEMMA ExportCleanOneKeeps ==
    ASSUME ExportInvariant, NEW c \in Cleaner, NEW e \in Export, Exports!CleanOne(c, e)
    PROVE  ExportInvariant'
  <1> USE DEF ExportInvariant
  <1> DEFINE read == clean[c].row[e]
             named == {f \in {"clip", "manifest"} : IF f = "clip" THEN read.out ELSE read.man}
  <1>1. PICK taken \in SUBSET named :
           /\ clip' = IF "clip" \in taken THEN [clip EXCEPT ![e] = Exports!Absent] ELSE clip
           /\ manifest' = IF "manifest" \in taken
                          THEN [manifest EXCEPT ![e] = Exports!Absent] ELSE manifest
           /\ clean' = [clean EXCEPT
                 ![c].todo = @ \ {e},
                 ![c].expired = IF read.status # "expired" THEN @ \cup {e} ELSE @,
                 ![c].cleared = IF "clip" \in taken THEN @ \cup {e} ELSE @,
                 ![c].undescribed = IF "manifest" \in taken THEN @ \cup {e} ELSE @]
    BY DEF Exports!CleanOne
  <1> HIDE DEF named
  <1>2. /\ clean[c].pc = "going" /\ e \in clean[c].todo
        /\ UNCHANGED <<job, due, source, asks, used>>
    BY DEF Exports!CleanOne
  <1>3. ("clip" \in taken => read.out) /\ ("manifest" \in taken => read.man)
    BY <1>1 DEF named
  <1>0. clean[c] \in Exports!Clean /\ clean[c].row \in [Export -> Exports!Row] /\
            read \in Exports!Row
    BY DEF Exports!TypeOK, Exports!Clean
  <1> HIDE DEF read
  <1>4. /\ clean' \in [Cleaner -> Exports!Clean] /\ \A d \in Cleaner : d # c =>
               clean'[d] = clean[d]
        /\ clean'[c].row = clean[c].row /\ clean'[c].todo = clean[c].todo \ {e}
        /\ clean'[c].expired = IF read.status # "expired" THEN clean[c].expired \cup {e}
                               ELSE clean[c].expired
        /\ clean'[c].cleared = IF "clip" \in taken THEN clean[c].cleared \cup {e}
                               ELSE clean[c].cleared
        /\ clean'[c].undescribed = IF "manifest" \in taken THEN clean[c].undescribed \cup {e}
                                   ELSE clean[c].undescribed
    <2> DEFINE x == [clean[c] EXCEPT
                       !.todo = @ \ {e},
                       !.expired = IF read.status # "expired" THEN @ \cup {e} ELSE @,
                       !.cleared = IF "clip" \in taken THEN @ \cup {e} ELSE @,
                       !.undescribed = IF "manifest" \in taken THEN @ \cup {e} ELSE @]
    <2>1. clean' = [clean EXCEPT ![c] = x]
      BY <1>1
    <2>2. /\ x.row = clean[c].row /\ x.todo = clean[c].todo \ {e}
          /\ x.expired = IF read.status # "expired" THEN clean[c].expired \cup {e}
                         ELSE clean[c].expired
          /\ x.cleared = IF "clip" \in taken THEN clean[c].cleared \cup {e}
                         ELSE clean[c].cleared
          /\ x.undescribed = IF "manifest" \in taken THEN clean[c].undescribed \cup {e}
                             ELSE clean[c].undescribed
      BY <1>0
    <2>3. x \in Exports!Clean
      BY <1>0 DEF Exports!Clean
    <2> HIDE DEF x
    <2> QED BY <2>1, <2>2, <2>3 DEF Exports!TypeOK
  <1>5. /\ \A x \in Export : clip'[x] \in {clip[x], Exports!Absent} /\
               manifest'[x] \in {manifest[x], Exports!Absent}
        /\ \A x \in Export : clip'[x] # clip[x] => x = e /\ read.out
    BY <1>1, <1>3 DEF Exports!TypeOK
  <1>6. Exports!TypeOK'
    BY <1>1, <1>2, <1>4, <1>5 DEF Exports!TypeOK
  <1>7. \A x \in Export : ExportFresh(x) => ExportFresh(x)'
    BY <1>2, <1>4, <1>5 DEF ExportFresh
  <1>8. ExportLeaseOK'
    BY <1>2, <1>7 DEF ExportLeaseOK, Exports!TypeOK, Exports!Req
  <1>9. ExportRowOK'
    BY <1>2, <1>5, <1>7 DEF ExportRowOK
  <1>10. ExportDescriptionOK' /\ Exports!EvidenceUnmixed'
    BY <1>2 DEF ExportDescriptionOK, Exports!EvidenceUnmixed
  <1>11. ExportAttemptOK'
    <2>1. SUFFICES ASSUME NEW r \in Asker PROVE ExportAttemptOf(r)'
      BY DEF ExportAttemptOK
    <2>2. asks[r].pc \in {"written", "checked"} => clip'[asks[r].e] = clip[asks[r].e]
      <3>1. SUFFICES ASSUME asks[r].pc \in {"written", "checked"}
                     PROVE clip'[asks[r].e] = clip[asks[r].e]
        OBVIOUS
      <3>2. asks[r].e \in Export /\ ExportFresh(asks[r].e)
        BY <3>1 DEF ExportLeaseOK, Exports!Generating, Exports!TypeOK, Exports!Req
      <3> QED BY <3>2, <1>5 DEF ExportFresh, read
    <2> QED BY <1>2, <2>2 DEF ExportAttemptOK, ExportAttemptOf
  <1>12. ExportCleanOK'
    BY <1>2, <1>3, <1>4 DEF ExportCleanOK, read
  <1> QED BY <1>6, <1>8, <1>9, <1>10, <1>11, <1>12

LEMMA ExportCleanCommitKeeps ==
    ASSUME ExportInvariant, NEW c \in Cleaner, Exports!CleanCommit(c)
    PROVE  ExportInvariant'
  <1> USE DEF ExportInvariant
  <1> USE DEF Exports!CleanCommit
  <1>1. Exports!TypeOK'
    BY ExportCleanTyped DEF Exports!TypeOK, Exports!Row, Exports!Status
  <1>2. \A e \in Export :
           /\ job'[e].status \in {job[e].status, "expired"}
           /\ job'[e].status # job[e].status => e \in clean[c].expired
           /\ (job'[e].out => job[e].out) /\ (job'[e].man => job[e].man)
           /\ job'[e].sum \in {job[e].sum, Exports!Absent}
           /\ job'[e].sum # job[e].sum => e \in clean[c].cleared
           /\ e \in clean[c].expired => job'[e].status = "expired"
    OBVIOUS
  <1>3. /\ \A d \in Cleaner : clean'[d] \in {clean[d], Exports!CleanOff}
        /\ UNCHANGED <<due, clip, manifest, source, asks, used>>
    OBVIOUS
  <1>4. \A e \in Export : e \in clean[c].cleared => job'[e].status = "expired"
    BY <1>2 DEF ExportCleanOK
  <1>5. \A e \in Export : e \in clean[c].expired => job[e].status # "none"
    BY DEF ExportCleanOK, ExportRowOK
  <1> HIDE DEF Exports!CleanCommit
  <1>6. \A d \in Cleaner, e \in Export :
           clean'[d].row[e] \in {clean[d].row[e], Exports!NoRow}
    BY <1>3 DEF Exports!CleanOff
  <1>7. \A e \in Export : ExportFresh(e) => ExportFresh(e)'
    BY <1>2, <1>3, <1>6 DEF ExportFresh, Exports!NoRow
  <1>8. ExportLeaseOK'
    BY <1>2, <1>3, <1>5, <1>7 DEF ExportLeaseOK, Exports!TypeOK, Exports!Req
  <1>9. ExportRowOK'
    <2>1. \A e \in Export : job'[e].status \notin {"done", "expired"} => ExportFresh(e)'
      BY <1>2, <1>7 DEF ExportRowOK
    <2>2. \A e \in Export : job'[e].status = "done" =>
              clip'[e] \in {job'[e].sum, Exports!Absent} /\
                  manifest'[e] \in {job'[e].sum, Exports!Absent}
      BY <1>2, <1>3, <1>4 DEF ExportRowOK
    <2>3. \A e \in due' : job'[e].status # "none"
      BY <1>2, <1>3 DEF ExportRowOK, Exports!TypeOK
    <2> QED BY <2>1, <2>2, <2>3 DEF ExportRowOK
  <1>10. ExportDescriptionOK'
    BY <1>2, <1>3, <1>4 DEF ExportDescriptionOK, Exports!TypeOK, Exports!Req
  <1>11. ExportAttemptOK'
    BY <1>3 DEF ExportAttemptOK, ExportAttemptOf
  <1>12. ExportCleanOK'
    BY <1>2, <1>3 DEF ExportCleanOK, Exports!CleanOff, Exports!NoRow
  <1>13. Exports!EvidenceUnmixed'
    BY <1>2 DEF Exports!EvidenceUnmixed
  <1> QED BY <1>1, <1>8, <1>9, <1>10, <1>11, <1>12, <1>13

LEMMA ExportCrashKeeps ==
    ASSUME ExportInvariant, Exports!Crash
    PROVE  ExportInvariant'
  <1> USE ExportAssumption
  <1> USE DEF ExportInvariant, Exports!Crash, Exports!Go, Exports!End, Exports!Generating,
          ExportDescribing
  <1>1. Exports!TypeOK'
    <2>1. asks' \in [Asker -> Exports!Req] /\ clean' \in [Cleaner -> Exports!Clean]
      BY ExportOffTyped, ExportCleanTyped
    <2> QED BY <2>1 DEF Exports!TypeOK
  <1>2. ExportLeaseOK'
    BY DEF Exports!ReqOff, ExportLeaseOK
  <1>3. ExportRowOK'
    BY DEF Exports!ReqOff, ExportLeaseOK, ExportRowOK, ExportFresh, Exports!NoRow, Exports!CleanOff
  <1>4. ExportDescriptionOK'
    BY DEF Exports!ReqOff, ExportDescriptionOK, ExportLeaseOK, Exports!Req, ExportCleanOK
  <1>5. ExportAttemptOK'
    BY DEF Exports!ReqOff, ExportAttemptOK, ExportAttemptOf
  <1>6. ExportCleanOK'
    BY DEF Exports!ReqOff, ExportCleanOK, ExportLeaseOK, Exports!NoRow, Exports!CleanOff
  <1>7. Exports!EvidenceUnmixed'
    BY DEF Exports!EvidenceUnmixed, ExportAttemptOK
  <1> QED BY <1>1, <1>2, <1>3, <1>4, <1>5, <1>6, <1>7

LEMMA ExportSourceChangesKeeps ==
    ASSUME ExportInvariant, Exports!SourceChanges
    PROVE  ExportInvariant'
  <1> USE ExportAssumption
  <1> USE DEF ExportInvariant, Exports!SourceChanges, Exports!Go, Exports!End, Exports!Generating,
          ExportDescribing
  <1>1. Exports!TypeOK'
    BY DEF Exports!TypeOK
  <1>2. ExportLeaseOK'
    BY DEF Exports!ReqOff, ExportLeaseOK, ExportFresh
  <1>3. ExportRowOK'
    BY DEF ExportLeaseOK, ExportRowOK, Exports!Req, ExportFresh
  <1>4. ExportDescriptionOK'
    BY DEF ExportDescriptionOK, ExportLeaseOK, Exports!Req
  <1>5. ExportAttemptOK'
    BY DEF ExportAttemptOK, ExportAttemptOf, Exports!TypeOK, Exports!Req, Exports!Content
  <1>6. ExportCleanOK'
    BY DEF ExportCleanOK, ExportLeaseOK, Exports!Req, ExportFresh, ExportRowOK
  <1>7. Exports!EvidenceUnmixed'
    BY DEF Exports!EvidenceUnmixed, ExportAttemptOK
  <1> QED BY <1>1, <1>2, <1>3, <1>4, <1>5, <1>6, <1>7

-----------------------------------------------------------------------------
LEMMA ExportInitEstablishes == Exports!Init => ExportInvariant
  <1> SUFFICES ASSUME Exports!Init PROVE ExportInvariant
    OBVIOUS
  <1> USE ExportAssumption DEF Exports!Init
  <1>1. Exports!TypeOK
    <2>1. Exports!NoRow \in Exports!Row
      BY DEF Exports!Row, Exports!NoRow, Exports!Status
    <2> QED BY <2>1, ExportOffTyped, ExportCleanTyped DEF Exports!TypeOK
  <1>2. \A e \in Export : ExportFresh(e)
    BY DEF ExportFresh, Exports!NoRow, Exports!ReqOff, Exports!CleanOff, ExportDescribing
  <1>3. ExportLeaseOK /\ ExportRowOK /\ ExportDescriptionOK /\ ExportAttemptOK /\
            Exports!EvidenceUnmixed
    BY <1>2 DEF ExportLeaseOK, ExportRowOK, ExportDescriptionOK, ExportAttemptOK, ExportAttemptOf,
       Exports!EvidenceUnmixed, Exports!NoRow, Exports!ReqOff,
                Exports!Generating, ExportDescribing
  <1>4. ExportCleanOK
    BY DEF ExportCleanOK, Exports!CleanOff, Exports!NoRow
  <1> QED BY <1>1, <1>3, <1>4 DEF ExportInvariant

LEMMA ExportNextKeeps == ExportInvariant /\ [Exports!Next]_(Exports!vars) => ExportInvariant'
  <1> SUFFICES ASSUME ExportInvariant, [Exports!Next]_(Exports!vars) PROVE ExportInvariant'
    OBVIOUS
  <1>1. CASE UNCHANGED Exports!vars
    BY <1>1 DEF Exports!vars, ExportInvariant, Exports!TypeOK, ExportLeaseOK, ExportRowOK,
       ExportDescriptionOK, ExportAttemptOK, ExportAttemptOf, ExportCleanOK,
       Exports!EvidenceUnmixed, ExportFresh
  <1>2. ASSUME NEW r \in Asker, NEW e \in Export, Exports!Count(r, e) \/
            Exports!Lease(r, e) \/ Exports!Describe(r, e)
        PROVE  ExportInvariant'
    BY <1>2, ExportCountKeeps, ExportLeaseKeeps, ExportDescribeKeeps
  <1>3. ASSUME NEW r \in Asker, Exports!Insert(r) \/ Exports!Replace(r) \/
            Exports!Register(r) PROVE ExportInvariant'
    BY <1>3, ExportInsertKeeps, ExportReplaceKeeps, ExportRegisterKeeps
  <1>4. ASSUME NEW r \in Asker, Exports!Generate(r) PROVE ExportInvariant'
    BY <1>4, ExportValidateKeeps, ExportTrimKeeps, ExportWriteKeeps, ExportCheckKeeps,
       ExportFinishKeeps, ExportFailKeeps DEF Exports!Generate
  <1>5. ASSUME NEW e \in Export, Exports!Expire(e) PROVE ExportInvariant'
    BY <1>5, ExportExpireKeeps
  <1>6. ASSUME NEW c \in Cleaner, NEW e \in Export, Exports!CleanOne(c, e) PROVE ExportInvariant'
    BY <1>6, ExportCleanOneKeeps
  <1>7. ASSUME NEW c \in Cleaner, Exports!CleanStart(c) \/ Exports!CleanCommit(c)
        PROVE ExportInvariant'
    BY <1>7, ExportCleanStartKeeps, ExportCleanCommitKeeps
  <1>8. CASE Exports!Crash \/ Exports!SourceChanges
    BY <1>8, ExportCrashKeeps, ExportSourceChangesKeeps
  <1> QED BY <1>1, <1>2, <1>3, <1>4, <1>5, <1>6, <1>7, <1>8 DEF Exports!Next

LEMMA ExportImplies == ExportInvariant => Exports!EvidenceTruthful /\ Exports!EvidenceUnmixed
  BY DEF ExportInvariant, ExportRowOK, Exports!ClipIntact, Exports!ManifestTruthful,
     Exports!EvidenceTruthful

LEMMA ExportKeeping == ExportInvariant /\ [Exports!Next]_(Exports!vars) => Exports!KeepsEvidence
  <1> SUFFICES ASSUME ExportInvariant, [Exports!Next]_(Exports!vars), NEW e \in Export,
      job[e].status = "done", e \notin due
               PROVE  (clip[e] # Exports!Absent => clip'[e] = clip[e]) /\ (job'[e].man \/
                          ~job[e].man)
    BY DEF Exports!KeepsEvidence
  <1> USE DEF ExportInvariant
  <1>1. \A r \in Asker : asks[r].pc \in Exports!Generating => asks[r].e # e
    BY DEF ExportLeaseOK
  <1>2. \A r \in Asker : asks[r].pc = "counted" => asks[r].e # e
    BY DEF ExportLeaseOK
  <1>3. \A c \in Cleaner : /\ e \in clean[c].todo => ~clean[c].row[e].out
                           /\ e \notin clean[c].undescribed
    BY DEF ExportCleanOK
  <1>4. CASE UNCHANGED Exports!vars
    BY <1>4 DEF Exports!vars
  <1>5. ASSUME NEW r \in Asker, NEW x \in Export, Exports!Count(r, x) \/
            Exports!Lease(r, x) \/ Exports!Describe(r, x)
        PROVE  UNCHANGED <<clip, job>>
    BY <1>5 DEF Exports!Count, Exports!Lease, Exports!Describe
  <1>6. ASSUME NEW r \in Asker, Exports!Generate(r) PROVE clip'[e] = clip[e] /\ job'[e] = job[e]
    <2>1. asks[r].e # e
      BY <1>1, <1>6 DEF Exports!Generate, Exports!Validate, Exports!Trim, Exports!Write,
         Exports!Check, Exports!Finish, Exports!Fail, Exports!Generating
    <2> QED BY <1>6, <2>1 DEF Exports!Generate, Exports!Validate, Exports!Trim, Exports!Write,
               Exports!Check, Exports!Finish, Exports!Fail, Exports!TypeOK
  <1>7. ASSUME NEW r \in Asker, Exports!Insert(r) \/ Exports!Replace(r) \/ Exports!Register(r)
        PROVE  clip' = clip /\ (job'[e].man \/ ~job[e].man)
    BY <1>7 DEF Exports!Insert, Exports!Replace, Exports!Register, Exports!TypeOK, Exports!Row
  <1>8. ASSUME NEW x \in Export, Exports!Expire(x) PROVE UNCHANGED <<clip, job>>
    BY <1>8 DEF Exports!Expire
  <1>9. ASSUME NEW c \in Cleaner, NEW x \in Export, Exports!CleanOne(c, x)
        PROVE  clip'[e] = clip[e] /\ job' = job
    <2>1. x = e => ~clean[c].row[x].out
      BY <1>3, <1>9 DEF Exports!CleanOne
    <2> QED BY <1>9, <2>1 DEF Exports!CleanOne, Exports!TypeOK
  <1>10. ASSUME NEW c \in Cleaner, Exports!CleanStart(c) \/ Exports!CleanCommit(c)
         PROVE  clip' = clip /\ (job'[e].man \/ ~job[e].man)
    <2>1. CASE Exports!CleanStart(c)
      BY <2>1 DEF Exports!CleanStart
    <2>2. CASE Exports!CleanCommit(c)
      <3>1. job'[e].man = (job[e].man /\ e \notin clean[c].undescribed) /\ clip' = clip
        BY <2>2 DEF Exports!CleanCommit
      <3> QED BY <1>3, <3>1
    <2> QED BY <1>10, <2>1, <2>2
  <1>11. CASE Exports!Crash \/ Exports!SourceChanges
    BY <1>11 DEF Exports!Crash, Exports!SourceChanges
  <1> QED BY <1>4, <1>5, <1>6, <1>7, <1>8, <1>9, <1>10, <1>11 DEF Exports!Next

\* Whatever is exported, changed, cleaned up or restarted, in a behaviour of the exports.
THEOREM ExportsHold == Services => [](scope = "exports" => ExportInvariant)
  <1> DEFINE all == <<exportVars, recorderVars, integrityVars, remedyVars, migrationVars, vars,
                      scope, used>>
             Holds == scope = "exports" => ExportInvariant
  <1>1. Start => Holds
    BY ExportInitEstablishes DEF Start
  <1>2. Holds /\ [AnyStep]_all => Holds'
    <2> SUFFICES ASSUME Holds, [AnyStep]_all, scope' = "exports" PROVE ExportInvariant'
      OBVIOUS
    <2>1. CASE ExportsStep
      BY <2>1, ExportNextKeeps DEF ExportsStep
    <2>2. CASE RecorderStep \/ IntegrityStep \/ RemedyStep \/ MigrationStep \/ DeletionStep
      BY <2>2 DEF RecorderStep, IntegrityStep, RemedyStep, MigrationStep, DeletionStep
    <2>3. CASE UNCHANGED all
      BY <2>3, ExportNextKeeps DEF exportVars, Exports!vars
    <2> QED BY <2>1, <2>2, <2>3 DEF AnyStep
  <1> QED BY <1>1, <1>2, PTL DEF Services

\* What the row of an export says of its clip and its manifest is true, and a finished clip
\* was cut from one version of its sources, whichever requests, cleanups and restarts are
\* interleaved (archive_export_service.py).
THEOREM ExportsAreTruthful == Services => []EvidenceTruthful
  <1>1. (scope = "exports" => ExportInvariant) => EvidenceTruthful
    BY ExportImplies DEF EvidenceTruthful
  <1> QED BY <1>1, ExportsHold, PTL

\* The clip of a finished export that has not expired, and that it has a manifest, are
\* taken by no other attempt and by no cleanup.
THEOREM ExportsAreKept == Services => EvidenceKept
  <1> DEFINE all == <<exportVars, recorderVars, integrityVars, remedyVars, migrationVars, vars,
                      scope, used>>
             Holds == scope = "exports" => ExportInvariant
             Unspoiled == [scope = "exports" => Exports!KeepsEvidence]_exportVars
  <1>1. Holds /\ [AnyStep]_all => Unspoiled
    <2> SUFFICES ASSUME Holds, [AnyStep]_all, scope = "exports" PROVE Unspoiled
      OBVIOUS
    <2>1. CASE ExportsStep
      BY <2>1, ExportKeeping DEF ExportsStep
    <2>2. CASE RecorderStep \/ IntegrityStep \/ RemedyStep \/ MigrationStep \/ DeletionStep
      BY <2>2 DEF RecorderStep, IntegrityStep, RemedyStep, MigrationStep, DeletionStep
    <2>3. CASE UNCHANGED all
      BY <2>3
    <2> QED BY <2>1, <2>2, <2>3 DEF AnyStep
  <1> QED BY <1>1, ExportsHold, PTL DEF Services, EvidenceKept

-----------------------------------------------------------------------------
(* Remediation plans (IntegrityRemediation).  RemedyPlanOK is what the     *)
(* rows of a plan say of the files and of each other, RemedyExecOK what an *)
(* executor may rely on at each of its places.  An executor that lost its  *)
(* operation works on, so what it does without asking for the lease        *)
(* (Compare, Gone) must leave what the new owner relies on (RemedyOwns);   *)
(* RemedyLeaving is what all other steps leave to it.  RemedyStepping puts *)
(* a step about one plan and one executor together.                        *)

RemedyOrphaned == {"quarantine_prepared", "quarantined", "delete_committing"}
RemedyStates == {"none", "prepared", "running", "terminal_pending"} \cup Remedy!Terminal
RemedyItems == {"none", "prepared", "running"} \cup Remedy!PendingItem \cup Remedy!Terminal
RemedyOps == {"none", "running", "cancel_requested"} \cup Remedy!Terminal
RemedyFiles == {"none", "it", "other"}
RemedyModes == {"none", "client", "recovery", "last"}
RemedyPlaces == {"idle", "bind", "look", "apply", "delete", "deleted", "rename", "compare",
                 "commit", "unlink", "gone", "finish"}
RemedyPlanRow ==
          [state : RemedyStates, item : RemedyItems, whole : BOOLEAN, expired : BOOLEAN,
           op : RemedyOps,
            bound : BOOLEAN, owner : Appliers \cup {Nobody}, saved : {"none", "completed"},
            quarantine : RemedyFiles, took : {"none", "it"}]
RemedyExecRow == [at : RemedyPlaces, plan : Remedies \cup {Nobody}, mode : RemedyModes]

RemedyTypes ==
    /\ kind \in Remedy!Kinds /\ finding \in {"active", "resolved", "superseded"}
    /\ file \in RemedyFiles /\ row \in {"none", "kept", "deleted"} /\ touched \in BOOLEAN
    /\ plan \in [Remedies -> RemedyPlanRow] /\ doing \in [Appliers -> RemedyExecRow]
    /\ coord \in Appliers \cup {Nobody}

\* The item of a plan, before and while it is worked on.
RemedyItemOK(p) ==
    LET i == plan[p] IN
    /\ i.state \in {"none", "prepared"} =>
           i.item \in {"none", "prepared"} /\ ~i.bound /\ i.saved = "none"
    /\ i.state \in {"none", "prepared"} /\ i.op = "none" => i.owner = Nobody
    /\ i.state = "none" => i.op = "none"
    /\ i.state = "running" =>
           i.item \in {"running", "physical_mutation_prepared"} \cup RemedyOrphaned
    /\ i.state = "terminal_pending" =>
           i.item = "physical_mutation_committed" /\ i.saved = "completed"
    /\ i.item = "physical_mutation_prepared" => kind = "unusable"
    /\ i.item \in RemedyOrphaned \/ i.quarantine # "none" => kind = "orphan"
    /\ i.owner # Nobody => Remedy!Open(p)
    /\ finding = "superseded" => ~Remedy!Open(p)

\* The file that was found is at its place, in a quarantine or removed.
RemedyFileOK(p) ==
    LET i == plan[p] IN
    /\ file = "it" => i.took = "none" /\ i.quarantine # "it"
    /\ i.took # "none" => i.quarantine = "none"
    /\ i.state \in {"none", "prepared"} \/ i.item = "running" =>
           i.took = "none" /\ i.quarantine = "none"
    /\ i.item = "delete_committing" /\ i.quarantine = "none" => i.took = "it"
    /\ i.quarantine = "other" /\ i.state = "running" => i.item = "quarantine_prepared"
    /\ i.state = "running" /\ i.took # "none" =>
           i.item \in {"physical_mutation_prepared", "quarantined", "delete_committing"}
    /\ i.saved = "completed" =>
           /\ kind \in {"unusable", "orphan"} /\ i.quarantine = "none"
           /\ kind = "orphan" => i.took = "it"
           /\ kind = "unusable" => row = "deleted" \/ touched = TRUE

\* What its rows say of it.
RemedyRowOK(p) ==
    LET i == plan[p] IN
    /\ i.state = "completed" =>
           /\ finding # "active" /\ i.quarantine = "none" /\ i.op = "completed"
           /\ kind = "orphan" => i.took = "it"
           /\ kind \in {"missing", "unusable"} /\ touched = FALSE => row = "deleted"
    /\ finding # "superseded" =>
           /\ i.quarantine # "none" => i.state = "running" /\ Remedy!Pending(p)
           /\ i.took # "none" => i.state \in {"running", "terminal_pending", "completed"}
           /\ i.state \in Remedy!Terminal /\ i.bound => i.op = i.state

RemedyPlanOK(p) == RemedyItemOK(p) /\ RemedyFileOK(p) /\ RemedyRowOK(p)

\* What an executor may still do of its plan, whose operation may be another's by now.
RemedyOwns(e) ==
    LET i == plan[doing[e].plan]
        w == doing[e].at
    IN
    /\ w \in {"apply", "delete", "rename"} => i.took = "none" /\ i.quarantine = "none"
    /\ w \in {"apply", "delete"} =>
           \/ i.state = "running"
           \/ i.state = "terminal_pending" /\ kind = "unusable" /\ file # "it"
    /\ w = "apply" /\ i.state = "running" =>
           i.item \in {"running", "physical_mutation_prepared", "quarantine_prepared"}
    /\ w = "delete" /\ i.state = "running" => i.item = "physical_mutation_prepared"
    /\ w = "rename" => i.state = "running" /\ i.item = "quarantine_prepared"
    /\ w \in {"commit", "unlink"} =>
           i.quarantine = "it" /\ i.item \in {"quarantined", "delete_committing"}

RemedyExecOK(e) ==
    LET i == plan[doing[e].plan]
        w == doing[e].at
    IN
    w # "idle" =>
      /\ doing[e].plan \in Remedies /\ finding # "superseded"
      /\ w = "bind" => (coord = e => i.state = "prepared")
      /\ w # "bind" => i.state \notin {"none", "prepared"}
      /\ w = "finish" => i.saved = "completed"
      /\ w = "deleted" => kind = "unusable"
      /\ w \in {"deleted", "gone"} => i.took = "it" /\ kind \in {"unusable", "orphan"}
      /\ w = "gone" /\ kind = "unusable" => row = "deleted" \/ touched = TRUE
      /\ w \in {"rename", "compare", "commit", "unlink"} => kind = "orphan"
      /\ w = "delete" => kind = "unusable"
      /\ i.owner = e => RemedyOwns(e)

RemedyInvariant ==
    /\ RemedyTypes
    /\ \A p \in Remedies : RemedyPlanOK(p)
    /\ \A e \in Appliers : RemedyExecOK(e)

LEMMA RemedyImplies == RemedyInvariant => Remedy!RemediationOK
  BY DEF RemedyInvariant, RemedyTypes, RemedyPlanOK, RemedyRowOK, Remedy!RemediationOK,
     Remedy!RemediationSafe, Remedy!TypeOK, RemedyPlanRow, RemedyStates, RemedyFiles

LEMMA RemedyStarts == Remedy!Init => RemedyInvariant
  <1> SUFFICES ASSUME Remedy!Init PROVE RemedyInvariant
    OBVIOUS
  <1>1. Remedy!NoPlan \in RemedyPlanRow /\ Remedy!Idle \in RemedyExecRow
    BY DEF Remedy!NoPlan, RemedyPlanRow, RemedyStates, RemedyItems, RemedyOps, RemedyFiles,
       Remedy!Idle, RemedyExecRow, RemedyPlaces, RemedyModes
  <1>2. RemedyTypes
    BY <1>1 DEF Remedy!Init, RemedyTypes, Remedy!Kinds, RemedyFiles
  <1>3. \A p \in Remedies : RemedyPlanOK(p)
    BY DEF Remedy!Init, RemedyPlanOK, RemedyItemOK, RemedyFileOK, RemedyRowOK, Remedy!NoPlan,
       Remedy!Open, RemedyOrphaned, Remedy!Terminal
  <1>4. \A e \in Appliers : RemedyExecOK(e)
    BY DEF Remedy!Init, RemedyExecOK, Remedy!Idle
  <1> QED BY <1>2, <1>3, <1>4 DEF RemedyInvariant

\* What no step but a restore does to the place and the finding.
RemedyAround ==
    /\ kind' = kind /\ file' \in RemedyFiles /\ row' \in {"none", "kept", "deleted"}
    /\ touched' \in BOOLEAN /\ coord' \in Appliers \cup {Nobody}
    /\ file' = "it" => file = "it"
    /\ touched = TRUE => touched' = TRUE
    /\ row' = row \/ row' = "deleted" \/ touched' = TRUE
    /\ finding' = finding \/ (finding = "active" /\ finding' = "resolved")

\* What is left of a plan to an executor that works on it, after a step of another.
RemedyLeaving(p, f) ==
    LET i == plan[p]
        j == plan'[p]
    IN
    /\ j.state \in {"none", "prepared"} => i.state \in {"none", "prepared"}
    /\ doing[f].at = "bind" /\ coord' = f =>
           coord = f /\ (i.state = "prepared" => j.state = "prepared")
    /\ i.saved = "completed" => j.saved = "completed"
    /\ i.took = "it" => j.took = "it"
    /\ j.owner = f => /\ i.owner = f /\ j.state = i.state /\ j.item = i.item
                      /\ j.took = i.took /\ j.quarantine = i.quarantine

LEMMA RemedyPlanStays ==
    ASSUME RemedyInvariant, RemedyAround, NEW p \in Remedies, plan'[p] = plan[p]
    PROVE  RemedyPlanOK(p)'
  <1>1. RemedyItemOK(p)'
    BY DEF RemedyInvariant, RemedyPlanOK, RemedyItemOK, RemedyAround, Remedy!Open
  <1>2. RemedyFileOK(p)'
    BY DEF RemedyInvariant, RemedyPlanOK, RemedyFileOK, RemedyAround, RemedyTypes
  <1>3. RemedyRowOK(p)'
    BY DEF RemedyInvariant, RemedyPlanOK, RemedyRowOK, RemedyAround, RemedyTypes, Remedy!Pending
  <1> QED BY <1>1, <1>2, <1>3 DEF RemedyPlanOK

LEMMA RemedyExecStays ==
    ASSUME RemedyInvariant, RemedyAround, NEW f \in Appliers, NEW p \in Remedies,
           doing[f].plan = p,
           doing'[f] = doing[f], RemedyLeaving(p, f)
    PROVE  RemedyExecOK(f)'
  <1> SUFFICES ASSUME doing[f].at # "idle" PROVE RemedyExecOK(f)'
    BY DEF RemedyExecOK
  <1>1. RemedyExecOK(f)
    BY DEF RemedyInvariant
  <1>2. plan'[p].owner = f => RemedyOwns(f)'
    BY <1>1 DEF RemedyExecOK, RemedyOwns, RemedyAround, RemedyLeaving
  <1> QED BY <1>1, <1>2 DEF RemedyExecOK, RemedyAround, RemedyLeaving, RemedyInvariant, RemedyTypes

\* A step about one plan and one executor.
LEMMA RemedyStepping ==
    ASSUME RemedyInvariant, RemedyAround, NEW p, NEW e,
           plan' \in [Remedies -> RemedyPlanRow], doing' \in [Appliers -> RemedyExecRow],
           \A q \in Remedies : q # p => plan'[q] = plan[q],
           \A f \in Appliers : f # e => doing'[f] = doing[f],
           \A f \in Appliers : f # e /\ coord' = f => coord = f,
           p \in Remedies => RemedyPlanOK(p)', e \in Appliers => RemedyExecOK(e)',
           \A f \in Appliers : f # e /\ doing[f].at # "idle" /\ doing[f].plan = p
               => RemedyLeaving(p, f) \/ RemedyExecOK(f)'
    PROVE  RemedyInvariant'
  <1>1. RemedyTypes'
    BY DEF RemedyInvariant, RemedyTypes, RemedyAround
  <1>2. ASSUME NEW q \in Remedies PROVE RemedyPlanOK(q)'
    BY <1>2, RemedyPlanStays
  <1>3. ASSUME NEW f \in Appliers PROVE RemedyExecOK(f)'
    <2>1. CASE f = e
      BY <2>1
    <2>2. CASE f # e /\ doing[f].at = "idle"
      BY <2>2 DEF RemedyExecOK
    <2>3. CASE f # e /\ doing[f].at # "idle"
      <3>1. RemedyExecOK(f)
        BY DEF RemedyInvariant
      <3>2. PICK q \in Remedies : doing[f].plan = q
        BY <2>3, <3>1 DEF RemedyExecOK
      <3>3. RemedyLeaving(q, f) \/ RemedyExecOK(f)'
        BY <2>3, <3>2 DEF RemedyLeaving
      <3> QED BY <2>3, <3>2, <3>3, RemedyExecStays
    <2> QED BY <2>1, <2>2, <2>3
  <1> QED BY <1>1, <1>2, <1>3 DEF RemedyInvariant

LEMMA RemedyTyped ==
    ASSUME RemedyInvariant
    PROVE  /\ \A p \in Remedies : plan[p] \in RemedyPlanRow
           /\ \A e \in Appliers : doing[e] \in RemedyExecRow
           /\ \A e \in Appliers : doing[e].at # "idle" => doing[e].plan \in Remedies
  <1>1. \A e \in Appliers : RemedyExecOK(e)
    BY DEF RemedyInvariant
  <1>2. \A e \in Appliers : doing[e].at # "idle" => doing[e].plan \in Remedies
    BY <1>1 DEF RemedyExecOK
  <1> QED BY <1>2 DEF RemedyInvariant, RemedyTypes

\* The row of a plan after a step, the others unchanged.
RemedySets(p, j) ==
    /\ plan' \in [Remedies -> RemedyPlanRow] /\ plan'[p] = j
    /\ \A q \in Remedies : q # p => plan'[q] = plan[q]

LEMMA RemedySetting ==
    ASSUME RemedyInvariant, NEW p \in Remedies, NEW j \in RemedyPlanRow,
           plan' = [plan EXCEPT ![p] = j]
    PROVE  RemedySets(p, j)
  BY DEF RemedyInvariant, RemedyTypes, RemedySets

LEMMA RemedyItemizing ==
    ASSUME RemedyInvariant, NEW p \in Remedies, NEW step \in RemedyItems,
           plan' = [plan EXCEPT ![p].item = step]
    PROVE  RemedySets(p, [plan[p] EXCEPT !.item = step])
  <1>1. plan[p] \in RemedyPlanRow
    BY RemedyTyped
  <1>2. [plan[p] EXCEPT !.item = step] \in RemedyPlanRow
    BY <1>1 DEF RemedyPlanRow
  <1> QED BY <1>2, RemedySetting

LEMMA RemedyPreparing ==
    ASSUME RemedyInvariant, NEW p \in Remedies,
           plan' = [plan EXCEPT ![p].state = "prepared", ![p].item = "prepared"]
    PROVE  RemedySets(p, [plan[p] EXCEPT !.state = "prepared", !.item = "prepared"])
  <1>1. plan[p] \in RemedyPlanRow
    BY RemedyTyped
  <1>2. [plan[p] EXCEPT !.state = "prepared", !.item = "prepared"] \in RemedyPlanRow
    BY <1>1 DEF RemedyPlanRow, RemedyStates, RemedyItems
  <1>3. plan' = [plan EXCEPT ![p] = [plan[p] EXCEPT !.state = "prepared", !.item = "prepared"]]
    BY DEF RemedyInvariant, RemedyTypes
  <1> QED BY <1>2, <1>3, RemedySetting

LEMMA RemedyOwning ==
    ASSUME RemedyInvariant, NEW p \in Remedies, NEW x \in Appliers \cup {Nobody},
           plan' = [plan EXCEPT ![p].owner = x]
    PROVE  RemedySets(p, [plan[p] EXCEPT !.owner = x])
  <1>1. plan[p] \in RemedyPlanRow
    BY RemedyTyped
  <1>2. [plan[p] EXCEPT !.owner = x] \in RemedyPlanRow
    BY <1>1 DEF RemedyPlanRow
  <1> QED BY <1>2, RemedySetting

\* A step of no executor on one plan, of which it leaves what the files say.
LEMMA RemedyMarking ==
    ASSUME RemedyInvariant, NEW p \in Remedies, NEW j \in RemedyPlanRow, RemedySets(p, j),
           j.state = plan[p].state, j.item = plan[p].item, j.bound = plan[p].bound,
           j.saved = plan[p].saved, j.took = plan[p].took, j.quarantine = plan[p].quarantine,
           j.op = plan[p].op \/ (plan[p].op = "running" /\ j.op = "cancel_requested"),
           j.owner \in {plan[p].owner, Nobody},
           UNCHANGED <<kind, finding, doing, touched, file, row>>, coord' \in {coord, Nobody}
    PROVE  RemedyInvariant'
  <1>1. RemedyAround
    BY DEF RemedyAround, RemedyInvariant, RemedyTypes
  <1>2. RemedyPlanOK(p)
    BY DEF RemedyInvariant
  <1>3. RemedyPlanOK(p)'
    <2>1. RemedyItemOK(p)'
      BY <1>2 DEF RemedyPlanOK, RemedyItemOK, RemedySets, Remedy!Open
    <2>2. RemedyFileOK(p)'
      BY <1>2 DEF RemedyPlanOK, RemedyFileOK, RemedySets
    <2>3. RemedyRowOK(p)'
      BY <1>2 DEF RemedyPlanOK, RemedyItemOK, RemedyRowOK, RemedySets, Remedy!Pending,
         Remedy!Terminal, Remedy!Open
    <2> QED BY <2>1, <2>2, <2>3 DEF RemedyPlanOK
  <1>4. ASSUME NEW f \in Appliers PROVE RemedyLeaving(p, f)
    BY <1>4, RemedyAssumption DEF RemedyLeaving, RemedySets
  <1>5. doing' \in [Appliers -> RemedyExecRow] /\ \A f \in Appliers : doing'[f] = doing[f]
    BY DEF RemedyInvariant, RemedyTypes
  <1>6. Nobody \notin Appliers /\ \A f \in Appliers : coord' = f => coord = f
    BY RemedyAssumption
  <1> QED BY <1>1, <1>3, <1>4, <1>5, <1>6, RemedyStepping DEF RemedySets

LEMMA RemedyMarksKeep ==
    ASSUME RemedyInvariant, Remedy!PrepareEnds \/ Remedy!Expire \/ Remedy!RequestCancel
    PROVE  RemedyInvariant'
  <1>0. PICK p \in Remedies : \E j :
           /\ plan' = [plan EXCEPT ![p] = j]
           /\ \/ j = [plan[p] EXCEPT !.whole = TRUE] \/ j = [plan[p] EXCEPT !.expired = TRUE]
              \/ plan[p].op = "running" /\ j = [plan[p] EXCEPT !.op = "cancel_requested"]
           /\ UNCHANGED <<kind, finding, doing, touched, file, row, coord>>
    BY DEF Remedy!PrepareEnds, Remedy!Expire, Remedy!RequestCancel, Remedy!place, Remedy!leases
  <1>1. PICK j :
           /\ plan' = [plan EXCEPT ![p] = j]
           /\ \/ j = [plan[p] EXCEPT !.whole = TRUE] \/ j = [plan[p] EXCEPT !.expired = TRUE]
              \/ plan[p].op = "running" /\ j = [plan[p] EXCEPT !.op = "cancel_requested"]
           /\ UNCHANGED <<kind, finding, doing, touched, file, row, coord>>
    BY <1>0
  <1>2. plan[p] \in RemedyPlanRow
    BY RemedyTyped
  <1>3. /\ j \in RemedyPlanRow
        /\ j.state = plan[p].state /\ j.item = plan[p].item /\ j.bound = plan[p].bound
        /\ j.saved = plan[p].saved /\ j.took = plan[p].took
        /\ j.quarantine = plan[p].quarantine /\ j.owner = plan[p].owner
        /\ j.op = plan[p].op \/ (plan[p].op = "running" /\ j.op = "cancel_requested")
    BY <1>1, <1>2 DEF RemedyPlanRow, RemedyOps
  <1> QED BY <1>1, <1>3, RemedySetting, RemedyMarking

LEMMA RemedyStallKeeps ==
    ASSUME RemedyInvariant, NEW e \in Appliers, Remedy!Stall(e)
    PROVE RemedyInvariant'
  <1>1. PICK p \in Remedies : doing[e].plan = p
    BY RemedyTyped DEF Remedy!Stall
  <1>2. RemedySets(p, [plan[p] EXCEPT !.owner = Nobody])
    BY <1>1, RemedyOwning DEF Remedy!Stall
  <1>3. plan[p] \in RemedyPlanRow
    BY RemedyTyped
  <1>4. [plan[p] EXCEPT !.owner = Nobody] \in RemedyPlanRow
    BY <1>3 DEF RemedyPlanRow
  <1> QED BY <1>2, <1>3, <1>4, RemedyMarking DEF Remedy!Stall, Remedy!place, Remedy!leases,
             RemedyPlanRow

LEMMA RemedyLeaseEndsKeeps == ASSUME RemedyInvariant, Remedy!LeaseEnds PROVE RemedyInvariant'
  <1> USE DEF Remedy!LeaseEnds, Remedy!place
  <1>1. CASE plan' = plan /\ coord' = Nobody
    <2>1. RemedyAround
      BY <1>1 DEF RemedyAround, RemedyInvariant, RemedyTypes
    <2>2. Nobody \notin Appliers /\ Nobody \notin Remedies
      BY RemedyAssumption
    <2>3. /\ plan' \in [Remedies -> RemedyPlanRow] /\ doing' \in [Appliers -> RemedyExecRow]
          /\ \A q \in Remedies : plan'[q] = plan[q]
          /\ \A f \in Appliers : doing'[f] = doing[f]
      BY <1>1 DEF RemedyInvariant, RemedyTypes
    <2>4. \A f \in Appliers : doing[f].at # "idle" => doing[f].plan # Nobody
      BY <2>2, RemedyTyped
    <2>5. \A f \in Appliers : f # Nobody /\ coord' = f => coord = f
      BY <1>1
    <2>6. \A q \in Remedies : q # Nobody => plan'[q] = plan[q]
      BY <2>3
    <2>7. \A f \in Appliers : f # Nobody => doing'[f] = doing[f]
      BY <2>3
    <2>8. \A f \in Appliers : f # Nobody /\ doing[f].at # "idle" /\ doing[f].plan = Nobody
              => RemedyLeaving(Nobody, f)
      BY <2>4
    <2>9. (Nobody \in Remedies => RemedyPlanOK(Nobody)') /\ (Nobody \in Appliers =>
              RemedyExecOK(Nobody)')
      BY <2>2
    <2> QED BY <2>1, <2>3, <2>5, <2>6, <2>7, <2>8, <2>9, RemedyStepping
  <1>2. ASSUME NEW p \in Remedies, plan' = [plan EXCEPT ![p].owner = Nobody], coord' =
            coord PROVE RemedyInvariant'
    <2>1. RemedySets(p, [plan[p] EXCEPT !.owner = Nobody])
      BY <1>2, RemedyOwning
    <2>2. plan[p] \in RemedyPlanRow
      BY RemedyTyped
    <2>3. [plan[p] EXCEPT !.owner = Nobody] \in RemedyPlanRow
      BY <2>2 DEF RemedyPlanRow
    <2> QED BY <1>2, <2>1, <2>2, <2>3, RemedyMarking DEF RemedyPlanRow
  <1> QED BY <1>1, <1>2

LEMMA RemedyPrepareKeeps == ASSUME RemedyInvariant, Remedy!Prepare PROVE RemedyInvariant'
  <1>1. PICK p \in Remedies :
           /\ plan[p].state = "none" /\ finding = "active"
           /\ plan' = [plan EXCEPT ![p].state = "prepared", ![p].item = "prepared"]
    BY DEF Remedy!Prepare, Remedy!Context
  <1>2. RemedyAround /\ UNCHANGED <<kind, finding, doing, file, row, coord>>
    BY DEF RemedyAround, RemedyInvariant, RemedyTypes, Remedy!Prepare, Remedy!place, Remedy!leases
  <1> DEFINE j == [plan[p] EXCEPT !.state = "prepared", !.item = "prepared"]
  <1>3. RemedySets(p, j)
    BY <1>1, RemedyPreparing
  <1>4. plan[p] \in RemedyPlanRow
    BY RemedyTyped
  <1>5. /\ j.state = "prepared" /\ j.item = "prepared" /\ j.op = plan[p].op
        /\ j.bound = plan[p].bound /\ j.saved = plan[p].saved /\ j.took = plan[p].took
        /\ j.quarantine = plan[p].quarantine /\ j.owner = plan[p].owner
    BY <1>4 DEF RemedyPlanRow
  <1> HIDE DEF j
  <1>6. RemedyPlanOK(p)
    BY DEF RemedyInvariant
  <1>7. RemedyPlanOK(p)'
    <2>1. RemedyItemOK(p)'
      BY <1>1, <1>2, <1>3, <1>5, <1>6 DEF RemedyPlanOK, RemedyItemOK, RemedySets, Remedy!Open,
         RemedyOrphaned
    <2>2. RemedyFileOK(p)'
      BY <1>1, <1>2, <1>3, <1>5, <1>6 DEF RemedyPlanOK, RemedyFileOK, RemedyItemOK, RemedySets
    <2>3. RemedyRowOK(p)'
      BY <1>1, <1>2, <1>3, <1>5, <1>6 DEF RemedyPlanOK, RemedyFileOK, RemedyRowOK, RemedySets,
         Remedy!Terminal
    <2> QED BY <2>1, <2>2, <2>3 DEF RemedyPlanOK
  <1>8. ASSUME NEW f \in Appliers, doing[f].at # "idle", doing[f].plan = p
        PROVE RemedyLeaving(p, f)
    BY <1>1, <1>2, <1>3, <1>5, <1>6, <1>8, RemedyAssumption DEF RemedyLeaving, RemedySets,
       RemedyPlanOK, RemedyItemOK, Remedy!Open
  <1>9. doing' \in [Appliers -> RemedyExecRow] /\ \A f \in Appliers : doing'[f] = doing[f]
    BY <1>2 DEF RemedyInvariant, RemedyTypes
  <1>10. Nobody \notin Appliers /\ \A f \in Appliers : coord' = f => coord = f
    BY <1>2, RemedyAssumption
  <1> QED BY <1>2, <1>3, <1>7, <1>8, <1>9, <1>10, RemedyStepping DEF RemedySets

\* Where an executor goes.
RemedyMoves(e, where, p, mode) ==
    /\ doing' \in [Appliers -> RemedyExecRow]
    /\ doing'[e].at = where /\ doing'[e].plan = p /\ doing'[e].mode = mode
    /\ \A f \in Appliers : f # e => doing'[f] = doing[f]

LEMMA RemedyGoing ==
    ASSUME RemedyInvariant, NEW e \in Appliers, NEW where \in RemedyPlaces, Remedy!Goes(e, where)
    PROVE  RemedyMoves(e, where, doing[e].plan, doing[e].mode)
  <1>1. doing[e] \in RemedyExecRow
    BY RemedyTyped
  <1>2. [doing[e] EXCEPT !.at = where] \in RemedyExecRow
    BY <1>1 DEF RemedyExecRow
  <1> QED BY <1>1, <1>2 DEF Remedy!Goes, RemedyMoves, RemedyInvariant, RemedyTypes, RemedyExecRow

LEMMA RemedyStarting ==
    ASSUME RemedyInvariant, NEW e \in Appliers, NEW where \in RemedyPlaces, NEW p \in Remedies,
           NEW mode \in RemedyModes,
           doing' = [doing EXCEPT ![e] = [at |-> where, plan |-> p, mode |-> mode]]
    PROVE  RemedyMoves(e, where, p, mode)
  <1>1. [at |-> where, plan |-> p, mode |-> mode] \in RemedyExecRow
    BY DEF RemedyExecRow
  <1> QED BY <1>1 DEF RemedyMoves, RemedyInvariant, RemedyTypes

LEMMA RemedyQuitting ==
    ASSUME RemedyInvariant, NEW e \in Appliers, Remedy!Leaves(e)
    PROVE  RemedyMoves(e, "idle", Nobody, "none") /\ RemedyExecOK(e)'
  <1>1. Remedy!Idle \in RemedyExecRow
    BY DEF Remedy!Idle, RemedyExecRow, RemedyPlaces, RemedyModes
  <1>2. RemedyMoves(e, "idle", Nobody, "none")
    BY <1>1 DEF Remedy!Leaves, RemedyMoves, RemedyInvariant, RemedyTypes, Remedy!Idle
  <1> QED BY <1>2 DEF RemedyMoves, RemedyExecOK

\* The request tries once more, for the last time.
LEMMA RemedyRetrying ==
    ASSUME RemedyInvariant, NEW e \in Appliers,
           doing' = [doing EXCEPT ![e].at = "look", ![e].mode = "last"]
    PROVE  RemedyMoves(e, "look", doing[e].plan, "last")
  <1>1. doing[e] \in RemedyExecRow
    BY RemedyTyped
  <1>2. [doing[e] EXCEPT !.at = "look", !.mode = "last"] \in RemedyExecRow
    BY <1>1 DEF RemedyExecRow, RemedyPlaces, RemedyModes
  <1>3. doing' = [doing EXCEPT ![e] = [doing[e] EXCEPT !.at = "look", !.mode = "last"]]
    BY DEF RemedyInvariant, RemedyTypes
  <1> QED BY <1>1, <1>2, <1>3 DEF RemedyMoves, RemedyInvariant, RemedyTypes, RemedyExecRow

\* A step of an executor that leaves the plans as they are, and one that does not.
LEMMA RemedyWalking ==
    ASSUME RemedyInvariant, RemedyAround, NEW e \in Appliers, NEW where, NEW p, NEW mode,
           RemedyMoves(e, where, p, mode),
           UNCHANGED plan, RemedyExecOK(e)', \A f \in Appliers : f # e /\ coord' = f => coord = f
    PROVE  RemedyInvariant'
  <1>1. Nobody \notin Remedies
    BY RemedyAssumption
  <1>2. \A f \in Appliers : doing[f].at # "idle" => doing[f].plan # Nobody
    BY <1>1, RemedyTyped
  <1>3. \A f \in Appliers : f # e /\ doing[f].at # "idle" /\ doing[f].plan = Nobody
            => RemedyLeaving(Nobody, f)
    BY <1>2
  <1>4. plan' \in [Remedies -> RemedyPlanRow] /\ \A q \in Remedies : q # Nobody =>
            plan'[q] = plan[q]
    BY DEF RemedyInvariant, RemedyTypes
  <1>5. Nobody \in Remedies => RemedyPlanOK(Nobody)'
    BY <1>1
  <1> QED BY <1>3, <1>4, <1>5, RemedyStepping DEF RemedyMoves

LEMMA RemedyWorking ==
    ASSUME RemedyInvariant, RemedyAround, NEW e \in Appliers, NEW where, NEW q, NEW mode,
           RemedyMoves(e, where, q, mode),
           NEW p \in Remedies, NEW j, RemedySets(p, j), RemedyPlanOK(p)', RemedyExecOK(e)',
           \A f \in Appliers : f # e /\ coord' = f => coord = f,
           \A f \in Appliers : f # e /\ doing[f].at # "idle" /\ doing[f].plan = p =>
               RemedyLeaving(p, f)
    PROVE  RemedyInvariant'
  BY RemedyStepping DEF RemedyMoves, RemedySets

LEMMA RemedyReclaimKeeps ==
    ASSUME RemedyInvariant, NEW e \in Appliers, NEW p \in Remedies,
           NEW mode \in {"client", "recovery"},
           Remedy!Reclaim(e, p, mode)
    PROVE  RemedyInvariant'
  <1>1. RemedyAround /\ UNCHANGED <<kind, finding, file, row, coord, touched>>
    BY DEF RemedyAround, RemedyInvariant, RemedyTypes, Remedy!Reclaim, Remedy!place, Remedy!leases
  <1>2. RemedySets(p, [plan[p] EXCEPT !.owner = e]) /\ plan[p] \in RemedyPlanRow
    BY RemedyOwning, RemedyTyped DEF Remedy!Reclaim
  <1>3. RemedyMoves(e, "look", p, mode)
    BY RemedyStarting DEF Remedy!Reclaim, RemedyPlaces, RemedyModes
  <1>4. /\ plan'[p].owner = e /\ plan[p].owner = Nobody /\ Remedy!Open(p)
        /\ plan'[p].state = plan[p].state /\ plan'[p].item = plan[p].item
        /\ plan'[p].op = plan[p].op /\ plan'[p].bound = plan[p].bound
        /\ plan'[p].saved = plan[p].saved /\ plan'[p].took = plan[p].took
        /\ plan'[p].quarantine = plan[p].quarantine
        /\ plan[p].state \in {"running", "terminal_pending"}
    BY <1>2 DEF RemedyPlanRow, Remedy!Open, Remedy!Reclaim, RemedySets
  <1>5. RemedyPlanOK(p)
    BY DEF RemedyInvariant
  <1>6. RemedyPlanOK(p)'
    BY <1>1, <1>4, <1>5 DEF RemedyPlanOK, RemedyItemOK, RemedyFileOK, RemedyRowOK, Remedy!Open,
       Remedy!Pending
  <1>7. RemedyExecOK(e)'
    BY <1>1, <1>3, <1>4, <1>5 DEF RemedyExecOK, RemedyOwns, RemedyMoves, RemedyPlanOK,
       RemedyItemOK, Remedy!Open
  <1>8. \A f \in Appliers : f # e => RemedyLeaving(p, f)
    BY <1>1, <1>4 DEF RemedyLeaving
  <1> QED BY <1>1, <1>2, <1>3, <1>6, <1>7, <1>8, RemedyWorking

\* The rows of a plan that is bound to its operation, or retired with it.
LEMMA RemedyBinding ==
    ASSUME RemedyInvariant, RemedyAround, NEW e \in Appliers, NEW p \in Remedies,
           plan[p].state = "prepared",
           kind' = kind, finding' = finding, file' = file, row' = row, touched' = touched,
           plan' = [plan EXCEPT ![p] = Remedy!Bound(p, e)],
           \A f \in Appliers : f # e => coord' # f
    PROVE  /\ RemedySets(p, Remedy!Bound(p, e)) /\ RemedyPlanOK(p)' /\ finding # "superseded"
           /\ \A f \in Appliers : f # e => RemedyLeaving(p, f)
  <1>1. plan[p] \in RemedyPlanRow
    BY RemedyTyped
  <1>2. Remedy!Bound(p, e) \in RemedyPlanRow
    BY <1>1 DEF Remedy!Bound, RemedyPlanRow, RemedyStates, RemedyItems
  <1>3. RemedySets(p, Remedy!Bound(p, e))
    BY <1>2, RemedySetting
  <1>4. /\ plan'[p].state = "running" /\ plan'[p].item = "running" /\ plan'[p].owner = e
        /\ plan'[p].saved = plan[p].saved /\ plan'[p].took = plan[p].took
        /\ plan'[p].quarantine = plan[p].quarantine
    BY <1>1, <1>3 DEF RemedySets, Remedy!Bound, RemedyPlanRow
  <1>5. RemedyPlanOK(p)
    BY DEF RemedyInvariant
  <1>6. RemedyPlanOK(p)'
    BY <1>4, <1>5 DEF RemedyPlanOK, RemedyItemOK, RemedyFileOK, RemedyRowOK, Remedy!Open,
       Remedy!Terminal, RemedyOrphaned
  <1>7. \A f \in Appliers : f # e => RemedyLeaving(p, f)
    BY <1>4, <1>5 DEF RemedyLeaving, RemedyPlanOK, RemedyItemOK
  <1> QED BY <1>3, <1>5, <1>6, <1>7 DEF RemedyPlanOK, RemedyItemOK, Remedy!Open

LEMMA RemedyRetiring ==
    ASSUME RemedyInvariant, RemedyAround, NEW e \in Appliers, NEW p \in Remedies,
           plan[p].state = "prepared",
           kind' = kind, finding' = finding, file' = file, row' = row, touched' = touched,
           plan' = [plan EXCEPT ![p] = Remedy!Retired(p)],
           \A f \in Appliers : f # e => coord' # f \/ doing[f].at # "bind"
    PROVE  /\ RemedySets(p, Remedy!Retired(p)) /\ RemedyPlanOK(p)'
           /\ \A f \in Appliers : f # e => RemedyLeaving(p, f)
  <1>1. plan[p] \in RemedyPlanRow
    BY RemedyTyped
  <1>2. Remedy!Retired(p) \in RemedyPlanRow
    BY <1>1 DEF Remedy!Retired, RemedyPlanRow, RemedyStates, RemedyItems, RemedyOps,
       Remedy!Terminal
  <1>3. RemedySets(p, Remedy!Retired(p))
    BY <1>2, RemedySetting
  <1>4. /\ plan'[p].state = "blocked" /\ plan'[p].item = "blocked" /\ plan'[p].owner = Nobody
        /\ plan'[p].op = "blocked"
        /\ plan'[p].saved = plan[p].saved /\ plan'[p].took = plan[p].took
        /\ plan'[p].quarantine = plan[p].quarantine
    BY <1>1, <1>3 DEF RemedySets, Remedy!Retired, RemedyPlanRow
  <1>5. RemedyPlanOK(p)
    BY DEF RemedyInvariant
  <1>6. RemedyPlanOK(p)'
    BY <1>4, <1>5 DEF RemedyPlanOK, RemedyItemOK, RemedyFileOK, RemedyRowOK, Remedy!Open,
       Remedy!Terminal, RemedyOrphaned
  <1>7. \A f \in Appliers : f # e => RemedyLeaving(p, f)
    BY <1>4, <1>5, RemedyAssumption DEF RemedyLeaving, RemedyPlanOK, RemedyItemOK
  <1> QED BY <1>3, <1>6, <1>7

LEMMA RemedyAdoptKeeps ==
    ASSUME RemedyInvariant, NEW e \in Appliers, NEW p \in Remedies,
           NEW mode \in {"client", "recovery"},
           Remedy!Adopt(e, p, mode)
    PROVE  RemedyInvariant'
  <1>1. /\ RemedyAround /\ UNCHANGED <<kind, finding, file, row, coord, touched>>
        /\ plan[p].state = "prepared" /\ coord = Nobody /\ doing[e].at = "idle"
    BY DEF RemedyAround, RemedyInvariant, RemedyTypes, Remedy!Adopt, Remedy!Asks, Remedy!place,
       Remedy!leases
  <1>2. \A f \in Appliers : coord' # f
    BY <1>1, RemedyAssumption
  <1>3. CASE plan' = [plan EXCEPT ![p] = Remedy!Retired(p)] /\ doing' = doing
    <2>1. RemedyMoves(e, "idle", doing[e].plan, doing[e].mode) /\ RemedyExecOK(e)'
      BY <1>1, <1>3 DEF RemedyMoves, RemedyExecOK, RemedyInvariant, RemedyTypes
    <2> QED BY <1>1, <1>2, <1>3, <2>1, RemedyRetiring, RemedyWorking
  <1>4. CASE /\ plan' = [plan EXCEPT ![p] = Remedy!Bound(p, e)]
             /\ doing' = [doing EXCEPT ![e] = [at |-> "look", plan |-> p, mode |-> mode]]
    <2>1. RemedyMoves(e, "look", p, mode)
      BY <1>4, RemedyStarting DEF RemedyPlaces, RemedyModes
    <2>2. /\ RemedySets(p, Remedy!Bound(p, e)) /\ RemedyPlanOK(p)' /\ finding # "superseded"
          /\ \A f \in Appliers : f # e => RemedyLeaving(p, f)
      BY <1>1, <1>2, <1>4, RemedyBinding
    <2>3. plan'[p].state = "running"
      BY <2>2, RemedyTyped DEF RemedySets, Remedy!Bound, RemedyPlanRow
    <2>4. RemedyExecOK(e)'
      BY <1>1, <2>1, <2>2, <2>3 DEF RemedyMoves, RemedyExecOK, RemedyOwns
    <2> QED BY <1>1, <1>2, <2>1, <2>2, <2>4, RemedyWorking
  <1> QED BY <1>3, <1>4 DEF Remedy!Adopt

LEMMA RemedyClaimKeeps ==
    ASSUME RemedyInvariant, NEW e \in Appliers, NEW p \in Remedies, Remedy!Claim(e, p)
    PROVE RemedyInvariant'
  <1>1. /\ RemedyAround /\ UNCHANGED <<kind, finding, file, row, touched>>
        /\ plan[p].state = "prepared" /\ plan[p].op = "none" /\ coord = Nobody
        /\ doing[e].at = "idle" /\ plan[p] \in RemedyPlanRow /\ RemedyPlanOK(p)
        /\ coord' \in {coord, e}
    BY RemedyTyped DEF RemedyAround, RemedyInvariant, RemedyTypes, Remedy!Claim, Remedy!Asks,
       Remedy!place
  <1>2. \A f \in Appliers : f # e => coord' # f
    BY <1>1, RemedyAssumption
  <1>3. CASE plan' = [plan EXCEPT ![p].state = "blocked"] /\ doing' = doing
    <2> DEFINE j == [plan[p] EXCEPT !.state = "blocked"]
    <2>1. RemedyMoves(e, "idle", doing[e].plan, doing[e].mode) /\ RemedyExecOK(e)'
      BY <1>1, <1>3 DEF RemedyMoves, RemedyExecOK, RemedyInvariant, RemedyTypes
    <2>2. j \in RemedyPlanRow
      BY <1>1 DEF RemedyPlanRow, RemedyStates, Remedy!Terminal
    <2>3. RemedySets(p, j)
      BY <1>3, <2>2, RemedySetting
    <2>4. /\ plan'[p].state = "blocked" /\ plan'[p].item = plan[p].item
          /\ plan'[p].owner = plan[p].owner /\ plan'[p].bound = plan[p].bound
          /\ plan'[p].saved = plan[p].saved /\ plan'[p].took = plan[p].took
          /\ plan'[p].quarantine = plan[p].quarantine
      BY <1>1, <2>3 DEF RemedySets, RemedyPlanRow
    <2>5. RemedyPlanOK(p)'
      BY <1>1, <2>4 DEF RemedyPlanOK, RemedyItemOK, RemedyFileOK, RemedyRowOK, Remedy!Open,
         Remedy!Terminal, RemedyOrphaned
    <2>6. \A f \in Appliers : f # e => RemedyLeaving(p, f)
      BY <1>1, <1>2, <2>4, RemedyAssumption DEF RemedyLeaving, RemedyPlanOK, RemedyItemOK
    <2> QED BY <1>1, <1>2, <2>1, <2>3, <2>5, <2>6, RemedyWorking
  <1>4. CASE /\ plan' = [plan EXCEPT ![p].op = "running", ![p].owner = e] /\ coord' = e
             /\ doing' = [doing EXCEPT ![e] = [at |-> "bind", plan |-> p, mode |-> "client"]]
    <2> DEFINE j == [plan[p] EXCEPT !.op = "running", !.owner = e]
    <2>1. RemedyMoves(e, "bind", p, "client")
      BY <1>4, RemedyStarting DEF RemedyPlaces, RemedyModes
    <2>2. j \in RemedyPlanRow
      BY <1>1 DEF RemedyPlanRow, RemedyOps
    <2>3. plan' = [plan EXCEPT ![p] = j]
      BY <1>4 DEF RemedyInvariant, RemedyTypes
    <2>4. RemedySets(p, j)
      BY <2>2, <2>3, RemedySetting
    <2>5. /\ plan'[p].state = "prepared" /\ plan'[p].item = plan[p].item
          /\ plan'[p].owner = e /\ plan'[p].bound = plan[p].bound /\ plan'[p].op = "running"
          /\ plan'[p].saved = plan[p].saved /\ plan'[p].took = plan[p].took
          /\ plan'[p].quarantine = plan[p].quarantine
      BY <1>1, <2>4 DEF RemedySets, RemedyPlanRow
    <2>6. RemedyPlanOK(p)'
      BY <1>1, <2>5 DEF RemedyPlanOK, RemedyItemOK, RemedyFileOK, RemedyRowOK, Remedy!Open,
         Remedy!Terminal, RemedyOrphaned
    <2>7. \A f \in Appliers : f # e => RemedyLeaving(p, f)
      BY <1>1, <1>2, <2>5 DEF RemedyLeaving
    <2>8. finding # "superseded"
      BY <1>1 DEF RemedyPlanOK, RemedyItemOK, Remedy!Open
    <2>9. RemedyExecOK(e)'
      BY <1>1, <2>1, <2>5, <2>8 DEF RemedyMoves, RemedyExecOK, RemedyOwns
    <2> QED BY <1>1, <1>2, <2>1, <2>4, <2>6, <2>7, <2>9, RemedyWorking
  <1> QED BY <1>3, <1>4 DEF Remedy!Claim

LEMMA RemedyBindKeeps ==
    ASSUME RemedyInvariant, NEW e \in Appliers, Remedy!Bind(e)
    PROVE RemedyInvariant'
  <1>1. PICK p \in Remedies : doing[e].plan = p
    BY RemedyTyped DEF Remedy!Bind
  <1>2. /\ RemedyAround /\ UNCHANGED <<kind, finding, file, row, touched>> /\ doing[e].at = "bind"
        /\ coord' = (IF coord = e THEN Nobody ELSE coord) /\ Nobody \notin Appliers
        /\ RemedyExecOK(e)
    BY RemedyAssumption DEF RemedyAround, RemedyInvariant, RemedyTypes, Remedy!Bind, Remedy!place
  <1>3. \A f \in Appliers : f # e /\ coord' = f => coord = f
    BY <1>2
  <1>4. CASE Remedy!Leaves(e) /\ UNCHANGED plan
    BY <1>2, <1>3, <1>4, RemedyQuitting, RemedyWalking
  <1>5. CASE /\ Remedy!Binds(e)
             /\ \/ Remedy!Leaves(e) /\ plan' = [plan EXCEPT ![p] = Remedy!Retired(p)]
                \/ Remedy!Goes(e, "look") /\ plan' = [plan EXCEPT ![p] = Remedy!Bound(p, e)]
    <2>1. coord = e /\ plan[p].state = "prepared" /\ \A f \in Appliers : coord' # f
      BY <1>1, <1>2, <1>5 DEF Remedy!Binds, RemedyExecOK
    <2>2. CASE Remedy!Leaves(e) /\ plan' = [plan EXCEPT ![p] = Remedy!Retired(p)]
      <3>1. RemedyMoves(e, "idle", Nobody, "none") /\ RemedyExecOK(e)'
        BY <2>2, RemedyQuitting
      <3>2. /\ RemedySets(p, Remedy!Retired(p)) /\ RemedyPlanOK(p)'
            /\ \A f \in Appliers : f # e => RemedyLeaving(p, f)
        BY <1>2, <2>1, <2>2, RemedyRetiring
      <3> QED BY <1>2, <2>1, <3>1, <3>2, RemedyWorking
    <2>3. CASE Remedy!Goes(e, "look") /\ plan' = [plan EXCEPT ![p] = Remedy!Bound(p, e)]
      <3>1. RemedyMoves(e, "look", p, doing[e].mode)
        BY <1>1, <2>3, RemedyGoing DEF RemedyPlaces
      <3>2. /\ RemedySets(p, Remedy!Bound(p, e)) /\ RemedyPlanOK(p)' /\ finding # "superseded"
            /\ \A f \in Appliers : f # e => RemedyLeaving(p, f)
        BY <1>2, <2>1, <2>3, RemedyBinding
      <3>3. plan'[p].state = "running"
        BY <3>2, RemedyTyped DEF RemedySets, Remedy!Bound, RemedyPlanRow
      <3>4. RemedyExecOK(e)'
        BY <1>2, <3>1, <3>2, <3>3 DEF RemedyMoves, RemedyExecOK, RemedyOwns
      <3> QED BY <1>2, <2>1, <3>1, <3>2, <3>4, RemedyWorking
    <2> QED BY <1>5, <2>2, <2>3
  <1> QED BY <1>1, <1>4, <1>5 DEF Remedy!Bind

\* What the steps of an executor that applies its plan share.
RemedyQuiet == UNCHANGED <<kind, file, coord, touched>>

RemedyAt(e, p) ==
    /\ doing[e].plan = p /\ plan[p] \in RemedyPlanRow /\ RemedyPlanOK(p) /\ RemedyExecOK(e)
    /\ doing[e].at \in RemedyPlaces \ {"idle", "bind"}
    /\ finding # "superseded" /\ plan[p].state \notin {"none", "prepared"}
    /\ plan[p].owner = e => plan[p].state \in {"running", "terminal_pending"} /\ RemedyOwns(e)

LEMMA RemedyBeing ==
    ASSUME RemedyInvariant, NEW e \in Appliers, doing[e].at \notin {"idle", "bind"}
    PROVE  \E p \in Remedies : RemedyAt(e, p)
  <1>1. PICK p \in Remedies : doing[e].plan = p
    BY RemedyTyped
  <1>2. RemedyPlanOK(p) /\ RemedyExecOK(e) /\ plan[p] \in RemedyPlanRow /\
            doing[e] \in RemedyExecRow
    BY RemedyTyped DEF RemedyInvariant
  <1>3. plan[p].owner = e => Remedy!Open(p)
    BY <1>2, RemedyAssumption DEF RemedyPlanOK, RemedyItemOK
  <1>4. RemedyAt(e, p)
    BY <1>1, <1>2, <1>3 DEF RemedyAt, RemedyExecOK, Remedy!Open, RemedyExecRow
  <1> QED BY <1>4

LEMMA RemedyQuietAround ==
    ASSUME RemedyInvariant, RemedyQuiet, row' \in {row, "deleted"},
           finding' = finding \/ (finding = "active" /\ finding' = "resolved")
    PROVE  RemedyAround /\ \A f \in Appliers : coord' = f => coord = f
  BY DEF RemedyAround, RemedyInvariant, RemedyTypes, RemedyQuiet

LEMMA RemedyLeavesKeeps ==
    ASSUME RemedyInvariant, NEW e \in Appliers, Remedy!Leaves(e),
           UNCHANGED <<plan, finding, row>>, RemedyQuiet
    PROVE  RemedyInvariant'
  BY RemedyQuitting, RemedyQuietAround, RemedyWalking

LEMMA RemedyRetryKeeps ==
    ASSUME RemedyInvariant, NEW e \in Appliers, NEW p \in Remedies, RemedyAt(e, p),
           doing' = [doing EXCEPT ![e].at = "look", ![e].mode = "last"],
           UNCHANGED <<plan, finding, row>>, RemedyQuiet
    PROVE  RemedyInvariant'
  <1>1. RemedyMoves(e, "look", p, "last")
    BY RemedyRetrying DEF RemedyAt
  <1>2. RemedyExecOK(e)'
    BY <1>1 DEF RemedyAt, RemedyMoves, RemedyExecOK, RemedyOwns
  <1> QED BY <1>1, <1>2, RemedyQuietAround, RemedyWalking

LEMMA RemedyFinishKeeps ==
    ASSUME RemedyInvariant, NEW e \in Appliers, NEW p \in Remedies, RemedyAt(e, p), RemedyQuiet,
           row' \in {row, "deleted"},
           NEW status \in {"completed", "blocked", "failed", "cancelled"},
               Remedy!Finish(e, status),
           status = "completed" =>
               plan[p].saved = "completed" \/ (kind = "missing" /\ row' = "deleted"),
           status # "completed" => ~Remedy!Pending(p)
    PROVE  RemedyInvariant'
  <1>1. RemedyMoves(e, "idle", Nobody, "none") /\ RemedyExecOK(e)'
    BY RemedyQuitting DEF Remedy!Finish
  <1>2. CASE UNCHANGED <<plan, finding>>
    BY <1>1, <1>2, RemedyQuietAround, RemedyWalking
  <1>3. CASE plan[p].owner = e /\ Remedy!Finished(p, status)
    <2> DEFINE j == [plan[p] EXCEPT !.state = status, !.item = status, !.op = status,
                                    !.owner = Nobody]
    <2>0. plan[p] \in RemedyPlanRow /\ RemedyPlanOK(p)
      BY DEF RemedyAt
    <2>9. status \in RemedyStates /\ status \in RemedyItems /\ status \in RemedyOps
      BY DEF RemedyStates, RemedyItems, RemedyOps, Remedy!Terminal
    <2>1. j \in RemedyPlanRow /\ plan[p] \in RemedyPlanRow /\ RemedyPlanOK(p)
      BY <2>0, <2>9 DEF RemedyPlanRow
    <2>2. plan' = [plan EXCEPT ![p] = j]
      BY <1>3 DEF Remedy!Finished, RemedyInvariant, RemedyTypes
    <2>3. RemedySets(p, j)
      BY <2>1, <2>2, RemedySetting
    <2>4. /\ plan'[p].state = status /\ plan'[p].item = status /\ plan'[p].op = status
          /\ plan'[p].owner = Nobody /\ plan'[p].saved = plan[p].saved
          /\ plan'[p].took = plan[p].took /\ plan'[p].quarantine = plan[p].quarantine
      BY <2>1, <2>3 DEF RemedySets, RemedyPlanRow
    <2>5. /\ RemedyAround /\ kind' = kind /\ file' = file /\ touched' = touched
          /\ finding' = (IF status = "completed" /\ finding = "active" THEN "resolved"
                         ELSE finding)
      BY <1>3, RemedyQuietAround DEF Remedy!Finished, RemedyQuiet
    <2>10. plan[p].state \in {"running", "terminal_pending"}
      BY <1>3 DEF RemedyAt
    <2>11. ASSUME status = "completed" PROVE plan[p].quarantine = "none"
      BY <2>1, <2>11 DEF RemedyPlanOK, RemedyItemOK, RemedyFileOK
    <2>12. ASSUME status # "completed"
           PROVE  plan[p].quarantine = "none" /\ plan[p].took = "none"
      <3>1. plan[p].item = "running"
        BY <2>1, <2>10, <2>12 DEF RemedyPlanOK, RemedyItemOK, Remedy!Pending, Remedy!PendingItem,
           RemedyOrphaned
      <3> QED BY <2>1, <3>1 DEF RemedyPlanOK, RemedyFileOK
    <2>6. plan[p].quarantine = "none" /\ (status # "completed" => plan[p].took = "none")
      BY <2>11, <2>12
    <2>7. RemedyPlanOK(p)'
      <3>1. RemedyItemOK(p)'
        BY <2>1, <2>4, <2>5, <2>6 DEF RemedyPlanOK, RemedyItemOK, Remedy!Open, RemedyOrphaned
      <3>2. RemedyFileOK(p)'
        BY <2>1, <2>4, <2>5, <2>6 DEF RemedyPlanOK, RemedyFileOK
      <3>3. RemedyRowOK(p)'
        BY <2>1, <2>4, <2>5, <2>6 DEF RemedyPlanOK, RemedyFileOK, RemedyRowOK
      <3> QED BY <3>1, <3>2, <3>3 DEF RemedyPlanOK
    <2>8. \A f \in Appliers : f # e => RemedyLeaving(p, f)
      BY <2>4, RemedyAssumption DEF RemedyLeaving, RemedyAt, RemedyQuiet
    <2> QED BY <1>1, <2>3, <2>5, <2>7, <2>8, RemedyWorking DEF RemedyQuiet
  <1> QED BY <1>2, <1>3 DEF Remedy!Finish, Remedy!Mine, RemedyAt

LEMMA RemedyRefuseKeeps ==
    ASSUME RemedyInvariant, NEW e \in Appliers, NEW p \in Remedies, RemedyAt(e, p), RemedyQuiet,
           UNCHANGED row,
           NEW status \in {"blocked", "failed"}, Remedy!Refuse(e, status)
    PROVE  RemedyInvariant'
  <1> USE DEF Remedy!Refuse, RemedyAt
  <1>1. CASE Remedy!Pending(p)
    BY <1>1, RemedyRetryKeeps, RemedyLeavesKeeps
  <1>2. CASE ~Remedy!Pending(p)
    BY <1>2, RemedyFinishKeeps, RemedyLeavesKeeps
  <1> QED BY <1>1, <1>2

LEMMA RemedyApplyKeeps ==
    ASSUME RemedyInvariant, NEW e \in Appliers, NEW p \in Remedies, RemedyAt(e, p), RemedyQuiet,
           Remedy!Apply(e),
           UNCHANGED <<plan, finding, row>>, plan[p].state = "running",
           plan[p].took = "none", plan[p].quarantine = "none",
           plan[p].item \in {"running", "physical_mutation_prepared", "quarantine_prepared"}
    PROVE  RemedyInvariant'
  <1>1. CASE Remedy!Leaves(e)
    BY <1>1, RemedyLeavesKeeps
  <1>2. CASE Remedy!Goes(e, "apply")
    <2>1. RemedyMoves(e, "apply", p, doing[e].mode)
      BY <1>2, RemedyGoing DEF RemedyPlaces, RemedyAt
    <2>2. RemedyExecOK(e)'
      BY <2>1 DEF RemedyAt, RemedyMoves, RemedyExecOK, RemedyOwns, RemedyQuiet
    <2> QED BY <2>1, <2>2, RemedyQuietAround, RemedyWalking
  <1> QED BY <1>1, <1>2 DEF Remedy!Apply

\* An executor goes on with its plan as it is.
LEMMA RemedyGoesKeeps ==
    ASSUME RemedyInvariant, NEW e \in Appliers, NEW p \in Remedies, RemedyAt(e, p), RemedyQuiet,
           row' \in {row, "deleted"},
           UNCHANGED <<plan, finding>>, NEW where \in RemedyPlaces \ {"bind"},
               Remedy!Goes(e, where),
           where = "finish" => plan[p].saved = "completed",
           where = "gone" => /\ plan[p].took = "it" /\ kind \in {"unusable", "orphan"}
                             /\ kind = "unusable" => row' = "deleted" \/ touched = TRUE,
           where \in {"idle", "look", "gone", "finish"}
    PROVE  RemedyInvariant'
  <1>1. RemedyMoves(e, where, p, doing[e].mode)
    BY RemedyGoing DEF RemedyAt
  <1>2. RemedyExecOK(e)'
    BY <1>1 DEF RemedyAt, RemedyMoves, RemedyExecOK, RemedyOwns, RemedyQuiet
  <1> QED BY <1>1, <1>2, RemedyQuietAround, RemedyWalking

\* The plan of an executor takes the row of a mutation that is done.
LEMMA RemedySavesKeeps ==
    ASSUME RemedyInvariant, NEW e \in Appliers, NEW p \in Remedies, RemedyAt(e, p), RemedyQuiet,
           row' \in {row, "deleted"},
           UNCHANGED finding, Remedy!Goes(e, "finish"), plan[p].state = "running",
           plan' = [plan EXCEPT ![p].state = "terminal_pending", ![p].saved = "completed",
                                ![p].item = "physical_mutation_committed"],
           plan[p].quarantine = "none", kind \in {"unusable", "orphan"},
           kind = "orphan" => plan[p].took = "it",
           kind = "unusable" => row' = "deleted" \/ touched = TRUE,
           kind = "unusable" => plan[p].took = "it" \/ file # "it"
    PROVE  RemedyInvariant'
  <1> DEFINE j == [plan[p] EXCEPT !.state = "terminal_pending", !.saved = "completed",
                                  !.item = "physical_mutation_committed"]
  <1>1. plan[p] \in RemedyPlanRow /\ RemedyPlanOK(p) /\ finding # "superseded"
    BY DEF RemedyAt
  <1>2. "terminal_pending" \in RemedyStates /\ "physical_mutation_committed" \in RemedyItems
    BY DEF RemedyStates, RemedyItems, Remedy!PendingItem
  <1>3. j \in RemedyPlanRow
    BY <1>1, <1>2 DEF RemedyPlanRow
  <1>4. plan' = [plan EXCEPT ![p] = j]
    BY DEF RemedyInvariant, RemedyTypes
  <1>5. RemedySets(p, j)
    BY <1>3, <1>4, RemedySetting
  <1>6. /\ plan'[p].state = "terminal_pending" /\ plan'[p].saved = "completed"
        /\ plan'[p].item = "physical_mutation_committed"
        /\ plan'[p].owner = plan[p].owner /\ plan'[p].took = plan[p].took
        /\ plan'[p].quarantine = "none"
    BY <1>1, <1>5 DEF RemedySets, RemedyPlanRow
  <1>7. RemedyAround /\ kind' = kind /\ file' = file /\ touched' = touched /\ coord' = coord
    BY RemedyQuietAround DEF RemedyQuiet
  <1>8. RemedyMoves(e, "finish", p, doing[e].mode)
    BY RemedyGoing DEF RemedyAt, RemedyPlaces
  <1>9. RemedyPlanOK(p)'
    <2>1. RemedyItemOK(p)'
      BY <1>1, <1>6, <1>7 DEF RemedyPlanOK, RemedyItemOK, Remedy!Open, RemedyOrphaned
    <2>2. RemedyFileOK(p)'
      BY <1>1, <1>6, <1>7 DEF RemedyPlanOK, RemedyFileOK
    <2>3. RemedyRowOK(p)'
      BY <1>1, <1>6, <1>7 DEF RemedyPlanOK, RemedyRowOK, Remedy!Terminal
    <2> QED BY <2>1, <2>2, <2>3 DEF RemedyPlanOK
  <1>10. RemedyExecOK(e)'
    BY <1>1, <1>6, <1>7, <1>8 DEF RemedyExecOK, RemedyOwns, RemedyMoves
  <1>11. ASSUME NEW f \in Appliers, f # e, doing[f].at # "idle", doing[f].plan = p
         PROVE  RemedyExecOK(f)'
    <2>1. RemedyExecOK(f) /\ doing'[f] = doing[f]
      BY <1>8, <1>11 DEF RemedyInvariant, RemedyMoves
    <2>2. plan[p].owner = f => RemedyOwns(f)'
      BY <1>1, <1>6, <1>7, <1>11, <2>1 DEF RemedyExecOK, RemedyOwns, RemedyPlanOK, RemedyFileOK
    <2> QED BY <1>1, <1>6, <1>7, <1>11, <2>1, <2>2 DEF RemedyExecOK
  <1>12. \A f \in Appliers : f # e /\ doing[f].at # "idle" /\ doing[f].plan = p
             => RemedyLeaving(p, f) \/ RemedyExecOK(f)'
    BY <1>11
  <1>13. /\ doing' \in [Appliers -> RemedyExecRow] /\ plan' \in [Remedies -> RemedyPlanRow]
         /\ \A q \in Remedies : q # p => plan'[q] = plan[q]
         /\ \A f \in Appliers : f # e => doing'[f] = doing[f]
    BY <1>5, <1>8 DEF RemedySets, RemedyMoves
  <1> QED BY <1>7, <1>9, <1>10, <1>12, <1>13, RemedyStepping

\* The owner of a plan gives its item another state and goes on.
LEMMA RemedyItemizeKeeps ==
    ASSUME RemedyInvariant, NEW e \in Appliers, NEW p \in Remedies, RemedyAt(e, p), RemedyQuiet,
           UNCHANGED <<finding, row>>,
           plan[p].owner = e, plan[p].state = "running",
           NEW step \in {"physical_mutation_prepared", "quarantine_prepared", "quarantined",
                         "delete_committing"},
           NEW where \in {"delete", "rename", "commit", "unlink"},
           plan' = [plan EXCEPT ![p].item = step], Remedy!Goes(e, where),
           IF where \in {"delete", "rename"}
           THEN /\ plan[p].took = "none" /\ plan[p].quarantine = "none"
                /\ where = "delete" => kind = "unusable" /\ step = "physical_mutation_prepared"
                /\ where = "rename" => kind = "orphan" /\ step = "quarantine_prepared"
           ELSE /\ plan[p].quarantine = "it" /\ step \in {"quarantined", "delete_committing"}
    PROVE  RemedyInvariant'
  <1> DEFINE j == [plan[p] EXCEPT !.item = step]
  <1>1. plan[p] \in RemedyPlanRow /\ RemedyPlanOK(p) /\ finding # "superseded"
    BY DEF RemedyAt
  <1>2. step \in RemedyItems
    BY DEF RemedyItems, Remedy!PendingItem
  <1>3. RemedySets(p, j)
    BY <1>2, RemedyItemizing
  <1>4. /\ plan'[p].state = "running" /\ plan'[p].saved = plan[p].saved
        /\ plan'[p].item = step /\ plan'[p].owner = e
        /\ plan'[p].took = plan[p].took /\ plan'[p].quarantine = plan[p].quarantine
    BY <1>1, <1>3 DEF RemedySets, RemedyPlanRow
  <1>5. RemedyAround /\ kind' = kind /\ file' = file /\ touched' = touched /\ coord' = coord
    BY RemedyQuietAround DEF RemedyQuiet
  <1>6. RemedyMoves(e, where, p, doing[e].mode)
    BY RemedyGoing DEF RemedyAt, RemedyPlaces
  <1>7. kind = "orphan" \/ where = "delete"
    BY <1>1 DEF RemedyPlanOK, RemedyItemOK
  <1>8. plan[p].quarantine = "it" => plan[p].took = "none"
    BY <1>1 DEF RemedyPlanOK, RemedyFileOK
  <1>9. RemedyPlanOK(p)'
    <2>1. RemedyItemOK(p)'
      BY <1>1, <1>4, <1>5, <1>7 DEF RemedyPlanOK, RemedyItemOK, Remedy!Open, RemedyOrphaned
    <2>2. RemedyFileOK(p)'
      BY <1>1, <1>4, <1>5, <1>8 DEF RemedyPlanOK, RemedyFileOK
    <2>3. RemedyRowOK(p)'
      BY <1>1, <1>4, <1>5, <1>8 DEF RemedyPlanOK, RemedyRowOK, Remedy!Terminal, Remedy!Pending,
         Remedy!PendingItem
    <2> QED BY <2>1, <2>2, <2>3 DEF RemedyPlanOK
  <1>10. RemedyOwns(e)'
    BY <1>4, <1>5, <1>6, <1>8 DEF RemedyOwns, RemedyMoves
  <1>11. RemedyExecOK(e)'
    BY <1>1, <1>4, <1>5, <1>6, <1>7, <1>10 DEF RemedyExecOK, RemedyMoves
  <1>12. \A f \in Appliers : f # e => RemedyLeaving(p, f)
    BY <1>4, <1>5 DEF RemedyLeaving
  <1> QED BY <1>3, <1>5, <1>6, <1>9, <1>11, <1>12, RemedyWorking

LEMMA RemedyLookKeeps ==
    ASSUME RemedyInvariant, NEW e \in Appliers, Remedy!Look(e)
    PROVE RemedyInvariant'
  <1>1. PICK p \in Remedies : RemedyAt(e, p)
    BY RemedyBeing DEF Remedy!Look, Remedy!Here
  <1>2. doing[e].plan = p /\ RemedyPlanOK(p) /\ RemedyQuiet /\ doing[e].at = "look" /\
            plan[p] \in RemedyPlanRow
    BY <1>1 DEF RemedyAt, Remedy!Look, Remedy!Here, RemedyQuiet
  <1>3. CASE plan[p].state = "terminal_pending" /\ Remedy!Goes(e, "finish")
             /\ UNCHANGED <<plan, finding, row>>
    <2>1. plan[p].saved = "completed"
      BY <1>2, <1>3 DEF RemedyPlanOK, RemedyItemOK
    <2>2. "finish" \in RemedyPlaces \ {"bind"}
      BY DEF RemedyPlaces
    <2> QED BY <1>1, <1>2, <1>3, <2>1, <2>2, RemedyGoesKeeps
  <1>4. CASE Remedy!Leaves(e) /\ UNCHANGED <<plan, finding, row>>
    BY <1>2, <1>4, RemedyLeavesKeeps
  <1>5. CASE Remedy!Refuse(e, "blocked") /\ UNCHANGED row
    BY <1>1, <1>2, <1>5, RemedyRefuseKeeps
  <1>6. CASE plan[p].state = "running" /\ plan[p].item = "physical_mutation_prepared"
             /\ Remedy!RecoverUnusable(e)
    <2>1. kind = "unusable" /\ plan[p].quarantine = "none"
      BY <1>2, <1>6 DEF RemedyPlanOK, RemedyItemOK
    <2>2. CASE file = "none"
      <3>1. /\ row' = "deleted" /\ Remedy!Goes(e, "finish") /\ UNCHANGED finding
            /\ plan' = [plan EXCEPT ![p].state = "terminal_pending", ![p].saved = "completed",
                                    ![p].item = "physical_mutation_committed"]
        BY <1>2, <1>6, <2>2 DEF Remedy!RecoverUnusable
      <3> QED BY <1>1, <1>2, <1>6, <2>1, <2>2, <3>1, RemedySavesKeeps
    <2>3. CASE file = "it" /\ Remedy!Apply(e) /\ UNCHANGED <<plan, finding, row>>
      <3>1. plan[p].took = "none"
        BY <1>2, <2>3 DEF RemedyPlanOK, RemedyFileOK
      <3> QED BY <1>1, <1>2, <1>6, <2>1, <2>3, <3>1, RemedyApplyKeeps
    <2>4. CASE Remedy!Refuse(e, "blocked") /\ UNCHANGED row
      BY <1>1, <1>2, <2>4, RemedyRefuseKeeps
    <2> QED BY <1>2, <1>6, <2>2, <2>3, <2>4 DEF Remedy!RecoverUnusable
  <1>7. CASE plan[p].state = "running" /\ plan[p].item \in RemedyOrphaned /\
                 Remedy!RecoverOrphan(e)
    <2>1. kind = "orphan"
      BY <1>2, <1>7 DEF RemedyPlanOK, RemedyItemOK
    <2>2. CASE Remedy!Leaves(e) /\ UNCHANGED <<plan, finding, row>>
      BY <1>2, <2>2, RemedyLeavesKeeps
    <2>3. CASE Remedy!Refuse(e, "blocked") /\ UNCHANGED row
      BY <1>1, <1>2, <2>3, RemedyRefuseKeeps
    <2>4. CASE /\ plan[p].owner = e /\ plan[p].quarantine = "it" /\ Remedy!Goes(e, "commit")
               /\ UNCHANGED <<finding, row>>
               /\ plan' = [plan EXCEPT ![p].item =
                      IF @ = "delete_committing" THEN @ ELSE "quarantined"]
      <3> DEFINE step == IF plan[p].item = "delete_committing" THEN "delete_committing"
                         ELSE "quarantined"
      <3>1. /\ step \in {"physical_mutation_prepared", "quarantine_prepared", "quarantined",
                         "delete_committing"}
            /\ step \in {"quarantined", "delete_committing"}
        OBVIOUS
      <3>2. plan' = [plan EXCEPT ![p].item = step]
        BY <2>4 DEF RemedyInvariant, RemedyTypes
      <3> HIDE DEF step
      <3> QED BY <1>1, <1>2, <1>7, <2>4, <3>1, <3>2, RemedyItemizeKeeps
    <2>5. CASE /\ plan[p].quarantine = "none" /\ plan[p].item = "delete_committing"
               /\ Remedy!Goes(e, "gone") /\ UNCHANGED <<plan, finding, row>>
      <3>1. plan[p].took = "it" /\ "gone" \in RemedyPlaces \ {"bind"}
        BY <1>2, <2>5 DEF RemedyPlanOK, RemedyFileOK, RemedyPlaces
      <3> QED BY <1>1, <1>2, <2>1, <2>5, <3>1, RemedyGoesKeeps
    <2>6. CASE /\ plan[p].quarantine = "none" /\ plan[p].item = "quarantine_prepared"
               /\ Remedy!Apply(e) /\ UNCHANGED <<plan, finding, row>>
      <3>1. plan[p].took = "none"
        BY <1>2, <1>7, <2>6 DEF RemedyPlanOK, RemedyFileOK, RemedyPlanRow
      <3> QED BY <1>1, <1>2, <1>7, <2>6, <3>1, RemedyApplyKeeps
    <2>7. UNCHANGED row
      BY <1>7 DEF Remedy!RecoverOrphan
    <2> QED BY <1>2, <1>7, <2>2, <2>3, <2>4, <2>5, <2>6, <2>7
            DEF Remedy!RecoverOrphan, Remedy!Matches, Remedy!Mine
  <1>8. CASE /\ plan[p].state = "running" /\ Remedy!Unpend(e)
             /\ plan[p].item \notin RemedyOrphaned \cup {"physical_mutation_prepared"}
    <2>1. plan[p].item = "running"
      BY <1>2, <1>8 DEF RemedyPlanOK, RemedyItemOK
    <2>2. plan[p].took = "none" /\ plan[p].quarantine = "none"
      BY <1>2, <2>1 DEF RemedyPlanOK, RemedyFileOK
    <2>3. CASE Remedy!Finish(e, "cancelled") /\ UNCHANGED row
      <3>1. ~Remedy!Pending(p)
        BY <2>1 DEF Remedy!Pending, Remedy!PendingItem
      <3> QED BY <1>1, <1>2, <2>3, <3>1, RemedyFinishKeeps
    <2>4. CASE Remedy!Apply(e) /\ UNCHANGED <<plan, finding, row>>
      BY <1>1, <1>2, <1>8, <2>1, <2>2, <2>4, RemedyApplyKeeps
    <2> QED BY <1>8, <2>3, <2>4 DEF Remedy!Unpend
  <1> QED BY <1>2, <1>3, <1>4, <1>5, <1>6, <1>7, <1>8 DEF Remedy!Look, RemedyOrphaned

LEMMA RemedyMutateKeeps ==
    ASSUME RemedyInvariant, NEW e \in Appliers, Remedy!Mutate(e)
    PROVE RemedyInvariant'
  <1>1. PICK p \in Remedies : RemedyAt(e, p)
    BY RemedyBeing DEF Remedy!Mutate, Remedy!Here
  <1>2. doing[e].plan = p /\ RemedyPlanOK(p) /\ RemedyQuiet /\ doing[e].at = "apply" /\
            plan[p] \in RemedyPlanRow
    BY <1>1 DEF RemedyAt, Remedy!Mutate, Remedy!Here, RemedyQuiet
  <1>3. CASE Remedy!Refuse(e, "blocked") /\ UNCHANGED row
    BY <1>1, <1>2, <1>3, RemedyRefuseKeeps
  <1>4. CASE Remedy!Leaves(e) /\ UNCHANGED <<plan, finding, row>>
    BY <1>2, <1>4, RemedyLeavesKeeps
  <1>5. CASE kind = "missing" /\ Remedy!ApplyMissing(e)
    BY <1>1, <1>2, <1>5, RemedyFinishKeeps DEF Remedy!ApplyMissing
  <1>6. CASE kind = "unusable" /\ plan[p].owner = e /\ file = "it" /\ Remedy!ApplyUnusable(e)
    <2>1. /\ plan[p].state = "running" /\ plan[p].took = "none"
          /\ plan[p].quarantine = "none"
      BY <1>1, <1>2, <1>6 DEF RemedyAt, RemedyOwns
    <2> QED BY <1>1, <1>2, <1>6, <2>1, RemedyItemizeKeeps DEF Remedy!ApplyUnusable
  <1>7. CASE kind = "orphan" /\ plan[p].owner = e /\ Remedy!ApplyOrphan(e)
    <2>1. /\ plan[p].state = "running" /\ plan[p].took = "none"
          /\ plan[p].quarantine = "none"
      BY <1>1, <1>2, <1>7 DEF RemedyAt, RemedyOwns
    <2>2. CASE Remedy!Refuse(e, "blocked")
      BY <1>3, <1>7, <2>2 DEF Remedy!ApplyOrphan
    <2>3. CASE /\ plan' = [plan EXCEPT ![p].item = "quarantine_prepared"]
               /\ Remedy!Goes(e, "rename") /\ UNCHANGED <<finding, row>>
      BY <1>1, <1>2, <1>7, <2>1, <2>3, RemedyItemizeKeeps
    <2> QED BY <1>2, <1>7, <2>2, <2>3 DEF Remedy!ApplyOrphan
  <1>8. \/ Remedy!Refuse(e, "blocked") /\ UNCHANGED row
        \/ Remedy!Leaves(e) /\ UNCHANGED <<plan, finding, row>>
        \/ kind = "missing" /\ Remedy!ApplyMissing(e)
        \/ kind = "unusable" /\ plan[p].owner = e /\ file = "it" /\ Remedy!ApplyUnusable(e)
        \/ kind = "orphan" /\ plan[p].owner = e /\ Remedy!ApplyOrphan(e)
    BY <1>2 DEF Remedy!Mutate, Remedy!Valid, Remedy!Mine, RemedyInvariant, RemedyTypes,
       Remedy!Kinds
  <1> QED BY <1>3, <1>4, <1>5, <1>6, <1>7, <1>8

\* A step of an executor that takes the file away or puts it back.
LEMMA RemedyFilesKeep ==
    ASSUME RemedyInvariant, NEW e \in Appliers, NEW p \in Remedies, RemedyAt(e, p),
           UNCHANGED <<kind, finding, row, coord, touched>>,
           NEW q \in RemedyFiles, NEW t \in {"none", "it"},
           plan' = [plan EXCEPT ![p] = [plan[p] EXCEPT !.quarantine = q, !.took = t]],
           file' \in RemedyFiles, file' = "it" => file = "it",
           plan[p].took = "it" => t = "it", plan[p].state = "running",
           RemedyFileOK(p)', kind = "orphan" \/ q = "none",
           NEW where, NEW mode, RemedyMoves(e, where, p, mode) \/
               RemedyMoves(e, "idle", Nobody, "none"),
           RemedyExecOK(e)',
           \/ plan[p].owner = e
           \/ plan[p].quarantine = "other" /\ q = "none" /\ t = plan[p].took
    PROVE  RemedyInvariant'
  <1> DEFINE j == [plan[p] EXCEPT !.quarantine = q, !.took = t]
  <1>1. plan[p] \in RemedyPlanRow /\ RemedyPlanOK(p) /\ finding # "superseded"
    BY DEF RemedyAt
  <1>2. j \in RemedyPlanRow
    BY <1>1 DEF RemedyPlanRow
  <1>3. RemedySets(p, j)
    BY <1>2, RemedySetting
  <1>4. /\ plan'[p].state = "running" /\ plan'[p].saved = plan[p].saved
        /\ plan'[p].item = plan[p].item /\ plan'[p].owner = plan[p].owner
        /\ plan'[p].took = t /\ plan'[p].quarantine = q /\ plan'[p].op = plan[p].op
    BY <1>1, <1>3 DEF RemedySets, RemedyPlanRow
  <1>5. RemedyAround
    BY DEF RemedyAround, RemedyInvariant, RemedyTypes
  <1>6. RemedyPlanOK(p)'
    <2>1. RemedyItemOK(p)'
      BY <1>1, <1>4 DEF RemedyPlanOK, RemedyItemOK, Remedy!Open
    <2>2. plan[p].item \in {"running"} \cup Remedy!PendingItem
      BY <1>1 DEF RemedyPlanOK, RemedyItemOK, Remedy!PendingItem, RemedyOrphaned
    <2>3. q # "none" => plan[p].item \in Remedy!PendingItem
      BY <1>4, <2>2 DEF RemedyFileOK
    <2>4. RemedyRowOK(p)'
      BY <1>1, <1>4, <2>3 DEF RemedyPlanOK, RemedyRowOK, Remedy!Terminal, Remedy!Pending
    <2> QED BY <2>1, <2>4 DEF RemedyPlanOK
  <1>7. ASSUME NEW f \in Appliers, f # e, doing[f].at # "idle", doing[f].plan = p
        PROVE  RemedyLeaving(p, f) \/ RemedyExecOK(f)'
    <2>1. CASE plan[p].owner = e
      BY <1>4, <1>7, <2>1 DEF RemedyLeaving
    <2>2. CASE plan[p].quarantine = "other" /\ q = "none" /\ t = plan[p].took
      <3>1. RemedyExecOK(f) /\ doing'[f] = doing[f]
        BY <1>7 DEF RemedyInvariant, RemedyMoves
      <3>2. plan[p].owner = f => RemedyOwns(f)'
        BY <1>1, <1>4, <1>7, <2>2, <3>1 DEF RemedyExecOK, RemedyOwns
      <3> QED BY <1>1, <1>4, <1>7, <2>2, <3>1, <3>2 DEF RemedyExecOK
    <2> QED BY <2>1, <2>2
  <1>8. /\ doing' \in [Appliers -> RemedyExecRow] /\ plan' \in [Remedies -> RemedyPlanRow]
        /\ \A r \in Remedies : r # p => plan'[r] = plan[r]
        /\ \A f \in Appliers : f # e => doing'[f] = doing[f]
    BY <1>3 DEF RemedySets, RemedyMoves
  <1>9. \A f \in Appliers : f # e /\ doing[f].at # "idle" /\ doing[f].plan = p
            => RemedyLeaving(p, f) \/ RemedyExecOK(f)'
    BY <1>7
  <1> QED BY <1>5, <1>6, <1>8, <1>9, RemedyStepping

\* The row of a plan after what an executor did with the file.
LEMMA RemedyFiling ==
    ASSUME RemedyInvariant, NEW p \in Remedies, NEW q \in RemedyFiles, NEW t \in {"none", "it"},
           plan' = [plan EXCEPT ![p] = [plan[p] EXCEPT !.quarantine = q, !.took = t]]
    PROVE  /\ plan'[p].state = plan[p].state /\ plan'[p].saved = plan[p].saved
           /\ plan'[p].item = plan[p].item /\ plan'[p].owner = plan[p].owner
           /\ plan'[p].took = t /\ plan'[p].quarantine = q
  <1>1. plan[p] \in RemedyPlanRow
    BY RemedyTyped
  <1>2. [plan[p] EXCEPT !.quarantine = q, !.took = t] \in RemedyPlanRow
    BY <1>1 DEF RemedyPlanRow
  <1>3. RemedySets(p, [plan[p] EXCEPT !.quarantine = q, !.took = t])
    BY <1>2, RemedySetting
  <1> QED BY <1>1, <1>3 DEF RemedySets, RemedyPlanRow

LEMMA RemedyDeleteKeeps ==
    ASSUME RemedyInvariant, NEW e \in Appliers, Remedy!Delete(e)
    PROVE RemedyInvariant'
  <1>1. PICK p \in Remedies : RemedyAt(e, p)
    BY RemedyBeing DEF Remedy!Delete, Remedy!Here
  <1>2. /\ doing[e].plan = p /\ RemedyPlanOK(p) /\ doing[e].at = "delete"
        /\ plan[p] \in RemedyPlanRow
        /\ RemedyExecOK(e) /\ UNCHANGED <<kind, row, coord, touched>>
    BY <1>1 DEF RemedyAt, Remedy!Delete, Remedy!Here
  <1>3. CASE Remedy!Refuse(e, "blocked") /\ UNCHANGED file
    BY <1>1, <1>2, <1>3, RemedyRefuseKeeps DEF RemedyQuiet
  <1>4. CASE Remedy!Leaves(e) /\ UNCHANGED <<plan, finding, file>>
    BY <1>2, <1>4, RemedyLeavesKeeps DEF RemedyQuiet
  <1>5. CASE /\ plan[p].owner = e /\ Remedy!Valid
             /\ plan' = [plan EXCEPT ![p].took = file] /\ file' = "none"
             /\ Remedy!Goes(e, "deleted") /\ UNCHANGED finding
    <2>1. kind = "unusable" /\ file = "it"
      BY <1>2, <1>5 DEF RemedyExecOK, Remedy!Valid
    <2>2. /\ plan[p].state = "running" /\ plan[p].quarantine = "none"
          /\ plan[p].item = "physical_mutation_prepared"
      BY <1>1, <1>2, <1>5, <2>1 DEF RemedyAt, RemedyOwns
    <2>3. [plan[p] EXCEPT !.took = file]
              = [plan[p] EXCEPT !.quarantine = "none", !.took = "it"]
      BY <1>2, <2>1, <2>2 DEF RemedyPlanRow
    <2>4. plan' = [plan EXCEPT ![p] = [plan[p] EXCEPT !.quarantine = "none", !.took = "it"]]
      BY <1>5, <2>3 DEF RemedyInvariant, RemedyTypes
    <2>5. "none" \in RemedyFiles /\ "it" \in {"none", "it"}
      BY DEF RemedyFiles
    <2>6. /\ plan'[p].state = plan[p].state /\ plan'[p].saved = plan[p].saved
          /\ plan'[p].item = plan[p].item /\ plan'[p].owner = plan[p].owner
          /\ plan'[p].took = "it" /\ plan'[p].quarantine = "none"
      BY <2>4, <2>5, RemedyFiling
    <2>7. RemedyMoves(e, "deleted", p, doing[e].mode)
      BY <1>2, <1>5, RemedyGoing DEF RemedyPlaces
    <2>8. RemedyFileOK(p)'
      BY <1>2, <1>5, <2>1, <2>2, <2>6 DEF RemedyPlanOK, RemedyFileOK
    <2>9. RemedyExecOK(e)'
      BY <1>1, <1>2, <1>5, <2>1, <2>2, <2>6, <2>7 DEF RemedyExecOK, RemedyOwns, RemedyMoves,
         RemedyAt
    <2> QED BY <1>1, <1>2, <1>5, <2>2, <2>4, <2>5, <2>7, <2>8, <2>9, RemedyFilesKeep
  <1> QED BY <1>2, <1>3, <1>4, <1>5 DEF Remedy!Delete, Remedy!Mine

LEMMA RemedyDeletedKeeps ==
    ASSUME RemedyInvariant, NEW e \in Appliers, Remedy!Deleted(e)
    PROVE RemedyInvariant'
  <1>1. PICK p \in Remedies : RemedyAt(e, p)
    BY RemedyBeing DEF Remedy!Deleted, Remedy!Here
  <1>2. /\ doing[e].plan = p /\ RemedyQuiet /\ doing[e].at = "deleted" /\ RemedyExecOK(e)
        /\ Remedy!Goes(e, "gone") /\ row' = "deleted" /\ UNCHANGED <<plan, finding>>
    BY <1>1 DEF RemedyAt, Remedy!Deleted, Remedy!Here, RemedyQuiet
  <1>3. plan[p].took = "it" /\ kind = "unusable" /\ "gone" \in RemedyPlaces \ {"bind"}
    BY <1>2 DEF RemedyExecOK, RemedyPlaces
  <1> QED BY <1>1, <1>2, <1>3, RemedyGoesKeeps

LEMMA RemedyRenameKeeps ==
    ASSUME RemedyInvariant, NEW e \in Appliers, Remedy!Rename(e)
    PROVE RemedyInvariant'
  <1>1. PICK p \in Remedies : RemedyAt(e, p)
    BY RemedyBeing DEF Remedy!Rename, Remedy!Here
  <1>2. /\ doing[e].plan = p /\ RemedyPlanOK(p) /\ doing[e].at = "rename"
        /\ plan[p] \in RemedyPlanRow
        /\ RemedyExecOK(e) /\ UNCHANGED <<kind, row, coord, touched>>
    BY <1>1 DEF RemedyAt, Remedy!Rename, Remedy!Here
  <1>3. CASE Remedy!Refuse(e, "blocked") /\ UNCHANGED file
    BY <1>1, <1>2, <1>3, RemedyRefuseKeeps DEF RemedyQuiet
  <1>4. CASE Remedy!Leaves(e) /\ UNCHANGED <<plan, finding, file>>
    BY <1>2, <1>4, RemedyLeavesKeeps DEF RemedyQuiet
  <1>5. CASE /\ plan[p].owner = e
             /\ plan' = [plan EXCEPT ![p].quarantine = file] /\ file' = "none"
             /\ Remedy!Goes(e, "compare") /\ UNCHANGED finding
    <2>1. kind = "orphan" /\ file \in RemedyFiles /\ "none" \in {"none", "it"} /\
              "none" \in RemedyFiles
      BY <1>2 DEF RemedyExecOK, RemedyInvariant, RemedyTypes, RemedyFiles
    <2>2. /\ plan[p].state = "running" /\ plan[p].took = "none"
          /\ plan[p].item = "quarantine_prepared"
      BY <1>1, <1>2, <1>5 DEF RemedyAt, RemedyOwns
    <2>3. [plan[p] EXCEPT !.quarantine = file]
              = [plan[p] EXCEPT !.quarantine = file, !.took = "none"]
      BY <1>2, <2>2 DEF RemedyPlanRow
    <2>4. plan' = [plan EXCEPT ![p] = [plan[p] EXCEPT !.quarantine = file, !.took = "none"]]
      BY <1>5, <2>3 DEF RemedyInvariant, RemedyTypes
    <2>6. /\ plan'[p].state = plan[p].state /\ plan'[p].saved = plan[p].saved
          /\ plan'[p].item = plan[p].item /\ plan'[p].owner = plan[p].owner
          /\ plan'[p].took = "none" /\ plan'[p].quarantine = file
      BY <2>1, <2>4, RemedyFiling
    <2>7. RemedyMoves(e, "compare", p, doing[e].mode)
      BY <1>2, <1>5, RemedyGoing DEF RemedyPlaces
    <2>8. RemedyFileOK(p)'
      BY <1>2, <1>5, <2>1, <2>2, <2>6 DEF RemedyPlanOK, RemedyFileOK
    <2>9. RemedyExecOK(e)'
      BY <1>1, <1>2, <1>5, <2>1, <2>2, <2>6, <2>7 DEF RemedyExecOK, RemedyOwns, RemedyMoves,
         RemedyAt
    <2> QED BY <1>1, <1>2, <1>5, <2>1, <2>2, <2>4, <2>7, <2>8, <2>9, RemedyFilesKeep
  <1> QED BY <1>2, <1>3, <1>4, <1>5 DEF Remedy!Rename, Remedy!Mine

LEMMA RemedyCompareKeeps ==
    ASSUME RemedyInvariant, NEW e \in Appliers, Remedy!Compare(e)
    PROVE RemedyInvariant'
  <1>1. PICK p \in Remedies : RemedyAt(e, p)
    BY RemedyBeing DEF Remedy!Compare, Remedy!Here
  <1>2. /\ doing[e].plan = p /\ RemedyPlanOK(p) /\ doing[e].at = "compare"
        /\ plan[p] \in RemedyPlanRow
        /\ RemedyExecOK(e) /\ UNCHANGED <<kind, row, coord, touched, finding>> /\ kind = "orphan"
        /\ finding # "superseded"
    BY <1>1 DEF RemedyAt, Remedy!Compare, Remedy!Here, Remedy!Matches, RemedyExecOK
  <1>3. CASE /\ plan[p].quarantine = "it" /\ Remedy!Goes(e, "commit") /\ UNCHANGED file
             /\ plan' = [plan EXCEPT ![p].item = "quarantined"]
    <2>1. plan[p].state = "running" /\ Remedy!Pending(p) /\ plan[p].took = "none"
      BY <1>2, <1>3 DEF RemedyPlanOK, RemedyRowOK, RemedyFileOK
    <2>2. "quarantined" \in RemedyItems /\ "commit" \in RemedyPlaces
      BY DEF RemedyItems, Remedy!PendingItem, RemedyPlaces
    <2>3. RemedySets(p, [plan[p] EXCEPT !.item = "quarantined"])
      BY <1>3, <2>2, RemedyItemizing
    <2>4. /\ plan'[p].state = "running" /\ plan'[p].saved = plan[p].saved
          /\ plan'[p].item = "quarantined" /\ plan'[p].owner = plan[p].owner
          /\ plan'[p].took = "none" /\ plan'[p].quarantine = "it"
      BY <1>2, <1>3, <2>1, <2>3 DEF RemedySets, RemedyPlanRow
    <2>5. RemedyMoves(e, "commit", p, doing[e].mode)
      BY <1>2, <1>3, <2>2, RemedyGoing
    <2>6. RemedyAround
      BY <1>2, <1>3 DEF RemedyAround, RemedyInvariant, RemedyTypes
    <2>7. RemedyPlanOK(p)'
      <3>1. RemedyItemOK(p)'
        BY <1>2, <2>4 DEF RemedyPlanOK, RemedyItemOK, Remedy!Open, RemedyOrphaned
      <3>2. RemedyFileOK(p)'
        BY <1>2, <1>3, <2>4 DEF RemedyPlanOK, RemedyFileOK
      <3>3. RemedyRowOK(p)'
        BY <1>2, <2>4 DEF RemedyRowOK, Remedy!Pending, Remedy!PendingItem, Remedy!Terminal
      <3> QED BY <3>1, <3>2, <3>3 DEF RemedyPlanOK
    <2>8. RemedyExecOK(e)'
      BY <1>1, <1>2, <2>4, <2>5 DEF RemedyExecOK, RemedyOwns, RemedyMoves, RemedyAt
    <2>9. ASSUME NEW f \in Appliers, f # e, doing[f].at # "idle", doing[f].plan = p
          PROVE  RemedyExecOK(f)'
      <3>1. RemedyExecOK(f) /\ doing'[f] = doing[f]
        BY <2>5, <2>9 DEF RemedyInvariant, RemedyMoves
      <3>2. plan[p].owner = f => RemedyOwns(f)'
        BY <1>2, <1>3, <2>4, <2>9, <3>1 DEF RemedyExecOK, RemedyOwns
      <3> QED BY <1>2, <1>3, <2>1, <2>4, <2>9, <3>1, <3>2 DEF RemedyExecOK
    <2>10. \A f \in Appliers : f # e /\ doing[f].at # "idle" /\ doing[f].plan = p
               => RemedyLeaving(p, f) \/ RemedyExecOK(f)'
      BY <2>9
    <2>11. /\ doing' \in [Appliers -> RemedyExecRow] /\ plan' \in [Remedies -> RemedyPlanRow]
           /\ \A r \in Remedies : r # p => plan'[r] = plan[r]
           /\ \A f \in Appliers : f # e => doing'[f] = doing[f]
      BY <2>3, <2>5 DEF RemedySets, RemedyMoves
    <2> QED BY <1>2, <2>6, <2>7, <2>8, <2>10, <2>11, RemedyStepping
  <1>4. CASE /\ plan[p].quarantine # "it" /\ file' = plan[p].quarantine
             /\ plan' = [plan EXCEPT ![p].quarantine = "none"]
             /\ \/ doing' = [doing EXCEPT ![e].at = "look", ![e].mode = "last"] \/ Remedy!Leaves(e)
    <2>1. CASE plan[p].quarantine = "none"
      <3>1. plan' = plan
        BY <1>2, <1>4, <2>1 DEF RemedyInvariant, RemedyTypes, RemedyPlanRow
      <3>2. RemedyAround
        BY <1>2, <1>4, <2>1 DEF RemedyAround, RemedyInvariant, RemedyTypes, RemedyFiles
      <3>3. CASE Remedy!Leaves(e)
        BY <1>2, <3>1, <3>2, <3>3, RemedyQuitting, RemedyWalking
      <3>4. CASE doing' = [doing EXCEPT ![e].at = "look", ![e].mode = "last"]
        <4>1. RemedyMoves(e, "look", p, "last")
          BY <1>2, <3>4, RemedyRetrying
        <4>2. RemedyExecOK(e)'
          BY <1>1, <1>2, <3>1, <4>1 DEF RemedyAt, RemedyMoves, RemedyExecOK, RemedyOwns
        <4> QED BY <1>2, <3>1, <3>2, <4>1, <4>2, RemedyWalking
      <3> QED BY <1>4, <3>3, <3>4
    <2>2. CASE plan[p].quarantine = "other"
      <3> DEFINE t == plan[p].took
      <3>1. t \in {"none", "it"} /\ "none" \in RemedyFiles
        BY <1>2 DEF RemedyPlanRow, RemedyFiles
      <3>2. plan[p].state = "running" /\ plan[p].item = "quarantine_prepared" /\ t = "none"
        BY <1>2, <2>2 DEF RemedyPlanOK, RemedyRowOK, RemedyFileOK
      <3>3. [plan[p] EXCEPT !.quarantine = "none"]
                = [plan[p] EXCEPT !.quarantine = "none", !.took = t]
        BY <1>2 DEF RemedyPlanRow
      <3>4. plan' = [plan EXCEPT ![p] = [plan[p] EXCEPT !.quarantine = "none", !.took = t]]
        BY <1>4, <3>3 DEF RemedyInvariant, RemedyTypes
      <3> HIDE DEF t
      <3>5. /\ plan'[p].state = plan[p].state /\ plan'[p].saved = plan[p].saved
            /\ plan'[p].item = plan[p].item /\ plan'[p].owner = plan[p].owner
            /\ plan'[p].took = t /\ plan'[p].quarantine = "none"
        BY <3>1, <3>4, RemedyFiling
      <3>6. file' = "other" /\ file' \in RemedyFiles /\ t = plan[p].took
        BY <1>4, <2>2 DEF RemedyFiles, t
      <3>7. RemedyFileOK(p)'
        BY <1>2, <3>2, <3>5, <3>6 DEF RemedyPlanOK, RemedyFileOK
      <3>8. CASE Remedy!Leaves(e)
        BY <1>1, <1>2, <2>2, <3>1, <3>2, <3>4, <3>6, <3>7, <3>8, RemedyQuitting, RemedyFilesKeep
      <3>9. CASE doing' = [doing EXCEPT ![e].at = "look", ![e].mode = "last"]
        <4>1. RemedyMoves(e, "look", p, "last")
          BY <1>2, <3>9, RemedyRetrying
        <4>2. RemedyExecOK(e)'
          BY <1>1, <1>2, <3>5, <4>1 DEF RemedyAt, RemedyMoves, RemedyExecOK, RemedyOwns
        <4> QED BY <1>1, <1>2, <2>2, <3>1, <3>2, <3>4, <3>6, <3>7, <4>1, <4>2, RemedyFilesKeep
      <3> QED BY <1>4, <3>8, <3>9
    <2> QED BY <1>2, <1>4, <2>1, <2>2 DEF RemedyPlanRow, RemedyFiles
  <1> QED BY <1>2, <1>3, <1>4 DEF Remedy!Compare, Remedy!Matches

LEMMA RemedyCommitKeeps ==
    ASSUME RemedyInvariant, NEW e \in Appliers, Remedy!Commit(e)
    PROVE RemedyInvariant'
  <1>1. PICK p \in Remedies : RemedyAt(e, p)
    BY RemedyBeing DEF Remedy!Commit, Remedy!Here
  <1>2. /\ doing[e].plan = p /\ RemedyPlanOK(p) /\ doing[e].at = "commit"
        /\ plan[p] \in RemedyPlanRow
        /\ RemedyQuiet /\ UNCHANGED <<finding, row>>
    BY <1>1 DEF RemedyAt, Remedy!Commit, Remedy!Here, RemedyQuiet
  <1>3. CASE Remedy!Leaves(e) /\ UNCHANGED plan
    BY <1>2, <1>3, RemedyLeavesKeeps
  <1>4. CASE /\ plan[p].owner = e /\ Remedy!Goes(e, "unlink")
             /\ plan' = [plan EXCEPT ![p].item = "delete_committing"]
    <2>1. plan[p].quarantine = "it"
      BY <1>1, <1>2, <1>4 DEF RemedyAt, RemedyOwns
    <2>2. plan[p].state = "running"
      BY <1>1, <1>2, <2>1 DEF RemedyAt, RemedyPlanOK, RemedyRowOK
    <2> QED BY <1>1, <1>2, <1>4, <2>1, <2>2, RemedyItemizeKeeps
  <1> QED BY <1>2, <1>3, <1>4 DEF Remedy!Commit, Remedy!Mine

LEMMA RemedyUnlinkKeeps ==
    ASSUME RemedyInvariant, NEW e \in Appliers, Remedy!Unlink(e)
    PROVE RemedyInvariant'
  <1>1. PICK p \in Remedies : RemedyAt(e, p)
    BY RemedyBeing DEF Remedy!Unlink, Remedy!Here
  <1>2. /\ doing[e].plan = p /\ RemedyPlanOK(p) /\ doing[e].at = "unlink"
        /\ plan[p] \in RemedyPlanRow
        /\ RemedyExecOK(e) /\ RemedyQuiet /\ UNCHANGED <<finding, row>>
    BY <1>1 DEF RemedyAt, Remedy!Unlink, Remedy!Here, RemedyQuiet
  <1>3. CASE Remedy!Leaves(e) /\ UNCHANGED plan
    BY <1>2, <1>3, RemedyLeavesKeeps
  <1>4. CASE /\ plan[p].owner = e /\ Remedy!Goes(e, "gone")
             /\ plan' = [plan EXCEPT ![p].took = plan[p].quarantine,
                                     ![p].quarantine = "none"]
    <2>1. /\ plan[p].quarantine = "it" /\ kind = "orphan"
          /\ plan[p].item \in {"quarantined", "delete_committing"}
      BY <1>1, <1>2, <1>4 DEF RemedyAt, RemedyOwns, RemedyExecOK
    <2>2. plan[p].state = "running" /\ plan[p].took = "none" /\ file # "it"
      BY <1>1, <1>2, <2>1 DEF RemedyAt, RemedyPlanOK, RemedyRowOK, RemedyFileOK
    <2>3. [plan[p] EXCEPT !.took = plan[p].quarantine, !.quarantine = "none"]
              = [plan[p] EXCEPT !.quarantine = "none", !.took = "it"]
      BY <1>2, <2>1 DEF RemedyPlanRow
    <2>4. plan' = [plan EXCEPT ![p] = [plan[p] EXCEPT !.quarantine = "none", !.took = "it"]]
      BY <1>4, <2>3 DEF RemedyInvariant, RemedyTypes
    <2>5. "none" \in RemedyFiles /\ "it" \in {"none", "it"} /\ file' \in RemedyFiles
      BY <1>2 DEF RemedyFiles, RemedyInvariant, RemedyTypes, RemedyQuiet
    <2>6. /\ plan'[p].state = plan[p].state /\ plan'[p].saved = plan[p].saved
          /\ plan'[p].item = plan[p].item /\ plan'[p].owner = plan[p].owner
          /\ plan'[p].took = "it" /\ plan'[p].quarantine = "none"
      BY <2>4, <2>5, RemedyFiling
    <2>7. RemedyMoves(e, "gone", p, doing[e].mode)
      BY <1>2, <1>4, RemedyGoing DEF RemedyPlaces
    <2>8. RemedyFileOK(p)'
      BY <1>2, <2>1, <2>2, <2>6 DEF RemedyPlanOK, RemedyFileOK, RemedyQuiet
    <2>9. RemedyExecOK(e)'
      BY <1>1, <1>2, <2>1, <2>2, <2>6, <2>7 DEF RemedyExecOK, RemedyOwns, RemedyMoves, RemedyAt,
         RemedyQuiet
    <2> QED BY <1>1, <1>2, <1>4, <2>1, <2>2, <2>4, <2>5, <2>7, <2>8, <2>9, RemedyFilesKeep
            DEF RemedyQuiet
  <1> QED BY <1>2, <1>3, <1>4 DEF Remedy!Unlink, Remedy!Mine

LEMMA RemedyGoneKeeps ==
    ASSUME RemedyInvariant, NEW e \in Appliers, Remedy!Gone(e)
    PROVE RemedyInvariant'
  <1>1. PICK p \in Remedies : RemedyAt(e, p)
    BY RemedyBeing DEF Remedy!Gone, Remedy!Here
  <1>2. /\ doing[e].plan = p /\ RemedyPlanOK(p) /\ doing[e].at = "gone"
        /\ plan[p] \in RemedyPlanRow
        /\ RemedyExecOK(e) /\ RemedyQuiet /\ UNCHANGED <<finding, row>>
    BY <1>1 DEF RemedyAt, Remedy!Gone, Remedy!Here, RemedyQuiet
  <1>3. /\ plan[p].took = "it" /\ kind \in {"unusable", "orphan"}
        /\ kind = "unusable" => row = "deleted" \/ touched = TRUE
    BY <1>2 DEF RemedyExecOK
  <1>4. plan[p].quarantine = "none"
    BY <1>2, <1>3 DEF RemedyPlanOK, RemedyFileOK
  <1>5. CASE plan[p].state = "running"
    BY <1>1, <1>2, <1>3, <1>4, <1>5, RemedySavesKeeps DEF Remedy!Gone
  <1>6. CASE Remedy!Leaves(e) /\ UNCHANGED plan
    BY <1>2, <1>6, RemedyLeavesKeeps
  <1>7. CASE plan[p].saved = "completed" /\ Remedy!Goes(e, "finish") /\ UNCHANGED plan
    <2>1. "finish" \in RemedyPlaces \ {"bind"}
      BY DEF RemedyPlaces
    <2> QED BY <1>1, <1>2, <1>7, <2>1, RemedyGoesKeeps
  <1> QED BY <1>2, <1>5, <1>6, <1>7 DEF Remedy!Gone

LEMMA RemedyEndKeeps ==
    ASSUME RemedyInvariant, NEW e \in Appliers, Remedy!End(e)
    PROVE RemedyInvariant'
  <1>1. PICK p \in Remedies : RemedyAt(e, p)
    BY RemedyBeing DEF Remedy!End, Remedy!Here
  <1>2. /\ doing[e].plan = p /\ doing[e].at = "finish" /\ RemedyExecOK(e) /\ RemedyQuiet
        /\ UNCHANGED row
        /\ Remedy!Finish(e, plan[p].saved)
    BY <1>1 DEF RemedyAt, Remedy!End, Remedy!Here, RemedyQuiet, Remedy!place
  <1>3. plan[p].saved = "completed"
    BY <1>2 DEF RemedyExecOK
  <1> QED BY <1>1, <1>2, <1>3, RemedyFinishKeeps

LEMMA RemedyFailKeeps ==
    ASSUME RemedyInvariant, NEW e \in Appliers, Remedy!Fail(e)
    PROVE RemedyInvariant'
  <1>1. PICK p \in Remedies : RemedyAt(e, p)
    BY RemedyBeing DEF Remedy!Fail
  <1>2. doing[e].plan = p /\ RemedyQuiet /\ UNCHANGED row
    BY <1>1 DEF RemedyAt, Remedy!Fail, RemedyQuiet, Remedy!place
  <1>3. CASE Remedy!Refuse(e, "failed")
    BY <1>1, <1>2, <1>3, RemedyRefuseKeeps
  <1>4. CASE Remedy!Leaves(e) /\ UNCHANGED <<plan, finding>>
    BY <1>2, <1>4, RemedyLeavesKeeps
  <1> QED BY <1>3, <1>4 DEF Remedy!Fail

\* A step of others: the plans and the executors stay as they are.
LEMMA RemedyWeatherKeeps ==
    ASSUME RemedyInvariant, RemedyAround, UNCHANGED <<plan, doing, coord>>
    PROVE RemedyInvariant'
  <1>1. ASSUME NEW p \in Remedies PROVE RemedyPlanOK(p)'
    BY <1>1, RemedyPlanStays
  <1>2. ASSUME NEW f \in Appliers PROVE RemedyExecOK(f)'
    <2>1. CASE doing[f].at = "idle"
      BY <2>1 DEF RemedyExecOK
    <2>2. CASE doing[f].at # "idle"
      <3>1. PICK p \in Remedies : doing[f].plan = p
        BY <2>2, RemedyTyped
      <3> QED BY <3>1, RemedyExecStays DEF RemedyLeaving
    <2> QED BY <2>1, <2>2
  <1>3. RemedyTypes'
    BY DEF RemedyInvariant, RemedyTypes, RemedyAround
  <1> QED BY <1>1, <1>2, <1>3 DEF RemedyInvariant

LEMMA RemedyCrashKeeps == ASSUME RemedyInvariant, Remedy!Crash PROVE RemedyInvariant'
  <1>1. /\ RemedyAround /\ doing' = [e \in Appliers |-> Remedy!Idle]
        /\ UNCHANGED <<kind, finding, plan, touched, file, row, coord>>
    BY DEF RemedyAround, RemedyInvariant, RemedyTypes, Remedy!Crash, Remedy!place, Remedy!leases
  <1>2. Remedy!Idle \in RemedyExecRow /\ Remedy!Idle.at = "idle"
    BY DEF Remedy!Idle, RemedyExecRow, RemedyPlaces, RemedyModes
  <1>3. RemedyTypes'
    BY <1>1, <1>2 DEF RemedyInvariant, RemedyTypes
  <1>4. ASSUME NEW p \in Remedies PROVE RemedyPlanOK(p)'
    BY <1>1, <1>4, RemedyPlanStays
  <1>5. ASSUME NEW f \in Appliers PROVE RemedyExecOK(f)'
    BY <1>1, <1>2 DEF RemedyExecOK
  <1> QED BY <1>3, <1>4, <1>5 DEF RemedyInvariant

LEMMA RemedyInvalidateKeeps == ASSUME RemedyInvariant, Remedy!Invalidate PROVE RemedyInvariant'
  <1> DEFINE j(p) ==
        [plan[p] EXCEPT !.state = "blocked", !.owner = Nobody,
                        !.item = IF @ \in Remedy!Terminal THEN @ ELSE "blocked",
                        !.op = IF Remedy!Live(p) THEN "failed" ELSE @]
  <1>1. /\ \A e \in Appliers : doing[e].at = "idle"
        /\ finding = "active" /\ finding' = "superseded"
        /\ plan' = [p \in Remedies |-> IF ~Remedy!Open(p) THEN plan[p] ELSE j(p)]
        /\ UNCHANGED <<kind, doing, touched, file, row, coord>>
    BY DEF Remedy!Invalidate, Remedy!place, Remedy!leases
  <1>2. ASSUME NEW p \in Remedies
        PROVE  /\ j(p) \in RemedyPlanRow /\ j(p).state = "blocked" /\ j(p).owner = Nobody
               /\ j(p).item \in Remedy!Terminal /\ j(p).saved = plan[p].saved
               /\ j(p).took = plan[p].took /\ j(p).quarantine = plan[p].quarantine
    <2>1. plan[p] \in RemedyPlanRow
      BY RemedyTyped
    <2>2. "blocked" \in RemedyStates /\ "blocked" \in RemedyItems /\ "blocked" \in Remedy!Terminal
      BY DEF RemedyStates, RemedyItems, Remedy!Terminal
    <2>3. "failed" \in RemedyOps /\ Remedy!Terminal \subseteq RemedyItems
      BY DEF RemedyOps, RemedyItems, Remedy!Terminal
    <2>4. j(p).state = "blocked" /\ j(p).owner = Nobody /\ j(p).item \in Remedy!Terminal
      BY <2>1, <2>2 DEF RemedyPlanRow
    <2>5. /\ j(p).saved = plan[p].saved /\ j(p).took = plan[p].took
          /\ j(p).quarantine = plan[p].quarantine
      BY <2>1 DEF RemedyPlanRow
    <2>6. j(p) \in RemedyPlanRow
      BY <2>1, <2>2, <2>3 DEF RemedyPlanRow
    <2> QED BY <2>4, <2>5, <2>6
  <1>3. RemedyTypes'
    BY <1>1, <1>2, RemedyTyped DEF RemedyInvariant, RemedyTypes
  <1>4. ASSUME NEW p \in Remedies PROVE RemedyPlanOK(p)'
    <2>1. RemedyPlanOK(p)
      BY DEF RemedyInvariant
    <2>2. CASE ~Remedy!Open(p)
      <3>1. /\ plan'[p] = plan[p] /\ finding' = "superseded"
            /\ UNCHANGED <<kind, touched, file, row>>
        BY <1>1, <2>2
      <3>2. RemedyItemOK(p)'
        BY <2>1, <2>2, <3>1 DEF RemedyPlanOK, RemedyItemOK, Remedy!Open
      <3>3. RemedyFileOK(p)'
        BY <2>1, <3>1 DEF RemedyPlanOK, RemedyFileOK
      <3>4. RemedyRowOK(p)'
        BY <2>1, <3>1 DEF RemedyPlanOK, RemedyRowOK
      <3> QED BY <3>2, <3>3, <3>4 DEF RemedyPlanOK
    <2>3. CASE Remedy!Open(p)
      <3>1. plan'[p] = j(p)
        BY <1>1, <2>3
      <3>2. /\ plan'[p].state = "blocked" /\ plan'[p].owner = Nobody
            /\ plan'[p].item \in Remedy!Terminal /\ plan'[p].saved = plan[p].saved
            /\ plan'[p].took = plan[p].took /\ plan'[p].quarantine = plan[p].quarantine
        BY <1>2, <3>1
      <3> HIDE DEF j
      <3>3. RemedyItemOK(p)'
        BY <1>1, <2>1, <3>2 DEF RemedyPlanOK, RemedyItemOK, Remedy!Open, Remedy!Terminal,
           RemedyOrphaned
      <3>4. RemedyFileOK(p)'
        BY <1>1, <2>1, <3>2 DEF RemedyPlanOK, RemedyFileOK, Remedy!Terminal
      <3>5. RemedyRowOK(p)'
        BY <1>1, <2>1, <3>2 DEF RemedyPlanOK, RemedyRowOK
      <3> QED BY <3>3, <3>4, <3>5 DEF RemedyPlanOK
    <2> QED BY <2>2, <2>3
  <1>5. ASSUME NEW f \in Appliers PROVE RemedyExecOK(f)'
    BY <1>1 DEF RemedyExecOK
  <1> QED BY <1>3, <1>4, <1>5 DEF RemedyInvariant

LEMMA RemedyOthersKeep ==
    ASSUME RemedyInvariant, Remedy!World \/ Remedy!ScopeEnds
    PROVE RemedyInvariant'
  <1>1. UNCHANGED <<plan, doing, coord>> /\ RemedyAround
    BY DEF Remedy!World, Remedy!ScopeEnds, RemedyAround, RemedyInvariant, RemedyTypes,
       RemedyFiles, Remedy!place, Remedy!leases
  <1> QED BY <1>1, RemedyWeatherKeeps

LEMMA RemedySteps == ASSUME RemedyInvariant, [Remedy!Next]_remediationVars PROVE RemedyInvariant'
  <1>1. CASE Remedy!Prepare
    BY <1>1, RemedyPrepareKeeps
  <1>2. CASE Remedy!PrepareEnds \/ Remedy!Expire \/ Remedy!RequestCancel
    BY <1>2, RemedyMarksKeep
  <1>3. ASSUME NEW e \in Appliers, NEW p \in Remedies, Remedy!Claim(e, p) PROVE RemedyInvariant'
    BY <1>3, RemedyClaimKeeps
  <1>4. ASSUME NEW e \in Appliers, NEW p \in Remedies, NEW mode \in {"client", "recovery"},
               Remedy!Reclaim(e, p, mode) \/ Remedy!Adopt(e, p, mode)
        PROVE  RemedyInvariant'
    BY <1>4, RemedyReclaimKeeps, RemedyAdoptKeeps
  <1>5. ASSUME NEW e \in Appliers, Remedy!Step(e) PROVE RemedyInvariant'
    <2>1. CASE Remedy!Bind(e) \/ Remedy!Look(e) \/ Remedy!Mutate(e) \/ Remedy!Delete(e) \/
                   Remedy!Deleted(e)
      BY <2>1, RemedyBindKeeps, RemedyLookKeeps, RemedyMutateKeeps, RemedyDeleteKeeps,
         RemedyDeletedKeeps
    <2>2. CASE Remedy!Rename(e) \/ Remedy!Compare(e) \/ Remedy!Commit(e) \/
                   Remedy!Unlink(e) \/ Remedy!Gone(e) \/ Remedy!End(e)
      BY <2>2, RemedyRenameKeeps, RemedyCompareKeeps, RemedyCommitKeeps, RemedyUnlinkKeeps,
         RemedyGoneKeeps, RemedyEndKeeps
    <2> QED BY <1>5, <2>1, <2>2 DEF Remedy!Step
  <1>6. ASSUME NEW e \in Appliers, Remedy!Fail(e) \/ Remedy!Stall(e) PROVE RemedyInvariant'
    BY <1>6, RemedyFailKeeps, RemedyStallKeeps
  <1>7. CASE Remedy!Crash \/ Remedy!LeaseEnds \/ Remedy!ScopeEnds \/ Remedy!Invalidate \/
                 Remedy!World
    BY <1>7, RemedyCrashKeeps, RemedyLeaseEndsKeeps, RemedyInvalidateKeeps, RemedyOthersKeep
  <1>8. CASE UNCHANGED remediationVars
    BY <1>8, RemedyWeatherKeeps 
       DEF remediationVars, Remedy!vars, RemedyAround, RemedyInvariant, RemedyTypes
  <1> QED BY <1>1, <1>2, <1>3, <1>4, <1>5, <1>6, <1>7, <1>8 DEF Remedy!Next

\* Whatever is planned, applied, interrupted or taken over, in a behaviour of the plans.
THEOREM RemediesHold == Services => [](scope = "remediation" => RemedyInvariant)
  <1> DEFINE all == <<exportVars, recorderVars, integrityVars, remedyVars, migrationVars, vars,
                      scope, used>>
             Holds == scope = "remediation" => RemedyInvariant
  <1>1. Start => Holds
    BY RemedyStarts DEF Start
  <1>2. Holds /\ [AnyStep]_all => Holds'
    <2> SUFFICES ASSUME Holds, [AnyStep]_all, scope' = "remediation" PROVE RemedyInvariant'
      OBVIOUS
    <2>1. CASE RemedyStep
      BY <2>1, RemedySteps DEF RemedyStep
    <2>2. CASE ExportsStep \/ RecorderStep \/ IntegrityStep \/ MigrationStep \/ DeletionStep
      BY <2>2 DEF ExportsStep, RecorderStep, IntegrityStep, MigrationStep, DeletionStep
    <2>3. CASE UNCHANGED all
      <3>1. UNCHANGED remediationVars
        BY <2>3 DEF remedyVars, remediationVars, Remedy!vars
      <3> QED BY <2>3, <3>1, RemedySteps
    <2> QED BY <2>1, <2>2, <2>3 DEF AnyStep
  <1> QED BY <1>1, <1>2, PTL DEF Services

\* A plan removes nothing but the file that its finding named, what it says it did it has
\* done, and what it did it says, whoever applies it, whatever dies, fails or runs out, and
\* whatever others do at the place, until a restore takes away the memory of the plans
\* (archive_integrity_remediation.py).
THEOREM RemediesAreSafe == Services => []RemediationOK
  <1>1. (scope = "remediation" => RemedyInvariant) => RemediationOK
    BY RemedyImplies DEF RemediationOK
  <1> QED BY <1>1, RemediesHold, PTL
=============================================================================

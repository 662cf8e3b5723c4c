------------------------ MODULE LoginThrottleProofs ------------------------
(***************************************************************************)
(* The login budget holds for any number of sources, requests, failures    *)
(* and any window.  The bucket of a source remembers exactly what the      *)
(* budget is about (Accounts), and an attempt in flight keeps its bucket   *)
(* registered; so dropping and evicting buckets forgets nothing.           *)
(***************************************************************************)
EXTENDS LoginThrottle, FiniteSetTheorems, TLAPS

Failed(s) == {r \in Request : attempt[r].source = s /\ attempt[r].pc = "failed"}

\* The bucket of a registered source.
Accounts ==
    \A s \in Registered :
        LET b == sources[s] IN
        /\ attempt[b].source = s
        /\ attempt[b].pc \notin {"new", "refused"}
        /\ failures[b] \subseteq Failed(s)
        /\ FailedLately(s) \subseteq failures[b]
        /\ inFlight[b] = Cardinality(Checking(s))

Unregistered ==
    \A s \in Source \ Registered : FailedLately(s) = {} /\ Checking(s) = {}

HoldsRegistered ==
    \A r \in Request :
        attempt[r].pc \in InFlight => sources[attempt[r].source] = attempt[r].bucket

Unused ==
    \A r \in Request : attempt[r].pc = "new" => failures[r] = {} /\ inFlight[r] = 0

Inv == TypeOK /\ Accounts /\ Unregistered /\ HoldsRegistered /\ Unused /\ Budget

-----------------------------------------------------------------------------
LEMMA Limits ==
    /\ MaxFailures \in Nat /\ MaxFailures >= 1
    /\ Window \in Nat /\ MaxSources \in Nat /\ MaxTime \in Nat
    BY LimitAssumption

\* The sets the budget counts are finite.
LEMMA FiniteParts ==
    ASSUME TypeOK, NEW s \in Source
    PROVE  /\ IsFiniteSet(FailedLately(s)) /\ IsFiniteSet(Checking(s))
           /\ FailedLately(s) \cap Checking(s) = {}
           /\ Cardinality(FailedLately(s)) \in Nat
           /\ Cardinality(Checking(s)) \in Nat
           /\ Cardinality(FailedLately(s) \cup Checking(s))
                = Cardinality(FailedLately(s)) + Cardinality(Checking(s))
<1>1. FailedLately(s) \subseteq Request /\ Checking(s) \subseteq Request
    BY DEF FailedLately, Checking
<1>2. IsFiniteSet(FailedLately(s)) /\ IsFiniteSet(Checking(s))
    BY <1>1, FS_Subset, RequestAssumption
<1>3. FailedLately(s) \cap Checking(s) = {}
    BY DEF FailedLately, Checking, InFlight
<1>4. Cardinality(FailedLately(s) \cap Checking(s)) = 0
    BY <1>3, FS_EmptySet
<1>5. Cardinality(FailedLately(s)) \in Nat /\ Cardinality(Checking(s)) \in Nat
    BY <1>2, FS_CardinalityType
<1>6. Cardinality(FailedLately(s) \cup Checking(s))
        = Cardinality(FailedLately(s)) + Cardinality(Checking(s))
          - Cardinality(FailedLately(s) \cap Checking(s))
    BY <1>2, FS_Union
<1>7. QED
    BY <1>2, <1>3, <1>4, <1>5, <1>6

\* The bucket of a source remembers what failed lately, once expired.
LEMMA ExpiredIsRecent ==
    ASSUME TypeOK, Accounts, NEW s \in Registered
    PROVE  /\ Expired(sources[s]) = FailedLately(s)
           /\ inFlight[sources[s]] = Cardinality(Checking(s))
    BY DEF Accounts, Expired, FailedLately, Failed, Registered, TypeOK

\* The budget spent so far, as the code counts it.
LEMMA Spent ==
    ASSUME TypeOK, Accounts, NEW s \in Registered
    PROVE  Cardinality(Expired(sources[s])) + inFlight[sources[s]]
             = Cardinality(FailedLately(s) \cup Checking(s))
<1>1. s \in Source
    BY DEF Registered
<1>2. QED
    BY <1>1, FiniteParts, ExpiredIsRecent

\* Initially no source has a bucket.
LEMMA InitInv == Init => Inv
<1> SUFFICES ASSUME Init PROVE Inv
    OBVIOUS
<1>1. TypeOK
    BY LimitAssumption DEF Init, TypeOK, Attempt, Pc
<1>2. \A s \in Source : FailedLately(s) = {} /\ Checking(s) = {}
    BY DEF Init, FailedLately, Checking, InFlight
<1>3. Accounts /\ Unregistered /\ HoldsRegistered /\ Unused
    BY <1>2 DEF Init, Accounts, Unregistered, HoldsRegistered, Unused, Registered, InFlight
<1>4. Budget
    <2> SUFFICES ASSUME NEW s \in Source
                 PROVE  Cardinality(FailedLately(s) \cup Checking(s)) <= MaxFailures
        BY DEF Budget
    <2>1. FailedLately(s) \cup Checking(s) = {}
        BY <1>2
    <2>2. QED
        BY <2>1, FS_EmptySet, Limits
<1>5. QED
    BY <1>1, <1>3, <1>4 DEF Inv

\* The parts of a request.
LEMMA Parts ==
    ASSUME TypeOK, NEW r \in Request
    PROVE  /\ attempt[r].source \in Source /\ attempt[r].bucket \in Request
           /\ attempt[r].at \in Nat /\ attempt[r].pc \in Pc
           /\ sources[attempt[r].source] \in Request \cup {NoBucket}
    BY Limits DEF TypeOK, Attempt

\* An attempt in flight is counted in the bucket it holds.
LEMMA Held ==
    ASSUME Inv, NEW r \in Request, attempt[r].pc \in InFlight
    PROVE  /\ sources[attempt[r].source] = attempt[r].bucket
           /\ attempt[r].source \in Registered
           /\ r \in Checking(attempt[r].source)
           /\ inFlight[attempt[r].bucket] = Cardinality(Checking(attempt[r].source))
           /\ inFlight[attempt[r].bucket] \in Nat \ {0}
<1> DEFINE b == attempt[r].bucket
           s == attempt[r].source
<1>1. TypeOK /\ b \in Request /\ s \in Source
    BY Parts DEF Inv
<1>2. sources[s] = b
    BY DEF Inv, HoldsRegistered
<1>3. s \in Registered
    BY <1>1, <1>2, RequestAssumption DEF Registered
<1>4. r \in Checking(s)
    BY DEF Checking
<1>5. inFlight[b] = Cardinality(Checking(s))
    BY <1>2, <1>3 DEF Inv, Accounts
<1>6. Cardinality(Checking(s)) \in Nat /\ IsFiniteSet(Checking(s))
    BY <1>1, FiniteParts
<1>7. Cardinality(Checking(s)) # 0
    BY <1>4, <1>6, FS_EmptySet
<1>8. QED
    BY <1>2, <1>3, <1>4, <1>5, <1>6, <1>7

\* Only the request that takes the step changes.
LEMMA Others ==
    ASSUME TypeOK, NEW r \in Request, Step(r)
    PROVE  \A x \in Request \ {r} : attempt'[x] = attempt[x]
    BY DEF TypeOK, Step, AcquireKnown, AcquireNew, Open, Refuse, Pass, Finish

\* What each step does to its request.
LEMMA Own ==
    ASSUME TypeOK, NEW r \in Request, Step(r)
    PROVE  /\ attempt'[r] \in Attempt
           /\ attempt'[r].source = attempt[r].source
           /\ AcquireKnown(r) => /\ attempt'[r].pc = "open" /\ attempt'[r].at = attempt[r].at
                                 /\ attempt'[r].bucket = sources[attempt[r].source]
           /\ AcquireNew(r) => /\ attempt'[r].pc = "open" /\ attempt'[r].at = attempt[r].at
                               /\ attempt'[r].bucket = r
           /\ Refuse(r) => /\ attempt'[r].pc = "refused" /\ attempt'[r].at = attempt[r].at
                           /\ attempt'[r].bucket = attempt[r].bucket
           /\ Pass(r) => /\ attempt'[r].pc = "passed" /\ attempt'[r].at = attempt[r].at
                         /\ attempt'[r].bucket = attempt[r].bucket
           /\ Finish(r) =>
                 /\ attempt'[r].pc = (IF attempt[r].pc = "open" THEN "failed" ELSE "done")
                 /\ attempt'[r].at = now
                 /\ attempt'[r].bucket = attempt[r].bucket
<1> USE DEF TypeOK, Attempt, Pc
<1>1. CASE AcquireKnown(r)
    <2>1. sources[attempt[r].source] \in Request
        BY <1>1 DEF AcquireKnown, Registered
    <2>2. QED
        BY <1>1, <2>1 DEF AcquireKnown, Open, AcquireNew, Refuse, Pass, Finish, InFlight, Registered
<1>2. CASE AcquireNew(r)
    BY <1>2 DEF AcquireKnown, Open, AcquireNew, Refuse, Pass, Finish, InFlight, Registered
<1>3. CASE Refuse(r)
    BY <1>3 DEF AcquireKnown, Open, AcquireNew, Refuse, Pass, Finish, InFlight
<1>4. CASE Pass(r)
    BY <1>4 DEF AcquireKnown, Open, AcquireNew, Refuse, Pass, Finish, InFlight
<1>5. CASE Finish(r)
    BY <1>5 DEF AcquireKnown, Open, AcquireNew, Refuse, Pass, Finish, InFlight
<1>6. QED
    BY <1>1, <1>2, <1>3, <1>4, <1>5 DEF Step

\* Types are kept.
LEMMA TypeStep == ASSUME Inv, [Next]_vars PROVE TypeOK'
<1>1. CASE Tick
    <2>1. now' \in 0 .. MaxTime
        BY <1>1, Limits DEF Inv, Tick, TypeOK
    <2>2. QED
        BY <1>1, <2>1 DEF Inv, Tick, TypeOK
<1>2. ASSUME NEW r \in Request, Step(r) PROVE TypeOK'
    <2>1. attempt' \in [Request -> Attempt]
        <3>1. \A x \in Request : attempt'[x] \in Attempt
            BY <1>2, Own, Others DEF Inv, TypeOK
        <3>2. DOMAIN attempt' = Request /\ attempt' = [x \in Request |-> attempt'[x]]
            BY <1>2 DEF Step, AcquireKnown, AcquireNew, Open, Refuse, Pass, Finish, Inv, TypeOK
        <3>3. QED
            BY <3>1, <3>2
    <2>2. sources' \in [Source -> Request \cup {NoBucket}]
        BY <1>2 DEF Step, AcquireKnown, AcquireNew, Refuse, Pass, Finish, Swept, Inv, TypeOK
    <2>3. failures' \in [Request -> SUBSET Request]
        <3>1. CASE AcquireKnown(r)
            BY <3>1 DEF AcquireKnown, Expired, Inv, TypeOK
        <3>2. CASE Finish(r)
            BY <3>2 DEF Finish, Inv, TypeOK
        <3>3. QED
            BY <1>2, <3>1, <3>2 DEF Step, AcquireNew, Refuse, Pass, Inv, TypeOK
    <2>4. inFlight' \in [Request -> Nat]
        <3>1. CASE Finish(r)
            <4>1. attempt[r].pc \in InFlight
                BY <3>1 DEF Finish
            <4>2. inFlight[attempt[r].bucket] \in Nat \ {0}
                BY <4>1, Held
            <4>3. inFlight[attempt[r].bucket] - 1 \in Nat
                BY <4>2
            <4>4. inFlight' = [inFlight EXCEPT ![attempt[r].bucket] = @ - 1]
                BY <3>1 DEF Finish
            <4>5. inFlight \in [Request -> Nat]
                BY DEF Inv, TypeOK
            <4>6. QED
                BY <4>3, <4>4, <4>5
        <3>2. CASE AcquireKnown(r)
            <4>1. PICK b : inFlight' = [inFlight EXCEPT ![b] = @ + 1]
                BY <3>2 DEF AcquireKnown, Open
            <4>2. inFlight \in [Request -> Nat]
                BY DEF Inv, TypeOK
            <4>3. ASSUME NEW x \in Request PROVE inFlight'[x] \in Nat
                BY <4>1, <4>2
            <4>4. QED
                BY <4>1, <4>2, <4>3
        <3>3. CASE AcquireNew(r)
            BY <3>3 DEF AcquireNew, Open, Inv, TypeOK
        <3>4. QED
            BY <1>2, <3>1, <3>2, <3>3 DEF Step, Refuse, Pass, Inv, TypeOK
    <2>5. now' = now
        BY <1>2 DEF Step, AcquireKnown, AcquireNew, Refuse, Pass, Finish
    <2>6. QED
        BY <2>1, <2>2, <2>3, <2>4, <2>5 DEF Inv, TypeOK
<1>3. CASE UNCHANGED vars
    BY <1>3 DEF Inv, vars, TypeOK
<1>4. QED
    BY <1>1, <1>2, <1>3 DEF Next, Over

-----------------------------------------------------------------------------
\* A step after which no source tries more than before keeps the budget.
LEMMA BudgetShrinks ==
    ASSUME Inv, TypeOK',
           \A s \in Source :
               (FailedLately(s) \cup Checking(s))' \subseteq FailedLately(s) \cup Checking(s)
    PROVE  Budget'
<1> SUFFICES ASSUME NEW s \in Source
             PROVE  Cardinality((FailedLately(s) \cup Checking(s))') <= MaxFailures
    BY DEF Budget
<1> DEFINE T == FailedLately(s) \cup Checking(s)
           U == (FailedLately(s) \cup Checking(s))'
<1>1. IsFiniteSet(T)
    BY FiniteParts, FS_Union DEF Inv
<1>2. Cardinality(U) <= Cardinality(T) /\ IsFiniteSet(U)
    BY <1>1, FS_Subset
<1>3. Cardinality(T) <= MaxFailures
    BY DEF Inv, Budget
<1>4. Cardinality(U) \in Nat /\ Cardinality(T) \in Nat
    BY <1>1, <1>2, FS_CardinalityType
<1>5. QED
    BY <1>2, <1>3, <1>4, Limits

\* What Accounts says of one source.
Account(s) ==
    /\ attempt[sources[s]].source = s
    /\ attempt[sources[s]].pc \notin {"new", "refused"}
    /\ failures[sources[s]] \subseteq Failed(s)
    /\ FailedLately(s) \subseteq failures[sources[s]]
    /\ inFlight[sources[s]] = Cardinality(Checking(s))

LEMMA AccountsParts == Accounts <=> \A s \in Registered : Account(s)
    BY DEF Accounts, Account

\* Time only makes failures old.
LEMMA TickStep == ASSUME Inv, Tick PROVE Inv'
<1>1. TypeOK'
    BY TypeStep DEF Next
<1>2. \A s \in Source : FailedLately(s)' \subseteq FailedLately(s)
    BY Limits
    DEF Inv, Tick, FailedLately, Recent, TypeOK, Attempt
<1>3. \A s \in Source : Checking(s)' = Checking(s) /\ Failed(s)' = Failed(s)
    BY DEF Tick, Checking, Failed
<1>4. Registered' = Registered /\ Registered \subseteq Source
    BY DEF Tick, Registered
<1>5. ASSUME NEW s \in Registered PROVE Account(s)'
    <2>1. Account(s)
        BY AccountsParts DEF Inv
    <2>2. FailedLately(s)' \subseteq FailedLately(s) /\ Checking(s)' = Checking(s) /\ Failed(s)' = Failed(s)
        BY <1>2, <1>3, <1>4
    <2>3. QED
        BY <2>1, <2>2 DEF Account, Tick
<1>6. Accounts'
    BY <1>4, <1>5 DEF Accounts, Account
<1>7. Unregistered'
    BY <1>2, <1>3, <1>4 DEF Inv, Unregistered
<1>8. HoldsRegistered' /\ Unused'
    BY DEF Inv, Tick, HoldsRegistered, Unused
<1>9. Budget'
    BY <1>1, <1>2, <1>3, BudgetShrinks
<1>10. QED
    BY <1>1, <1>6, <1>7, <1>8, <1>9 DEF Inv

\* What a source is counted for changes by the request that steps alone.
LEMMA CountsOfOthers ==
    ASSUME Inv, NEW r \in Request, Step(r), NEW s \in Source
    PROVE  /\ FailedLately(s)' \ {r} = FailedLately(s) \ {r}
           /\ Checking(s)' \ {r} = Checking(s) \ {r}
           /\ Failed(s)' \ {r} = Failed(s) \ {r}
           /\ s # attempt[r].source => r \notin (FailedLately(s) \cup Checking(s) \cup Failed(s))
           /\ s # attempt[r].source => r \notin (FailedLately(s) \cup Checking(s) \cup Failed(s))'
<1>1. \A x \in Request \ {r} : attempt'[x] = attempt[x]
    BY Others DEF Inv
<1>2. now' = now
    BY DEF Step, AcquireKnown, AcquireNew, Refuse, Pass, Finish
<1>3. attempt'[r].source = attempt[r].source
    BY Own DEF Inv
<1>4. FailedLately(s)' \ {r} = FailedLately(s) \ {r}
    BY <1>1, <1>2 DEF FailedLately, Recent
<1>5. Checking(s)' \ {r} = Checking(s) \ {r}
    BY <1>1 DEF Checking
<1>6. Failed(s)' \ {r} = Failed(s) \ {r}
    BY <1>1 DEF Failed
<1>7. s # attempt[r].source => r \notin (FailedLately(s) \cup Checking(s) \cup Failed(s))
    BY DEF FailedLately, Checking, Failed
<1>8. s # attempt[r].source => r \notin (FailedLately(s)' \cup Checking(s)' \cup Failed(s)')
    BY <1>3 DEF FailedLately, Checking, Failed
<1>9. QED
    BY <1>4, <1>5, <1>6, <1>7, <1>8

\* The accounts of the sources that neither the request nor the table touched.
LEMMA OtherAccounts ==
    ASSUME Inv, NEW r \in Request, Step(r), NEW s \in Registered,
           s # attempt[r].source, sources'[s] = sources[s],
           failures'[sources[s]] = failures[sources[s]],
           inFlight'[sources[s]] = inFlight[sources[s]]
    PROVE  Account(s)'
<1>1. Account(s) /\ s \in Source
    BY AccountsParts DEF Inv, Registered
<1>2. sources[s] \in Request \ {r}
    BY <1>1 DEF Account, Registered, Inv, TypeOK
<1>3. attempt'[sources[s]] = attempt[sources[s]]
    BY <1>2, Others DEF Inv
<1>4. FailedLately(s)' = FailedLately(s) /\ Checking(s)' = Checking(s) /\ Failed(s)' = Failed(s)
    <2>1. /\ FailedLately(s)' \ {r} = FailedLately(s) \ {r}
          /\ Checking(s)' \ {r} = Checking(s) \ {r}
          /\ Failed(s)' \ {r} = Failed(s) \ {r}
          /\ r \notin (FailedLately(s) \cup Checking(s) \cup Failed(s))
          /\ r \notin (FailedLately(s)' \cup Checking(s)' \cup Failed(s)')
        BY <1>1, CountsOfOthers
    <2>2. QED
        BY <2>1
<1>5. QED
    BY <1>1, <1>3, <1>4 DEF Account

\* Sweeping unregisters only sources without anything to count.
LEMMA SweptSources ==
    ASSUME Inv, NEW s \in Source, NEW t \in Source
    PROVE  /\ Swept(s)[t] \in {sources[t], NoBucket}
           /\ sources[t] # NoBucket /\ Swept(s)[t] = NoBucket =>
                  FailedLately(t) = {} /\ Checking(t) = {}
<1>1. Swept(s)[t] \in {sources[t], NoBucket}
    BY DEF Swept
<1>2. ASSUME sources[t] # NoBucket, Swept(s)[t] = NoBucket
      PROVE  FailedLately(t) = {} /\ Checking(t) = {}
    <2>1. Idle(t) /\ t \in Registered
        BY <1>2 DEF Swept, Idle
    <2>2. FailedLately(t) = {} /\ Cardinality(Checking(t)) = 0
        BY <2>1, ExpiredIsRecent DEF Idle, Inv
    <2>3. IsFiniteSet(Checking(t))
        BY FiniteParts DEF Inv
    <2>4. QED
        BY <2>2, <2>3, FS_EmptySet
<1>3. QED
    BY <1>1, <1>2

\* The password check changes nothing that is counted.
LEMMA PassStep ==
    ASSUME Inv, NEW r \in Request, Pass(r), NEW s \in Source, s = attempt[r].source
    PROVE  Inv'
<1>0. Step(r) /\ TypeOK
    BY DEF Step, Inv
<1>1. TypeOK'
    BY <1>0, TypeStep DEF Next
<1>2. attempt[r].pc = "open" /\ attempt'[r].pc = "passed" /\ attempt'[r].source = s
      /\ attempt'[r].bucket = attempt[r].bucket
    BY <1>0, Own DEF Pass
<1>3. \A x \in Request \ {r} : attempt'[x] = attempt[x]
    BY <1>0, Others
<1>4. UNCHANGED <<now, sources, failures, inFlight>>
    BY DEF Pass
<1>5. \A t \in Source : /\ FailedLately(t)' = FailedLately(t)
                         /\ Checking(t)' = Checking(t) /\ Failed(t)' = Failed(t)
    BY <1>2, <1>3, <1>4 DEF FailedLately, Recent, Checking, Failed, InFlight
<1>6. Registered' = Registered /\ Registered \subseteq Source
    BY <1>4 DEF Registered
<1>7. ASSUME NEW t \in Registered PROVE Account(t)'
    <2>1. Account(t) /\ sources[t] \in Request
        BY AccountsParts DEF Inv, TypeOK, Registered
    <2>2. attempt'[sources[t]].source = attempt[sources[t]].source
          /\ attempt'[sources[t]].pc \notin {"new", "refused"}
        BY <1>2, <1>3, <2>1 DEF Account
    <2>3. QED
        BY <1>4, <1>5, <1>6, <2>1, <2>2 DEF Account
<1>8. Accounts' /\ Unregistered'
    BY <1>5, <1>6, <1>7 DEF Accounts, Account, Inv, Unregistered
<1>9. HoldsRegistered'
    BY <1>2, <1>3, <1>4 DEF Inv, HoldsRegistered, InFlight
<1>10. Unused'
    BY <1>2, <1>3, <1>4 DEF Inv, Unused
<1>11. Budget'
    BY <1>1, <1>5, BudgetShrinks
<1>12. QED
    BY <1>1, <1>8, <1>9, <1>10, <1>11 DEF Inv

\* A refused request counts for nothing.
LEMMA RefuseStep ==
    ASSUME Inv, NEW r \in Request, Refuse(r), NEW s \in Source, s = attempt[r].source
    PROVE  Inv'
<1>0. Step(r) /\ TypeOK
    BY DEF Step, Inv
<1>1. TypeOK'
    BY <1>0, TypeStep DEF Next
<1>2. attempt[r].pc = "new" /\ attempt'[r].pc = "refused" /\ attempt'[r].source = s
    BY <1>0, Own DEF Refuse
<1>3. \A x \in Request \ {r} : attempt'[x] = attempt[x]
    BY <1>0, Others
<1>4. UNCHANGED <<now, failures, inFlight>> /\ sources' = Swept(s)
    BY DEF Refuse
<1>5. \A t \in Source : /\ FailedLately(t)' = FailedLately(t)
                         /\ Checking(t)' = Checking(t) /\ Failed(t)' = Failed(t)
    BY <1>2, <1>3, <1>4 DEF FailedLately, Recent, Checking, Failed, InFlight
<1>6. \A t \in Source :
          /\ sources'[t] \in {sources[t], NoBucket}
          /\ sources[t] # NoBucket /\ sources'[t] = NoBucket =>
                 FailedLately(t) = {} /\ Checking(t) = {}
    BY <1>0, <1>4, SweptSources
<1>7. \A t \in Registered' : t \in Registered /\ t \in Source /\ sources'[t] = sources[t]
    BY <1>6 DEF Registered
<1>8. ASSUME NEW t \in Registered' PROVE Account(t)'
    <2>1. t \in Registered /\ t \in Source /\ sources'[t] = sources[t]
        BY <1>7
    <2>2. Account(t) /\ sources[t] \in Request
        BY <2>1, AccountsParts DEF Inv, TypeOK, Registered
    <2>3. sources[t] # r
        BY <1>2, <2>2 DEF Account
    <2>4. attempt'[sources[t]] = attempt[sources[t]]
        BY <1>3, <2>2, <2>3
    <2>5. QED
        BY <1>4, <1>5, <2>1, <2>2, <2>4 DEF Account
<1>9. Accounts'
    BY <1>8 DEF Accounts, Account
<1>10. Unregistered'
    BY <1>5, <1>6 DEF Inv, Unregistered, Registered
<1>11. HoldsRegistered'
    <2> SUFFICES ASSUME NEW x \in Request, attempt'[x].pc \in InFlight
                 PROVE  sources'[attempt'[x].source] = attempt'[x].bucket
        BY DEF HoldsRegistered
    <2>1. x # r
        BY <1>2 DEF InFlight
    <2>2. attempt'[x] = attempt[x]
        BY <1>3, <2>1
    <2>3. /\ sources[attempt[x].source] = attempt[x].bucket
          /\ x \in Checking(attempt[x].source)
        BY <2>2, Held
    <2>4. attempt[x].source \in Source /\ attempt[x].bucket \in Request
        BY <1>0, Parts
    <2>5. sources'[attempt[x].source] = sources[attempt[x].source]
        BY <1>6, <2>3, <2>4, RequestAssumption
    <2>6. QED
        BY <2>2, <2>3, <2>5
<1>12. Unused'
    BY <1>2, <1>3, <1>4 DEF Inv, Unused
<1>13. Budget'
    BY <1>1, <1>5, BudgetShrinks
<1>14. QED
    BY <1>1, <1>9, <1>10, <1>11, <1>12, <1>13 DEF Inv

\* Counting one more request.
LEMMA OneMore ==
    ASSUME NEW T, IsFiniteSet(T), NEW r, r \notin T
    PROVE  IsFiniteSet(T \cup {r}) /\ Cardinality(T \cup {r}) = Cardinality(T) + 1
    BY FS_AddElement

\* An acquired attempt is the one more that the budget allowed.
LEMMA AcquireKnownStep ==
    ASSUME Inv, NEW r \in Request, AcquireKnown(r),
           NEW s \in Source, s = attempt[r].source, NEW b, b = sources[s]
    PROVE  Inv'
<1>0. Step(r) /\ TypeOK
    BY DEF Step, Inv
<1>1. TypeOK'
    BY <1>0, TypeStep DEF Next
<1>2. attempt[r].pc = "new" /\ attempt'[r].pc = "open" /\ attempt'[r].source = s
      /\ attempt'[r].bucket = b
    BY <1>0, Own DEF AcquireKnown
<1>3. \A x \in Request \ {r} : attempt'[x] = attempt[x]
    BY <1>0, Others
<1>4. /\ UNCHANGED <<now, sources>>
      /\ failures' = [failures EXCEPT ![b] = Expired(b)]
      /\ inFlight' = [inFlight EXCEPT ![b] = @ + 1]
      /\ s \in Registered /\ ~Exhausted(b)
    BY DEF AcquireKnown, Open
<1>5. b \in Request /\ Account(s)
    BY <1>0, <1>4, AccountsParts DEF Registered, Inv, TypeOK
<1>6. b # r
    BY <1>2, <1>5 DEF Account
<1>7. \A t \in Source : FailedLately(t)' = FailedLately(t) /\ Failed(t)' = Failed(t)
    BY <1>2, <1>3, <1>4 DEF FailedLately, Recent, Failed
<1>8. \A t \in Source \ {s} : Checking(t)' = Checking(t)
    BY <1>2, <1>3 DEF Checking
<1>9. Checking(s)' = Checking(s) \cup {r} /\ r \notin Checking(s) /\ r \notin FailedLately(s)
    BY <1>2, <1>3 DEF Checking, InFlight, FailedLately
<1>10. Registered' = Registered /\ Registered \subseteq Source
    BY <1>4 DEF Registered
<1>11. \A t \in Registered : t # s => sources[t] # b
    <2> SUFFICES ASSUME NEW t \in Registered, t # s PROVE sources[t] # b
        OBVIOUS
    <2>1. Account(t)
        BY AccountsParts DEF Inv
    <2>2. QED
        BY <1>5, <2>1 DEF Account
<1>12. Account(s)'
    <2>1. attempt'[b] = attempt[b] /\ sources'[s] = b
        BY <1>3, <1>4, <1>5, <1>6
    <2>2. failures'[b] = FailedLately(s)
        BY <1>0, <1>4, <1>5, ExpiredIsRecent DEF Inv, TypeOK
    <2>3. inFlight'[b] = Cardinality(Checking(s)')
        <3>1. inFlight'[b] = inFlight[b] + 1
            BY <1>0, <1>4, <1>5 DEF TypeOK
        <3>2. IsFiniteSet(Checking(s))
            BY <1>0, FiniteParts
        <3>3. Cardinality(Checking(s) \cup {r}) = Cardinality(Checking(s)) + 1
            BY <1>9, <3>2, OneMore
        <3>4. QED
            BY <1>5, <1>9, <3>1, <3>3 DEF Account
    <2>4. FailedLately(s) \subseteq Failed(s)
        BY DEF FailedLately, Failed
    <2>5. QED
        BY <1>0, <1>5, <1>7, <2>1, <2>2, <2>3, <2>4 DEF Account
<1>13. ASSUME NEW t \in Registered, t # s PROVE Account(t)'
    <2>1. sources'[t] = sources[t] /\ sources[t] \in Request /\ sources[t] # b
        BY <1>4, <1>11, <1>13 DEF Inv, TypeOK, Registered
    <2>2. failures'[sources[t]] = failures[sources[t]] /\ inFlight'[sources[t]] = inFlight[sources[t]]
        BY <1>0, <1>4, <2>1 DEF TypeOK
    <2>3. QED
        BY <1>0, <1>13, <2>1, <2>2, OtherAccounts
<1>14. Accounts'
    BY <1>10, <1>12, <1>13 DEF Accounts, Account
<1>15. Unregistered'
    BY <1>4, <1>7, <1>8, <1>10 DEF Inv, Unregistered
<1>16. HoldsRegistered'
    BY <1>2, <1>3, <1>4 DEF Inv, HoldsRegistered
<1>17. Unused'
    <2> SUFFICES ASSUME NEW x \in Request, attempt'[x].pc = "new"
                 PROVE  failures'[x] = {} /\ inFlight'[x] = 0
        BY DEF Unused
    <2>1. x # r
        BY <1>2
    <2>2. attempt[x].pc = "new"
        BY <1>3, <2>1
    <2>3. x # b
        BY <1>5, <2>2 DEF Account
    <2>4. QED
        BY <1>0, <1>4, <2>2, <2>3 DEF Inv, Unused, TypeOK
<1>18. Budget'
    <2> SUFFICES ASSUME NEW t \in Source
                 PROVE  Cardinality((FailedLately(t) \cup Checking(t))') <= MaxFailures
        BY DEF Budget
    <2>1. CASE t # s
        BY <1>7, <1>8, <2>1 DEF Inv, Budget
    <2>2. CASE t = s
        <3> DEFINE T == FailedLately(s) \cup Checking(s)
        <3>1. IsFiniteSet(T)
            BY <1>0, FiniteParts, FS_Union
        <3>2. Cardinality(T) < MaxFailures
            <4>1. Cardinality(Expired(b)) + inFlight[b] = Cardinality(T)
                BY <1>4, Spent DEF Inv
            <4>2. Cardinality(T) \in Nat
                BY <3>1, FS_CardinalityType
            <4>3. ~(Cardinality(T) >= MaxFailures)
                BY <1>4, <4>1 DEF Exhausted
            <4>4. QED
                BY <4>2, <4>3, Limits
        <3>3. Cardinality(T \cup {r}) = Cardinality(T) + 1
            BY <1>9, <3>1, OneMore
        <3>4. (FailedLately(s) \cup Checking(s))' = T \cup {r}
            BY <1>0, <1>7, <1>9
        <3>5. Cardinality(T) \in Nat
            BY <3>1, FS_CardinalityType
        <3>6. Cardinality(T) + 1 <= MaxFailures
            BY <3>2, <3>5, Limits
        <3>7. (FailedLately(t) \cup Checking(t))' = T \cup {r}
            BY <2>2, <3>4
        <3>8. QED
            BY <3>3, <3>6, <3>7
    <2>3. QED
        BY <2>1, <2>2
<1>19. QED
    BY <1>1, <1>14, <1>15, <1>16, <1>17, <1>18 DEF Inv

\* A new bucket starts from nothing because its source has nothing to count.
LEMMA AcquireNewStep ==
    ASSUME Inv, NEW r \in Request, AcquireNew(r), NEW s \in Source, s = attempt[r].source
    PROVE  Inv'
<1>0. Step(r) /\ TypeOK
    BY DEF Step, Inv
<1>1. TypeOK'
    BY <1>0, TypeStep DEF Next
<1>2. attempt[r].pc = "new" /\ attempt'[r].pc = "open" /\ attempt'[r].source = s
      /\ attempt'[r].bucket = r
    BY <1>0, Own DEF AcquireNew
<1>3. \A x \in Request \ {r} : attempt'[x] = attempt[x]
    BY <1>0, Others
<1>4. /\ UNCHANGED <<now, failures>>
      /\ sources' = [Swept(s) EXCEPT ![s] = r]
      /\ inFlight' = [inFlight EXCEPT ![r] = @ + 1]
      /\ s \notin Registered
    BY DEF AcquireNew, Open
<1>5. FailedLately(s) = {} /\ Checking(s) = {} /\ failures[r] = {} /\ inFlight[r] = 0
    BY <1>2, <1>4 DEF Inv, Unregistered, Unused
<1>6. \A t \in Source : FailedLately(t)' = FailedLately(t) /\ Failed(t)' = Failed(t)
    BY <1>2, <1>3, <1>4 DEF FailedLately, Recent, Failed
<1>7. \A t \in Source \ {s} : Checking(t)' = Checking(t)
    BY <1>2, <1>3 DEF Checking
<1>8. Checking(s)' = {r}
    BY <1>2, <1>3, <1>5 DEF Checking, InFlight
<1>9. sources'[s] = r
    BY <1>4 DEF Swept
<1>10. \A t \in Source \ {s} :
          /\ sources'[t] \in {sources[t], NoBucket}
          /\ sources[t] # NoBucket /\ sources'[t] = NoBucket =>
                 FailedLately(t) = {} /\ Checking(t) = {}
    <2> SUFFICES ASSUME NEW t \in Source \ {s}
                 PROVE  /\ sources'[t] \in {sources[t], NoBucket}
                        /\ sources[t] # NoBucket /\ sources'[t] = NoBucket =>
                               FailedLately(t) = {} /\ Checking(t) = {}
        OBVIOUS
    <2>1. sources'[t] = Swept(s)[t]
        BY <1>4 DEF Swept
    <2>2. QED
        BY <2>1, SweptSources
<1>11. Account(s)'
    <2>1. Cardinality({r}) = 1
        BY FS_Singleton
    <2>2. inFlight'[r] = 1
        BY <1>0, <1>4, <1>5 DEF TypeOK
    <2>3. failures'[r] = {} /\ FailedLately(s)' = {}
        BY <1>4, <1>5, <1>6
    <2>4. QED
        BY <1>2, <1>8, <1>9, <2>1, <2>2, <2>3 DEF Account
<1>12. ASSUME NEW t \in Registered', t # s PROVE Account(t)'
    <2>1. t \in Source \ {s} /\ sources'[t] # NoBucket
        BY <1>12 DEF Registered
    <2>2. sources'[t] = sources[t] /\ t \in Registered
        BY <1>10, <2>1 DEF Registered
    <2>3. Account(t) /\ sources[t] \in Request
        BY <2>1, <2>2, AccountsParts DEF Inv, TypeOK, Registered
    <2>4. sources[t] # r
        BY <1>2, <2>3 DEF Account
    <2>5. failures'[sources[t]] = failures[sources[t]] /\ inFlight'[sources[t]] = inFlight[sources[t]]
        BY <1>0, <1>4, <2>3, <2>4 DEF TypeOK
    <2>6. t # attempt[r].source
        BY <1>12
    <2>7. QED
        BY <1>0, <2>2, <2>5, <2>6, OtherAccounts
<1>13. Accounts'
    BY <1>11, <1>12 DEF Accounts, Account
<1>14. Unregistered'
    <2> SUFFICES ASSUME NEW t \in Source, sources'[t] = NoBucket
                 PROVE  (FailedLately(t) = {} /\ Checking(t) = {})'
        BY DEF Unregistered, Registered
    <2>1. t # s
        BY <1>9, RequestAssumption
    <2>2. FailedLately(t) = {} /\ Checking(t) = {}
        BY <1>10, <2>1 DEF Inv, Unregistered, Registered
    <2>3. QED
        BY <1>6, <1>7, <2>1, <2>2
<1>15. HoldsRegistered'
    <2> SUFFICES ASSUME NEW x \in Request, attempt'[x].pc \in InFlight
                 PROVE  sources'[attempt'[x].source] = attempt'[x].bucket
        BY DEF HoldsRegistered
    <2>1. CASE x = r
        BY <1>2, <1>9, <2>1
    <2>2. CASE x # r
        <3>1. attempt'[x] = attempt[x]
            BY <1>3, <2>2
        <3>2. /\ sources[attempt[x].source] = attempt[x].bucket
              /\ attempt[x].source \in Registered
              /\ x \in Checking(attempt[x].source)
            BY <3>1, Held
        <3>3. attempt[x].source \in Source \ {s} /\ attempt[x].bucket \in Request
            BY <1>0, <1>4, <3>2, Parts
        <3>4. sources'[attempt[x].source] = sources[attempt[x].source]
            BY <1>10, <3>2, <3>3, RequestAssumption
        <3>5. QED
            BY <3>1, <3>2, <3>4
    <2>3. QED
        BY <2>1, <2>2
<1>16. Unused'
    <2> SUFFICES ASSUME NEW x \in Request, attempt'[x].pc = "new"
                 PROVE  failures'[x] = {} /\ inFlight'[x] = 0
        BY DEF Unused
    <2>1. x # r
        BY <1>2
    <2>2. attempt[x].pc = "new"
        BY <1>3, <2>1
    <2>3. QED
        BY <1>0, <1>4, <2>1, <2>2 DEF Inv, Unused, TypeOK
<1>17. Budget'
    <2> SUFFICES ASSUME NEW t \in Source
                 PROVE  Cardinality((FailedLately(t) \cup Checking(t))') <= MaxFailures
        BY DEF Budget
    <2>1. CASE t # s
        BY <1>6, <1>7, <2>1 DEF Inv, Budget
    <2>2. CASE t = s
        <3>1. (FailedLately(s) \cup Checking(s))' = {r}
            BY <1>5, <1>6, <1>8
        <3>2. Cardinality({r}) = 1
            BY FS_Singleton
        <3>3. QED
            BY <2>2, <3>1, <3>2, Limits
    <2>3. QED
        BY <2>1, <2>2
<1>18. QED
    BY <1>1, <1>13, <1>14, <1>15, <1>16, <1>17 DEF Inv

\* Counting one request less.
LEMMA OneLess ==
    ASSUME NEW T, IsFiniteSet(T), NEW r \in T
    PROVE  Cardinality(T \ {r}) = Cardinality(T) - 1
    BY FS_RemoveElement

\* Finishing moves the attempt from those being checked to those failed, or out.
LEMMA FinishStep ==
    ASSUME Inv, NEW r \in Request, Finish(r), NEW s \in Source, s = attempt[r].source,
           NEW b, b = attempt[r].bucket
    PROVE  Inv'
<1>0. Step(r) /\ TypeOK
    BY DEF Step, Inv
<1>1. TypeOK'
    BY <1>0, TypeStep DEF Next
<1>2. /\ attempt[r].pc \in InFlight
      /\ attempt'[r].pc = (IF attempt[r].pc = "open" THEN "failed" ELSE "done")
      /\ attempt'[r].source = s /\ attempt'[r].bucket = b /\ attempt'[r].at = now
    BY <1>0, Own DEF Finish
<1>3. \A x \in Request \ {r} : attempt'[x] = attempt[x]
    BY <1>0, Others
<1>4. /\ sources[s] = b /\ s \in Registered /\ r \in Checking(s)
      /\ inFlight[b] = Cardinality(Checking(s)) /\ b \in Request
    BY <1>0, <1>2, Held, Parts
<1>5. Account(s)
    BY <1>4, AccountsParts DEF Inv
<1> DEFINE left == {x \in failures[b] : Recent(x)}
                     \cup {x \in {r} : attempt[r].pc = "open" /\ Window > 0}
<1>6. /\ now' = now
      /\ inFlight' = [inFlight EXCEPT ![b] = @ - 1]
      /\ failures' = [failures EXCEPT ![b] = left]
      /\ sources' = IF left = {} /\ inFlight[b] = 1 /\ sources[s] = b
                    THEN [sources EXCEPT ![s] = NoBucket] ELSE sources
    BY DEF Finish
<1>7. \A t \in Source \ {s} :
          /\ FailedLately(t)' = FailedLately(t) /\ Failed(t)' = Failed(t)
          /\ Checking(t)' = Checking(t) /\ sources'[t] = sources[t]
    BY <1>0, <1>2, <1>3, <1>6 DEF FailedLately, Recent, Failed, Checking, TypeOK
<1>8. Checking(s)' = Checking(s) \ {r}
    BY <1>2, <1>3 DEF Checking, InFlight
<1>9. FailedLately(s)' = left
    <2>1. {x \in failures[b] : Recent(x)} = FailedLately(s)
        BY <1>0, <1>4, ExpiredIsRecent DEF Inv, Expired
    <2>2. r \notin FailedLately(s)
        BY <1>2 DEF FailedLately, InFlight
    <2>3. r \in FailedLately(s)' <=> attempt[r].pc = "open" /\ Window > 0
        BY <1>0, <1>2, <1>6, Limits DEF FailedLately, Recent, TypeOK
    <2>4. FailedLately(s)' \ {r} = FailedLately(s) \ {r}
        BY <1>0, CountsOfOthers
    <2>5. QED
        BY <2>1, <2>2, <2>3, <2>4
<1>10. left \subseteq (Failed(s))'
    BY <1>9 DEF FailedLately, Failed
<1>11. inFlight'[b] = Cardinality(Checking(s)') /\ failures'[b] = left
    <2>1. IsFiniteSet(Checking(s))
        BY <1>0, FiniteParts
    <2>2. Cardinality(Checking(s) \ {r}) = Cardinality(Checking(s)) - 1
        BY <1>4, <2>1, OneLess
    <2>3. inFlight'[b] = inFlight[b] - 1 /\ failures'[b] = left
        BY <1>0, <1>4, <1>6 DEF TypeOK
    <2>4. QED
        BY <1>4, <1>8, <2>2, <2>3
<1>12. ASSUME s \in Registered' PROVE Account(s)'
    <2>1. sources'[s] = b
        BY <1>0, <1>4, <1>6, <1>12 DEF Registered, TypeOK
    <2>2. attempt'[b].source = s /\ attempt'[b].pc \notin {"new", "refused"}
        BY <1>2, <1>3, <1>4, <1>5 DEF Account
    <2>3. QED
        BY <1>9, <1>10, <1>11, <2>1, <2>2 DEF Account
<1>13. ASSUME NEW t \in Registered', t # s PROVE Account(t)'
    <2>1. t \in Source \ {s} /\ sources'[t] = sources[t] /\ t \in Registered
        BY <1>7, <1>13 DEF Registered
    <2>2. Account(t) /\ sources[t] \in Request
        BY <2>1, AccountsParts DEF Inv, TypeOK, Registered
    <2>3. sources[t] # b
        BY <1>4, <1>5, <2>1, <2>2 DEF Account
    <2>4. failures'[sources[t]] = failures[sources[t]] /\ inFlight'[sources[t]] = inFlight[sources[t]]
        BY <1>0, <1>6, <2>2, <2>3 DEF TypeOK
    <2>5. t # attempt[r].source
        BY <2>1
    <2>6. QED
        BY <1>0, <2>1, <2>4, <2>5, OtherAccounts
<1>14. Accounts'
    BY <1>12, <1>13 DEF Accounts, Account
<1>15. s \notin Registered' => left = {} /\ Checking(s)' = {}
    <2> SUFFICES ASSUME s \notin Registered' PROVE left = {} /\ Checking(s)' = {}
        OBVIOUS
    <2>1. sources'[s] = NoBucket
        BY DEF Registered
    <2>2. left = {} /\ inFlight[b] = 1
        BY <1>4, <1>6, <2>1, RequestAssumption
    <2>3. IsFiniteSet(Checking(s)) /\ Cardinality(Checking(s)) = 1
        BY <1>0, <1>4, <2>2, FiniteParts
    <2>4. Cardinality(Checking(s) \ {r}) = 0
        BY <1>4, <2>3, OneLess
    <2>5. IsFiniteSet(Checking(s) \ {r})
        BY <2>3, FS_RemoveElement
    <2>6. Checking(s) \ {r} = {}
        BY <2>4, <2>5, FS_EmptySet
    <2>7. QED
        BY <1>8, <2>2, <2>6
<1>16. Unregistered'
    <2> SUFFICES ASSUME NEW t \in Source, t \notin Registered'
                 PROVE  (FailedLately(t) = {} /\ Checking(t) = {})'
        BY DEF Unregistered
    <2>1. CASE t = s
        BY <1>9, <1>15, <2>1
    <2>2. CASE t # s
        BY <1>7, <2>2 DEF Inv, Unregistered, Registered
    <2>3. QED
        BY <2>1, <2>2
<1>17. HoldsRegistered'
    <2> SUFFICES ASSUME NEW x \in Request, attempt'[x].pc \in InFlight
                 PROVE  sources'[attempt'[x].source] = attempt'[x].bucket
        BY DEF HoldsRegistered
    <2>1. x # r
        BY <1>2 DEF InFlight
    <2>2. attempt'[x] = attempt[x]
        BY <1>3, <2>1
    <2>3. sources[attempt[x].source] = attempt[x].bucket
        BY <2>2, Held
    <2>4. attempt[x].source \in Source
        BY <1>0, Parts
    <2>5. attempt[x].source = s => s \in Registered'
        <3> SUFFICES ASSUME attempt[x].source = s PROVE s \in Registered'
            OBVIOUS
        <3>1. x \in Checking(s) \ {r}
            BY <2>1, <2>2 DEF Checking
        <3>2. QED
            BY <1>8, <1>15, <3>1
    <2>6. sources'[attempt[x].source] = sources[attempt[x].source]
        BY <1>0, <1>4, <1>6, <1>7, <2>4, <2>5 DEF Registered, TypeOK
    <2>7. QED
        BY <2>2, <2>3, <2>6
<1>18. Unused'
    <2> SUFFICES ASSUME NEW x \in Request, attempt'[x].pc = "new"
                 PROVE  failures'[x] = {} /\ inFlight'[x] = 0
        BY DEF Unused
    <2>1. x # r
        BY <1>2
    <2>2. attempt[x].pc = "new"
        BY <1>3, <2>1
    <2>3. x # b
        BY <1>4, <1>5, <2>2 DEF Account
    <2>4. QED
        BY <1>0, <1>6, <2>2, <2>3 DEF Inv, Unused, TypeOK
<1>19. Budget'
    <2>1. FailedLately(s)' \subseteq FailedLately(s) \cup {r}
        BY <1>0, CountsOfOthers
    <2>2. \A t \in Source :
              (FailedLately(t) \cup Checking(t))' \subseteq FailedLately(t) \cup Checking(t)
        BY <1>4, <1>7, <1>8, <2>1
    <2>3. QED
        BY <1>1, <2>2, BudgetShrinks
<1>20. QED
    BY <1>1, <1>14, <1>16, <1>17, <1>18, <1>19 DEF Inv

-----------------------------------------------------------------------------
LEMMA InvStep == Inv /\ [Next]_vars => Inv'
<1> SUFFICES ASSUME Inv, [Next]_vars PROVE Inv'
    OBVIOUS
<1>1. CASE Tick
    BY <1>1, TickStep
<1>2. ASSUME NEW r \in Request, Step(r) PROVE Inv'
    <2>1. PICK s \in Source : s = attempt[r].source
        BY Parts DEF Inv
    <2>2. PICK b : b = attempt[r].bucket
        OBVIOUS
    <2>3. PICK c : c = sources[s]
        OBVIOUS
    <2>4. QED
        BY <1>2, <2>1, <2>2, <2>3, PassStep, RefuseStep, AcquireKnownStep, AcquireNewStep, FinishStep
        DEF Step
<1>3. CASE UNCHANGED vars
    <2>1. UNCHANGED <<now, sources, failures, inFlight, attempt>>
        BY <1>3 DEF vars
    <2>2. TypeOK'
        BY TypeStep
    <2>3. Registered' = Registered /\ Registered \subseteq Source
        BY <2>1 DEF Registered
    <2>4. \A s \in Source : /\ FailedLately(s)' = FailedLately(s)
                             /\ Checking(s)' = Checking(s) /\ Failed(s)' = Failed(s)
        BY <2>1 DEF FailedLately, Recent, Checking, Failed
    <2>5. Accounts'
        BY <2>1, <2>3, <2>4 DEF Inv, Accounts
    <2>6. Unregistered' /\ Budget'
        BY <2>3, <2>4 DEF Inv, Unregistered, Budget
    <2>7. HoldsRegistered' /\ Unused'
        BY <2>1 DEF Inv, HoldsRegistered, Unused
    <2>8. QED
        BY <2>2, <2>5, <2>6, <2>7 DEF Inv
<1>4. QED
    BY <1>1, <1>2, <1>3 DEF Next, Over

LEMMA SpecInv == Spec => []Inv
    BY InitInv, InvStep, PTL DEF Spec

\* The rows of the table and the requests keep their types.
THEOREM TypeCorrect == Spec => []TypeOK
    BY SpecInv, PTL DEF Inv

\* The passwords a source tries in one window, those being checked included, never
\* exceed max_failures, for any number of sources and requests.
THEOREM BudgetHolds == Spec => []Budget
    BY SpecInv, PTL DEF Inv

\* A refusal has its cause: the budget of the source, or a table of active sources.
LEMMA RefusalCause ==
    ASSUME Inv, [Next]_vars, NEW r \in Request, NEW s \in Source, s = attempt[r].source,
           attempt[r].pc # "refused", attempt'[r].pc = "refused"
    PROVE  \/ Cardinality(FailedLately(s) \cup Checking(s)) >= MaxFailures
           \/ Cardinality({t \in Source : FailedLately(t) \cup Checking(t) # {}}) >= MaxSources
<1>1. Refuse(r)
    <2>1. PICK x \in Request : Step(x)
        BY DEF Next, Tick, Over, vars
    <2>2. x = r
        BY <2>1, Others DEF Inv
    <2>3. QED
        BY <2>1, <2>2, Own DEF Step, Inv, InFlight
<1>2. CASE s \in Registered
    BY <1>1, <1>2, Spent DEF Refuse, Exhausted, Inv
<1>3. CASE s \notin Registered
    <2> DEFINE T == {t \in Source : Swept(s)[t] # NoBucket}
               U == {t \in Source : FailedLately(t) \cup Checking(t) # {}}
    <2>1. Sweeps(s) /\ ~HasRoom(s)
        BY <1>1, <1>3 DEF Refuse
    <2>2. T \subseteq U
        <3> SUFFICES ASSUME NEW t \in T PROVE FailedLately(t) \cup Checking(t) # {}
            OBVIOUS
        <3>1. t \in Registered /\ ~Idle(t)
            BY <2>1 DEF Swept, Registered
        <3>2. t \in Source
            OBVIOUS
        <3>3. Expired(sources[t]) = FailedLately(t) /\ inFlight[sources[t]] = Cardinality(Checking(t))
            BY <3>1, ExpiredIsRecent DEF Inv
        <3>4. Checking(t) = {} => Cardinality(Checking(t)) = 0
            BY FS_EmptySet
        <3>5. QED
            BY <3>1, <3>3, <3>4 DEF Idle
    <2>3. IsFiniteSet(U) /\ IsFiniteSet(T)
        BY SourceAssumption, FS_Subset
    <2>4. Cardinality(T) <= Cardinality(U) /\ Cardinality(T) \in Nat /\ Cardinality(U) \in Nat
        BY <2>2, <2>3, FS_Subset, FS_CardinalityType
    <2>5. ~(Cardinality(T) < MaxSources)
        BY <2>1 DEF HasRoom
    <2>6. QED
        BY <2>4, <2>5, Limits
<1>4. QED
    BY <1>2, <1>3

\* A source is refused only while its budget is spent, or while as many other sources
\* as the table takes are active.
THEOREM RefusedForCauseHolds == Spec => RefusedForCause
<1> DEFINE Cause(r) ==
        \/ Cardinality(FailedLately(attempt[r].source)
                       \cup Checking(attempt[r].source)) >= MaxFailures
        \/ Cardinality({s \in Source :
               FailedLately(s) \cup Checking(s) # {}}) >= MaxSources
<1>1. ASSUME Inv, [Next]_vars, NEW r \in Request,
             attempt[r].pc # "refused", attempt'[r].pc = "refused"
      PROVE  Cause(r)
    <2>1. PICK s \in Source : s = attempt[r].source
        BY <1>1, Parts DEF Inv
    <2>2. QED
        BY <1>1, <2>1, RefusalCause
<1>2. Inv /\ [Next]_vars =>
        \A r \in Request : attempt[r].pc # "refused" /\ attempt'[r].pc = "refused" => Cause(r)
    BY <1>1
<1>3. QED
    BY <1>2, SpecInv, PTL DEF Spec, RefusedForCause
=============================================================================

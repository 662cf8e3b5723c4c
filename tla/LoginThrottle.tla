--------------------------- MODULE LoginThrottle ---------------------------
(***************************************************************************)
(* The login budget of a source address (core/login_throttle.py) around    *)
(* the login handler (routers/auth.py).  A handler acquires an attempt,    *)
(* checks the password without the lock and finishes the attempt; both     *)
(* ends hold the lock.  A bucket is an object: the request that created it *)
(* names it, so that an attempt may hold a bucket no longer registered.    *)
(*                                                                         *)
(* The deque of failures is in the order of a monotonic clock: dropping    *)
(* its front while it is old drops all that is old.                        *)
(***************************************************************************)
EXTENDS Naturals, FiniteSets

CONSTANTS
    Source,       \* addresses
    Request,      \* login requests, each made once
    NoBucket,     \* no entry in the table
    MaxFailures,  \* max_failures
    Window,       \* window_seconds
    MaxSources,   \* max_sources
    MaxTime       \* bound on the clock

ASSUME RequestAssumption == IsFiniteSet(Request) /\ NoBucket \notin Request
ASSUME SourceAssumption == IsFiniteSet(Source)
ASSUME LimitAssumption ==
    /\ MaxFailures \in Nat \ {0}
    /\ {Window, MaxSources, MaxTime} \subseteq Nat

VARIABLES
    now,       \* time.monotonic
    sources,   \* the bucket of each source
    failures,  \* of each bucket, the requests whose failure it remembers
    inFlight,  \* of each bucket, the attempts in flight
    attempt    \* what became of each request

vars == <<now, sources, failures, inFlight, attempt>>

-----------------------------------------------------------------------------
\* "open": the password is being checked; "passed": verify_password accepted it.
Pc == {"new", "open", "passed", "refused", "failed", "done"}
Attempt == [pc : Pc, source : Source, bucket : Request, at : 0 .. MaxTime]

InFlight == {"open", "passed"}

\* _expire.
Recent(x) == attempt[x].at + Window > now
\* Slip: the failures are not expired before they are counted.
Remembered(b) == failures[b]

Expired(b) == {x \in failures[b] : Recent(x)}

Registered == {s \in Source : sources[s] # NoBucket}
\* Slip: a source with attempts in flight counts as idle.
NothingFailed(s) == s \in Registered /\ Expired(sources[s]) = {}

Idle(s) == s \in Registered /\ inFlight[sources[s]] = 0 /\ Expired(sources[s]) = {}

\* The table after room was sought for a source it lacks.
Sweeps(s) == s \notin Registered /\ Cardinality(Registered) >= MaxSources
Swept(s) == [t \in Source |-> IF Sweeps(s) /\ Idle(t) THEN NoBucket ELSE sources[t]]
HasRoom(s) ==
    Cardinality({t \in Source : Swept(s)[t] # NoBucket}) < MaxSources

Init ==
    /\ now = 0
    /\ sources = [s \in Source |-> NoBucket]
    /\ failures = [b \in Request |-> {}]
    /\ inFlight = [b \in Request |-> 0]
    /\ attempt \in [Request -> [pc : {"new"}, source : Source, bucket : Request, at : {0}]]
    /\ \A r \in Request : attempt[r].bucket = r

Tick ==
    /\ now < MaxTime
    /\ now' = now + 1
    /\ UNCHANGED <<sources, failures, inFlight, attempt>>

-----------------------------------------------------------------------------
(* LoginThrottle.acquire.                                                  *)

Exhausted(b) == Cardinality(Expired(b)) + inFlight[b] >= MaxFailures

Open(r, b) ==
    /\ inFlight' = [inFlight EXCEPT ![b] = @ + 1]
    /\ attempt' = [attempt EXCEPT ![r].pc = "open", ![r].bucket = b]

AcquireKnown(r) ==
    LET b == sources[attempt[r].source] IN
    /\ attempt[r].pc = "new"
    /\ attempt[r].source \in Registered
    /\ ~Exhausted(b)
    /\ failures' = [failures EXCEPT ![b] = Expired(b)]
    /\ Open(r, b)
    /\ UNCHANGED <<now, sources>>

AcquireNew(r) ==
    LET s == attempt[r].source IN
    /\ attempt[r].pc = "new"
    /\ s \notin Registered
    /\ Sweeps(s) => HasRoom(s)
    /\ sources' = [Swept(s) EXCEPT ![s] = r]
    /\ Open(r, r)
    /\ UNCHANGED <<now, failures>>

Refuse(r) ==
    LET s == attempt[r].source IN
    /\ attempt[r].pc = "new"
    /\ IF s \in Registered THEN Exhausted(sources[s]) ELSE Sweeps(s) /\ ~HasRoom(s)
    /\ sources' = Swept(s)
    /\ attempt' = [attempt EXCEPT ![r].pc = "refused"]
    /\ UNCHANGED <<now, failures, inFlight>>

\* _authenticate_login: the user, if active, and the password match.  Whatever
\* fails after that does not make the attempt a failed one.
Pass(r) ==
    /\ attempt[r].pc = "open"
    /\ attempt' = [attempt EXCEPT ![r].pc = "passed"]
    /\ UNCHANGED <<now, sources, failures, inFlight>>

\* LoginThrottle.finish, called however the handler ends.
Finish(r) ==
    LET b == attempt[r].bucket
        s == attempt[r].source
        failed == attempt[r].pc = "open"
        left == {x \in failures[b] : Recent(x)} \cup {x \in {r} : failed /\ Window > 0}
    IN
    /\ attempt[r].pc \in InFlight
    /\ inFlight' = [inFlight EXCEPT ![b] = @ - 1]
    /\ failures' = [failures EXCEPT ![b] = left]
    /\ attempt' = [attempt EXCEPT ![r].pc = IF failed THEN "failed" ELSE "done",
                                  ![r].at = now]
    /\ sources' = IF left = {} /\ inFlight[b] = 1 /\ sources[s] = b
                  THEN [sources EXCEPT ![s] = NoBucket] ELSE sources
    /\ UNCHANGED now

-----------------------------------------------------------------------------
Step(r) == AcquireKnown(r) \/ AcquireNew(r) \/ Refuse(r) \/ Pass(r) \/ Finish(r)

\* All requests made and answered and the clock at its bound.
Over ==
    /\ now = MaxTime
    /\ \A r \in Request : attempt[r].pc \notin {"new"} \cup InFlight
    /\ UNCHANGED vars

Next == Tick \/ Over \/ \E r \in Request : Step(r)

Spec == Init /\ [][Next]_vars

-----------------------------------------------------------------------------
TypeOK ==
    /\ now \in 0 .. MaxTime
    /\ sources \in [Source -> Request \cup {NoBucket}]
    /\ failures \in [Request -> SUBSET Request]
    /\ inFlight \in [Request -> Nat]
    /\ attempt \in [Request -> Attempt]

\* What the budget is about, told from the requests alone.
FailedLately(s) == {r \in Request : /\ attempt[r].source = s
                                    /\ attempt[r].pc = "failed"
                                    /\ Recent(r)}
Checking(s) == {r \in Request : attempt[r].source = s /\ attempt[r].pc \in InFlight}

\* However acquiring and finishing interleave, and whichever buckets are dropped or
\* evicted and created anew, the passwords a source tries in one window, those
\* being checked included, never exceed max_failures (login_throttle.py:57).
Budget ==
    \A s \in Source :
        Cardinality(FailedLately(s) \cup Checking(s)) <= MaxFailures

\* A source is refused for a reason that still holds: it spent its budget within
\* the window, or as many other sources as the table takes are active.
RefusedForCause ==
    [][\A r \in Request :
         attempt[r].pc # "refused" /\ attempt'[r].pc = "refused" =>
             \/ Cardinality(FailedLately(attempt[r].source)
                            \cup Checking(attempt[r].source)) >= MaxFailures
             \/ Cardinality({s \in Source :
                    FailedLately(s) \cup Checking(s) # {}}) >= MaxSources]_vars
=============================================================================

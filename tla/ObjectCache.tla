------------------------------ MODULE ObjectCache ------------------------------
(* The object cache (controller/object-cache-controller.ts) as a client of  *)
(* response events: resolveObject() discovers an object unless it is cached *)
(* or pending, and shares one request between all callers, each of which    *)
(* takes the first suiting object.  The model follows one object id.        *)
EXTENDS ResponseEvents

CONSTANTS
  ResolveInCallbacks,   \* callbacks may call resolveObject()
  HoldObservables       \* callers may subscribe what they got later

ASSUME CacheSwitches == ResolveInCallbacks \in BOOLEAN /\ HoldObservables \in BOOLEAN

\* The subscriber by which the cache gets the object of request c.
Cacher(c) == <<"cache", c>>

ASSUME CachersAssumption ==
  /\ \A c \in Requests : Cacher(c) \in Internal
  /\ Internal \cap Subscribers = {}

VARIABLES
  running,      \* the communication manager is started
  objectCache,  \* the cached object, if any
  pending,      \* the request in _pendingRequests, if any
  got           \* requests whose observable a caller got from resolveObject()

cacheVars == <<running, objectCache, pending, got>>
allVars == <<vars, cacheVars>>

NoRequest == 0

CacheInit ==
  /\ Init
  /\ running = TRUE /\ objectCache = NoObject /\ pending = NoRequest
  /\ got = [s \in Subscribers |-> NoRequest]

MayResolve == loop = Idle \/ (ResolveInCallbacks /\ loop.running \cap Subscribers # {})

\* resolveObject() of a cached object
ResolveCached(s) ==
  /\ MayResolve
  /\ objectCache # NoObject
  /\ status[s] = "new" /\ got[s] = NoRequest
  /\ status' = [status EXCEPT ![s] = "closed"]
  /\ taken' = [taken EXCEPT ![s] = objectCache]
  /\ UNCHANGED <<session, itemVars, requestVars, answers, request, first, loop, cacheVars>>

\* resolveObject() of an object that is not cached: unless it is pending, it is
\* discovered, and the cache subscribes at once.
ResolveObject(s, shouldResolvePending) ==
  /\ MayResolve
  /\ objectCache = NoObject
  /\ status[s] = "new" /\ got[s] = NoRequest
  /\ IF pending = NoRequest \/ shouldResolvePending
     THEN LET c == issued + 1
          IN /\ c \in Requests
             /\ issued' = c
             /\ issuedIn' = [issuedIn EXCEPT ![c] = session]
             /\ observedResponses' = observedResponses \cup {c}
             /\ bound' = bound \cup {c}
             /\ subscribers' = [subscribers EXCEPT ![c] = <<Cacher(c)>>]
             /\ published' = [published EXCEPT ![c] = 1]
             /\ status' = [status EXCEPT ![Cacher(c)] = "open"]
             /\ request' = [request EXCEPT ![Cacher(c)] = {c}]
             /\ first' = first \cup {Cacher(c)}
             /\ pending' = c
             /\ got' = [got EXCEPT ![s] = c]
             /\ UNCHANGED <<session, finished, answers, taken, loop, running, objectCache>>
     ELSE got' = [got EXCEPT ![s] = pending] /\ UNCHANGED <<vars, running, objectCache, pending>>

\* Callers subscribe what they have got before they do anything else, unless
\* they may hold it.
SomeoneHolds == \E s \in Subscribers : got[s] # NoRequest /\ status[s] = "new"
NobodyHolds == HoldObservables \/ ~SomeoneHolds

CallerSubscribes(s) ==
  /\ got[s] # NoRequest
  /\ Subscribe({got[s]}, s, TRUE)
  /\ UNCHANGED cacheVars

\* Fault: the request stays pending after the object has been cached.
PendingKept == pending

\* The object that was taken is cached, and none is pending any more, whichever
\* request was.
PendingAfter == NoRequest

Dispatch ==
  /\ DispatchNext
  /\ IF \E s \in Reached : s \in Internal /\ Takes(s)
     THEN objectCache' = loop.object /\ pending' = PendingAfter
     ELSE UNCHANGED <<objectCache, pending>>
  /\ UNCHANGED <<running, got>>

\* An object with the id is advertised; it is not checked.
Advertised(o) ==
  /\ loop = Idle /\ running
  /\ objectCache' = IF objectCache = NoObject THEN NoObject ELSE o
  /\ UNCHANGED <<vars, running, pending, got>>

ManagerStops == running /\ Stop /\ running' = FALSE /\ UNCHANGED <<objectCache, pending, got>>

\* Fault: pending requests survive a restart.
ClearCache == objectCache' = NoObject /\ UNCHANGED pending

\* onCommunicationManagerStarting()
Cleared == objectCache' = NoObject /\ pending' = NoRequest

ManagerStarts ==
  /\ ~running /\ ApplicationActs
  /\ running' = TRUE
  /\ Cleared
  /\ UNCHANGED <<vars, got>>

Next ==
  \/ \E s \in Subscribers : CallerSubscribes(s)
  \/ /\ NobodyHolds
     /\ \/ \E n \in 1..2 : PublishRequest(n) /\ UNCHANGED cacheVars
        \/ \E s \in Subscribers, n \in 1..2, c \in 1..issued :
             /\ got[s] = NoRequest
             /\ c + n - 1 <= issued /\ \A d \in c..(c + n - 1) : issuedIn[d] = issuedIn[c] /\ status[Cacher(d)] = "new"
             /\ Subscribe(c..(c + n - 1), s, FALSE)
             /\ UNCHANGED cacheVars
        \/ \E s \in Subscribers : Unsubscribe(s) /\ UNCHANGED cacheVars
        \/ \E c \in 1..issued, o \in Objects, fits \in BOOLEAN : Respond(c, o, fits) /\ UNCHANGED cacheVars
        \/ \E m \in answers : Receive(m) /\ UNCHANGED cacheVars
        \/ CallbackReturns /\ UNCHANGED cacheVars
        \/ DispatchEnds /\ UNCHANGED cacheVars
        \/ Dispatch
        \/ \E s \in Subscribers : ResolveCached(s)
        \/ \E s \in Subscribers, again \in BOOLEAN : ResolveObject(s, again)
        \/ \E o \in Objects : Advertised(o)
        \/ ManagerStops \/ ManagerStarts

Spec == CacheInit /\ [][Next]_allVars

-----------------------------------------------------------------------------

TypeOK ==
  /\ ResponsesTypeOK
  /\ running \in BOOLEAN
  /\ objectCache \in Objects \cup {NoObject}
  /\ pending \in 0..issued
  /\ got \in [Subscribers -> 0..issued]

\* A request that is shared with new callers can still be answered: the cache
\* itself waits for its answer.
PendingIsLive ==
  running /\ pending # NoRequest /\ loop = Idle =>
    /\ Cacher(pending) \in Observers(pending)
    /\ pending \in bound /\ pending \in observedResponses /\ issuedIn[pending] = session

\* A caller waits for an answer only as long as the cache does: what has been
\* resolved is not withheld from those who asked for it.
CallersServed ==
  loop = Idle => \A s \in Subscribers : got[s] # NoRequest /\ status[s] = "open" => Cacher(got[s]) \in Observers(got[s])

\* No caller that subscribes in time is told that it cannot subscribe any more
\* while the manager is started.
CallersNotRejected == \A s \in Subscribers : got[s] # NoRequest /\ got[s] = pending /\ running => status[s] # "rejected"

\* Requests are published once, their responses observed as long as they have
\* subscribers, and never again.
RequestsConsistent == TypeOK /\ ObservedRequestsAnswered /\ FinishedForGood /\ PublishedOnce

\* A pending request of the cache can still be answered, and nobody who waits
\* for it is rejected.
CacheConsistent == PendingIsLive /\ CallersNotRejected

=============================================================================

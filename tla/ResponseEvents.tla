---------------------------- MODULE ResponseEvents ----------------------------
(* Requests with responses (com/communication-manager.ts): the observables *)
(* returned by publishDiscover, publishQuery, publishUpdate and            *)
(* publishCall, the lazy publication of requests, the subscription of      *)
(* responses by correlation id, and their dispatch while callbacks act.    *)
(*                                                                         *)
(* Correlation ids are numbered in the order they are created.  An update  *)
(* of an object with a type of its own is published twice; its observable  *)
(* merges the responses to both requests.  What is done while the dispatch *)
(* loop is active is done in the callback that runs.                       *)
EXTENDS Naturals, Sequences, FiniteSets, SequencesExt

CONSTANTS
  Subscribers,     \* subscribers of the application
  Internal,        \* other subscribers
  Objects,         \* contents of responses
  Suiting,         \* contents for which a subscriber may wait
  MaxRequests,     \* bound on correlation ids
  MaxSessions      \* bound on bindings, one more than the number of stops

Requests == 1..MaxRequests
AllSubscribers == Subscribers \cup Internal
NoObject == "none"

ASSUME ContentsAssumption == Suiting \subseteq Objects /\ NoObject \notin Objects
ASSUME BoundsAssumption == MaxRequests \in Nat /\ MaxSessions \in Nat \ {0}

VARIABLES
  session,            \* number of the current binding
  issued,             \* number of correlation ids created
  issuedIn,           \* session in which a request was created
  observedResponses,  \* correlation ids in _observedResponses
  bound,              \* correlation ids subscribed at the current binding
  subscribers,        \* _subscribers of each request
  finished,           \* requests with _hasLastObserverUnsubscribed
  published,          \* how often a request was published
  answers,            \* responses under way
  status,             \* of a subscriber: new, open, closed, rejected
  request,            \* the requests a subscriber has subscribed
  first,              \* subscribers that take the first suiting response only
  taken,              \* what these have got
  loop                \* the active dispatch loop

itemVars == <<observedResponses, bound, subscribers, finished>>
requestVars == <<issued, issuedIn, published>>
subscriberVars == <<status, request, first, taken>>
vars == <<session, itemVars, requestVars, answers, subscriberVars, loop>>

Idle == [corr |-> 0, index |-> 0, running |-> {}, object |-> NoObject]

Init ==
  /\ session = 1 /\ issued = 0 /\ issuedIn = [c \in Requests |-> 0]
  /\ observedResponses = {} /\ bound = {}
  /\ subscribers = [c \in Requests |-> <<>>]
  /\ finished = {}
  /\ published = [c \in Requests |-> 0]
  /\ answers = {}
  /\ status = [s \in AllSubscribers |-> "new"]
  /\ request = [s \in AllSubscribers |-> {}]
  /\ first = {}
  /\ taken = [s \in AllSubscribers |-> NoObject]
  /\ loop = Idle

ApplicationActs == loop = Idle \/ loop.running # {}

-----------------------------------------------------------------------------

Fresh(n) == (issued + 1)..(issued + n)

\* _publishEvent() of a request: an item is created and the binding subscribes
\* its responses; nothing is published yet.
PublishRequest(n) ==
  /\ ApplicationActs
  /\ issued + n <= MaxRequests
  /\ issued' = issued + n
  /\ issuedIn' = [c \in Requests |-> IF c \in Fresh(n) THEN session ELSE issuedIn[c]]
  /\ observedResponses' = observedResponses \cup Fresh(n)
  /\ bound' = bound \cup Fresh(n)
  /\ UNCHANGED <<session, subscribers, finished, published, answers, subscriberVars, loop>>

\* Fault: a request is published for whoever subscribes it.
PublishedAlways(c) == published[c] + 1

\* The publisher is called for the first subscriber.
Published(c) == IF subscribers[c] = <<>> THEN published[c] + 1 ELSE published[c]

\* Fault: the item does not remember that it is finished.
NeverFinished(cs) == FALSE

IsFinished(cs) == cs \cap finished # {}

Added(cs, s) == [c \in Requests |-> IF c \in cs THEN Append(subscribers[c], s) ELSE subscribers[c]]

\* subscribe() on the observable of the requests cs.
Subscribe(cs, s, takesFirst) ==
  /\ ApplicationActs
  /\ status[s] = "new"
  /\ request' = [request EXCEPT ![s] = cs]
  /\ first' = IF takesFirst THEN first \cup {s} ELSE first
  /\ IF IsFinished(cs)
     THEN status' = [status EXCEPT ![s] = "rejected"] /\ UNCHANGED <<subscribers, published>>
     ELSE /\ status' = [status EXCEPT ![s] = "open"]
          /\ subscribers' = Added(cs, s)
          /\ published' = [c \in Requests |-> IF c \in cs THEN Published(c) ELSE published[c]]
  /\ UNCHANGED <<session, observedResponses, bound, finished, issued, issuedIn, answers, taken, loop>>

\* Fault: the subscription on the binding is kept.
KeepsSubscription(left) == bound

\* What is still subscribed when the requests left have lost their last subscriber.
BoundWithout(left) == bound \ left

\* Fault: whoever has subscribed last is removed.
LastRemoved(c, s) == SubSeq(subscribers[c], 1, Len(subscribers[c]) - 1)

\* SubscriberItem.remove() of a subscriber that is in the array: splice at
\* its index.
SubscribersRemoved(c, s) ==
  LET n == CHOOSE i \in DOMAIN subscribers[c] : subscribers[c][i] = s
  IN [i \in 1..Len(subscribers[c]) - 1 |-> subscribers[c][IF i < n THEN i ELSE i + 1]]

\* Subscriber s leaves the requests cs, of which it may be the last subscriber:
\* the cleanup function deletes the item and unsubscribes its responses,
\* whichever map and binding are in place.
Leaves(cs, s) ==
  LET rest == [c \in Requests |-> IF c \in cs THEN SubscribersRemoved(c, s) ELSE subscribers[c]]
      left == {c \in cs : rest[c] = <<>> /\ subscribers[c] # <<>>}
  IN /\ subscribers' = rest
     /\ finished' = finished \cup left
     /\ observedResponses' = observedResponses \ left
     /\ bound' = BoundWithout(left)

\* unsubscribe(), not by the callback of another subscriber.
Unsubscribe(s) ==
  /\ loop = Idle \/ loop.running = {s}
  /\ status[s] = "open"
  /\ status' = [status EXCEPT ![s] = "closed"]
  /\ Leaves(request[s], s)
  /\ UNCHANGED <<session, requestVars, answers, request, first, taken, loop>>

-----------------------------------------------------------------------------

\* A responder answers a request, once it has been published.  Responses of
\* another type, invalid ones, and such that do not correspond to the request
\* do not fit.
Respond(c, o, fits) ==
  /\ published[c] > 0
  /\ answers' = answers \cup {[corr |-> c, object |-> o, fits |-> fits]}
  /\ UNCHANGED <<session, itemVars, requestVars, subscriberVars, loop>>

IsDispatched(m) == m.corr \in observedResponses /\ m.fits

\* Fault: the loop leaves out the latest subscriber.
BehindNext(c) == Len(subscribers[c])

\* The loop runs from the latest subscriber to the first, as each may leave.
Behind(c) == Len(subscribers[c]) + 1

\* _dispatchEvent() of a response, which the broker delivers to the subscribed.
Receive(m) ==
  /\ loop = Idle
  /\ m \in answers
  /\ answers' = answers \ {m}
  /\ loop' = IF m.corr \in bound /\ IsDispatched(m)
             THEN [corr |-> m.corr, index |-> Behind(m.corr), running |-> {}, object |-> m.object]
             ELSE Idle
  /\ UNCHANGED <<session, itemVars, requestVars, subscriberVars>>

\* first(): whether subscriber s takes the object that is dispatched.
Takes(s) == s \in first /\ taken[s] = NoObject /\ loop.object \in Suiting

\* The subscriber in front of the dispatch loop, if there is one.
Reached == LET i == loop.index - 1 IN IF i \in DOMAIN subscribers[loop.corr] THEN {subscribers[loop.corr][i]} ELSE {}

\* dispatchNext(): the callback of the next subscriber runs.
DispatchNext ==
  /\ loop.corr # 0 /\ loop.running = {} /\ Reached # {}
  /\ loop' = [loop EXCEPT !.index = @ - 1, !.running = Reached]
  /\ taken' = [s \in AllSubscribers |-> IF s \in Reached /\ Takes(s) THEN loop.object ELSE taken[s]]
  /\ UNCHANGED <<session, itemVars, requestVars, answers, status, request, first>>

\* The callback returns; who has taken the first response is unsubscribed.
CallbackReturns ==
  /\ loop.running # {}
  /\ loop' = [loop EXCEPT !.running = {}]
  /\ \E s \in loop.running :
       IF status[s] = "open" /\ taken[s] # NoObject
       THEN status' = [status EXCEPT ![s] = "closed"] /\ Leaves(request[s], s)
       ELSE UNCHANGED <<status, itemVars>>
  /\ UNCHANGED <<session, requestVars, answers, request, first, taken>>

\* The loop ends, also by an exception if subscribers have disappeared.
DispatchEnds ==
  /\ loop.corr # 0 /\ loop.running = {} /\ Reached = {}
  /\ loop' = Idle
  /\ UNCHANGED <<session, itemVars, requestVars, answers, subscriberVars>>

Observers(c) == ToSet(subscribers[c])

\* Fault: subscribers stay open when the manager stops.
CompletesNobody(s) == FALSE

\* Whom _unobserveObservedItems() completes: the subscribers of observed items.
\* One that merges two requests is complete when both are.
Completed(s) == status[s] = "open" /\ request[s] \subseteq observedResponses

\* stop(): items are completed and forgotten, and a new binding is created.
Stop ==
  /\ ApplicationActs
  /\ session < MaxSessions
  /\ session' = session + 1
  /\ finished' = finished \cup {c \in observedResponses : subscribers[c] # <<>>}
  /\ subscribers' = [c \in Requests |-> IF c \in observedResponses THEN <<>> ELSE subscribers[c]]
  /\ status' = [s \in AllSubscribers |-> IF Completed(s) THEN "closed" ELSE status[s]]
  /\ observedResponses' = {}
  /\ bound' = {}
  /\ UNCHANGED <<requestVars, answers, request, first, taken, loop>>

-----------------------------------------------------------------------------

\* Requests and subscribers have their types, and subscribers are where their
\* status says.
ResponsesTypeOK ==
  /\ session \in 1..MaxSessions /\ issued \in 0..MaxRequests
  /\ issuedIn \in [Requests -> 0..session]
  /\ observedResponses \cup bound \cup finished \subseteq 1..issued
  /\ \A c \in Requests : \A i \in DOMAIN subscribers[c] :
       LET s == subscribers[c][i] IN s \in AllSubscribers /\ status[s] = "open" /\ c \in request[s]
  /\ \A s \in AllSubscribers : status[s] = "open" => \A c \in request[s] : s \in ToSet(subscribers[c])
  /\ published \in [Requests -> Nat]
  /\ answers \subseteq [corr : 1..issued, object : Objects, fits : BOOLEAN]
  /\ status \in [AllSubscribers -> {"new", "open", "closed", "rejected"}]
  /\ request \in [AllSubscribers -> SUBSET (1..issued)]
  /\ taken \in [AllSubscribers -> Objects \cup {NoObject}]

\* As long as somebody observes a request of the current session, it is
\* published and its responses are subscribed and dispatched.
ObservedRequestsAnswered ==
  \A c \in 1..issued :
    issuedIn[c] = session /\ subscribers[c] # <<>> => published[c] = 1 /\ c \in observedResponses /\ c \in bound

\* Nothing is left of a request after its last subscriber: neither an item nor
\* a subscription, and no subscriber gets in again.
FinishedForGood == \A c \in finished : c \notin observedResponses \cup bound /\ subscribers[c] = <<>>

\* A request is published once at most, whoever subscribes and unsubscribes.
PublishedOnce == \A c \in Requests : published[c] <= 1

\* A callback runs only for a subscriber that still waits: a late or repeated
\* response reaches nobody who has left, who has taken his response already -
\* also by another callback of the same dispatch - or whose observable was
\* completed by a restart.
LateResponsesDropped ==
  [][\A s \in loop'.running \ loop.running :
       /\ status[s] = "open" /\ taken[s] = NoObject
       /\ loop.corr \in request[s] \cap observedResponses
       /\ issuedIn[loop.corr] = session]_vars
=============================================================================

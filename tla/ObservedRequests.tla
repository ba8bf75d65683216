--------------------------- MODULE ObservedRequests ---------------------------
(***************************************************************************)
(* Observing one kind of inbound event through the communication manager   *)
(* (com/communication-manager.ts): the observables handed out by           *)
(* _observeRequest(), their subscribers, the subscription on the binding   *)
(* they share, and the loop that dispatches an event to all subscribers    *)
(* while their callbacks subscribe, unsubscribe and stop at will.          *)
(*                                                                         *)
(* The model follows a single request id.  Observables are identified with *)
(* their ObservedRequestItem and numbered in the order of creation.        *)
(* Callbacks run synchronously inside the dispatch loop, so operations     *)
(* taken while the loop is active are those of the callback that has been  *)
(* invoked last.                                                           *)
(***************************************************************************)
EXTENDS Naturals, Sequences, FiniteSets, Functions

CONSTANTS
    Subscribers,        \* RxJS subscribers; each one subscribes once
    MaxItems,           \* bound on the number of observables created
    HoldObservables,    \* an observable may be subscribed any time after it
                        \* was returned, not only immediately
    UnsubscribeOthers   \* a callback may unsubscribe other subscribers

ASSUME ParametersAssumption ==
    /\ MaxItems \in Nat \ {0}
    /\ HoldObservables \in BOOLEAN
    /\ UnsubscribeOthers \in BOOLEAN

NoItem == 0
Items == 1 .. MaxItems

VARIABLES
    mapped,         \* the item in _observedRequests, if any
    bindingSub,     \* the current binding is subscribed to the event
    created,        \* number of items created so far
    fresh,          \* items created since the manager was stopped last
    cleanup,        \* items whose cleanup function has not been called
    subscribers,    \* _subscribers of each item
    status,         \* of a subscriber: "new", "open" or "closed"
    loop,           \* the active dispatchNext() loop: its item, index i, and
                    \* the subscriber whose callback is running
    delivered,      \* how often the last event was delivered to a subscriber
    expecting       \* subscribers present when its dispatch started

vars == <<mapped, bindingSub, created, fresh, cleanup, subscribers, status,
          loop, delivered, expecting>>

itemVars == <<mapped, bindingSub, created, fresh, cleanup>>
loopVars == <<loop, delivered, expecting>>

Idle == [item |-> NoItem, index |-> 0, running |-> {}]

TypeOK ==
    /\ mapped \in Items \cup {NoItem}
    /\ bindingSub \in BOOLEAN
    /\ created \in 0 .. MaxItems
    /\ fresh \subseteq 1 .. created
    /\ cleanup \subseteq 1 .. created
    /\ subscribers \in [Items -> Seq({s \in Subscribers : status[s] = "open"})]
    /\ status \in [Subscribers -> {"new", "open", "closed"}]
    /\ loop \in [item : Items \cup {NoItem}, index : Nat, running : SUBSET Subscribers]
    /\ delivered \in [Subscribers -> Nat]
    /\ expecting \subseteq Subscribers

Init ==
    /\ mapped = NoItem
    /\ bindingSub = FALSE
    /\ created = 0
    /\ fresh = {}
    /\ cleanup = {}
    /\ subscribers = [k \in Items |-> <<>>]
    /\ status = [s \in Subscribers |-> "new"]
    /\ loop = Idle
    /\ delivered = [s \in Subscribers |-> 0]
    /\ expecting = {}

------------------------------------------------------------------------------
(* Observing                                                               *)

\* The application acts between events or in the callback that is running.
ApplicationActs == loop = Idle \/ loop.running # {}

\* _observeRequest() when the request is not observed yet: a new item is
\* created and the binding subscribes.  Otherwise the observable of the
\* mapped item is returned and nothing changes.
ObserveRequest ==
    /\ ApplicationActs
    /\ mapped = NoItem
    /\ created < MaxItems
    /\ created' = created + 1
    /\ mapped' = created'
    /\ fresh' = fresh \cup {created'}
    /\ cleanup' = cleanup \cup {created'}
    /\ bindingSub' = TRUE
    /\ UNCHANGED <<subscribers, status, loopVars>>

\* SubscriberItem.add()
SubscribersAdded(k, s) == Append(subscribers[k], s)

\* subscribe() on the observable of item k.  An observable that is used
\* immediately is the one of the mapped item.
Subscribe(k, s) ==
    /\ ApplicationActs
    /\ IF HoldObservables THEN k \in 1 .. created ELSE k = mapped
    /\ status[s] = "new"
    /\ status' = [status EXCEPT ![s] = "open"]
    /\ subscribers' = [subscribers EXCEPT ![k] = SubscribersAdded(k, s)]
    /\ UNCHANGED <<itemVars, loopVars>>

\* Fault: a subscriber that unsubscribes stays in the array.
SubscribersKept(k, s) == subscribers[k]

\* SubscriberItem.remove() of a subscriber that is in the array: splice at
\* its index.
SubscribersRemoved(k, s) ==
    LET n == CHOOSE i \in DOMAIN subscribers[k] : subscribers[k][i] = s
    IN  [i \in 1 .. Len(subscribers[k]) - 1 |->
            IF i < n THEN subscribers[k][i] ELSE subscribers[k][i + 1]]

\* Fault: only the map is cleaned up.
CleanUpMapOnly == mapped' = NoItem /\ UNCHANGED bindingSub

\* The cleanup function of an item: the entry of the request id is deleted
\* and the binding unsubscribes, whichever map and binding are in place.
CleanUp == mapped' = NoItem /\ bindingSub' = FALSE

\* Fault: cleanup does not wait for the last subscriber to leave.
SomeoneLeft(k) == k \in cleanup

\* The last subscriber has left and the cleanup function is still defined.
LastOneLeft(k) == k \in cleanup /\ subscribers'[k] = <<>>

\* unsubscribe(), by the application or by a callback: the last subscriber
\* of an item that leaves cleans it up, once.
Unsubscribe(k, s) ==
    /\ ApplicationActs
    /\ s \in Range(subscribers[k])
    /\ loop.item # NoItem /\ ~UnsubscribeOthers => s \in loop.running
    /\ status' = [status EXCEPT ![s] = "closed"]
    /\ subscribers' = [subscribers EXCEPT ![k] = SubscribersRemoved(k, s)]
    /\ \/ /\ LastOneLeft(k)
          /\ CleanUp
          /\ cleanup' = cleanup \ {k}
       \/ /\ ~LastOneLeft(k)
          /\ UNCHANGED <<mapped, bindingSub, cleanup>>
    /\ UNCHANGED <<created, fresh, loopVars>>

\* stop(), maybe by a callback: the subscribers of the mapped item are
\* completed, which cleans it up; maps and binding are replaced.
Stop ==
    /\ ApplicationActs
    /\ LET completed == {k \in Items : k = mapped /\ subscribers[k] # <<>>}
       IN  /\ status' = [s \in Subscribers |->
                  IF \E k \in completed : s \in Range(subscribers[k])
                  THEN "closed" ELSE status[s]]
           /\ cleanup' = cleanup \ completed
           /\ subscribers' = [k \in Items |->
                  IF k \in completed THEN <<>> ELSE subscribers[k]]
    /\ fresh' = {}
    /\ CleanUp
    /\ UNCHANGED <<created, loopVars>>

------------------------------------------------------------------------------
(* Dispatching an inbound event                                            *)

\* _dispatchEvent(): the event goes to the mapped item, from the subscriber
\* added last to the one added first.
StartDispatch ==
    /\ loop = Idle
    /\ mapped # NoItem
    /\ bindingSub
    /\ loop' = [item |-> mapped, index |-> Len(subscribers[mapped]), running |-> {}]
    /\ delivered' = [s \in Subscribers |-> 0]
    /\ expecting' = Range(subscribers[mapped])
    /\ UNCHANGED <<itemVars, subscribers, status>>

\* Fault: the loop counts upwards to the number of subscribers at its start.
SubscriberAtForward(k, i) ==
    LET n == Cardinality(expecting) + 1 - i
    IN  IF n \in DOMAIN subscribers[k] THEN {subscribers[k][n]} ELSE {}

\* Fault: the loop counts back from the current end of the array.
SubscriberAtFromEnd(k, i) ==
    LET n == Len(subscribers[k]) - (Cardinality(expecting) - i)
    IN  IF n \in DOMAIN subscribers[k] THEN {subscribers[k][n]} ELSE {}

\* The subscriber at index i, which may not exist any more.
SubscriberAt(k, i) ==
    IF i \in DOMAIN subscribers[k] THEN {subscribers[k][i]} ELSE {}

\* One iteration of dispatchNext(): next() on the subscriber at the index.
DispatchNext ==
    /\ loop.item # NoItem
    /\ loop.index > 0
    /\ \E s \in SubscriberAt(loop.item, loop.index) :
          /\ delivered' = [delivered EXCEPT ![s] = @ + 1]
          /\ loop' = [loop EXCEPT !.index = @ - 1, !.running = {s}]
    /\ UNCHANGED <<itemVars, subscribers, status, expecting>>

\* The loop is through, or it fails with a TypeError, which the binding
\* catches, because there is no subscriber at the index any more.
DispatchEnds ==
    /\ loop.item # NoItem
    /\ loop.index = 0 \/ SubscriberAt(loop.item, loop.index) = {}
    /\ loop' = Idle
    /\ UNCHANGED <<itemVars, subscribers, status, delivered, expecting>>

Next ==
    \/ ObserveRequest
    \/ \E k \in Items, s \in Subscribers : Subscribe(k, s) \/ Unsubscribe(k, s)
    \/ Stop
    \/ StartDispatch
    \/ DispatchNext
    \/ DispatchEnds

Spec == Init /\ [][Next]_vars

------------------------------------------------------------------------------
(* Properties                                                              *)

\* The binding is subscribed exactly as long as an item is mapped, so that
\* no event arrives that nobody observes and none is missed that somebody
\* observes: through unsubscribing, observing anew, and stopping.
SubscribedWhileMapped == bindingSub <=> mapped # NoItem

\* A subscriber of an observable that was created since the manager has been
\* stopped last receives the events of its request.
OpenSubscribersReceive ==
    \A k \in fresh : subscribers[k] # <<>> => mapped = k /\ bindingSub

\* An event is delivered to a subscriber once at most, although callbacks
\* change the array that the dispatch loop walks through.
DeliveredAtMostOnce ==
    \A s \in Subscribers : delivered[s] <= 1

\* When the dispatch of an event has ended, each subscriber that was there
\* from its start and is still there has received it.
DeliveredToAll ==
    loop = Idle =>
        \A s \in expecting : status[s] = "open" => delivered[s] = 1

\* Whoever is subscribed to an observable of the current registry is reached
\* by events: the binding is subscribed as long as the request id is mapped.
ObserversServed == TypeOK /\ SubscribedWhileMapped /\ OpenSubscribersReceive

\* A subscriber gets each event exactly once, even if callbacks subscribe,
\* unsubscribe themselves or stop the manager while the event is dispatched.
DeliveredOnce == DeliveredAtMostOnce /\ DeliveredToAll

==============================================================================

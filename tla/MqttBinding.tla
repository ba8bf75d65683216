----------------------------- MODULE MqttBinding -----------------------------
(***************************************************************************)
(* The MQTT communication binding of a Coaty agent: class MqttBinding      *)
(* (com/mqtt/mqtt-binding.ts) on top of its base class                     *)
(* CommunicationBinding (com/communication-binding.ts).                    *)
(*                                                                         *)
(* A binding lives through Initialized -> Joined -> Unjoined exactly once. *)
(* It keeps a queue of pending publications that is drained one item at a  *)
(* time through the MQTT.js client, the set of subscriptions issued by the *)
(* communication manager, and the options it was joined with: the join     *)
(* events to be published first on every (re)connection and the unjoin     *)
(* event that is published on unjoining and doubles as the last will.      *)
(*                                                                         *)
(* JavaScript runs each handler to completion, so one handler is one       *)
(* action.  The publish callback of MQTT.js is invoked either within       *)
(* client.publish() or, when the socket buffer is full, later on; a        *)
(* callback that runs at once is the same as one that runs as the very     *)
(* next step, so every written item waits for its callback here            *)
(* (variable inflight).  The MQTT.js client and the broker are external    *)
(* and are described by what the binding relies on:                        *)
(*   - publishing without a connection, or after end(), fails at once;     *)
(*   - a callback that still waits when the connection breaks never runs;  *)
(*   - sessions are clean: subscriptions are gone with the connection;     *)
(*   - the broker publishes the last will when a session ends other than   *)
(*     by an orderly end().                                                *)
(***************************************************************************)
EXTENDS Naturals, Sequences, FiniteSets, Functions

CONSTANTS
    Events,         \* application events handed to publish()
    JoinEvents,     \* joinOptions.joinEvents, a sequence
    UnjoinEvent,    \* joinOptions.unjoinEvent
    Topic,          \* the MQTT topic of each event
    BadTopic,       \* Raw events whose topic onPublish() rejects
    BadPayload,     \* events whose data cannot be encoded
    Subs,           \* subscriptions that can be issued: [type, filter]
    BadSubs,        \* subscriptions whose topic onSubscribe() rejects
    MaxPublish,     \* bound on the number of publish() calls accepted
    MaxLosses       \* bound on the number of lost connections

AllEvents == Events \cup Range(JoinEvents) \cup {UnjoinEvent}

NoItem == [id |-> 0, ev |-> UnjoinEvent]

SubTypes == {"Raw", "IoValue", "Coaty"}

ASSUME EventsAssumption ==
    /\ JoinEvents \in Seq(Range(JoinEvents))
    /\ UnjoinEvent \notin Events \cup Range(JoinEvents)
    /\ Events \cap Range(JoinEvents) = {}
    /\ DOMAIN Topic = AllEvents
    /\ BadTopic \subseteq Events
    /\ BadPayload \subseteq Events

\* Two different subscriptions share a topic filter only if one is Raw and
\* the other one IoValue: the filter of any other event starts with the
\* Coaty protocol levels and names the event type, and such a filter is
\* rejected for Raw events and external IO routes.
ASSUME SubsAssumption ==
    /\ \A s \in Subs : s.type \in SubTypes
    /\ \A s, t \in Subs :
          s.filter = t.filter /\ s # t => {s.type, t.type} = {"Raw", "IoValue"}
    /\ BadSubs \subseteq Subs

ASSUME BoundsAssumption == MaxPublish \in Nat /\ MaxLosses \in Nat

VARIABLES
    state,      \* CommunicationBinding._state
    client,     \* MqttBinding._client, by what it can do
    session,    \* the broker has an open session for the client
    draining,   \* _isDrainingPublications
    pending,    \* _pendingPublicationItems
    inflight,   \* the item whose publish callback is awaited
    issued,     \* _issuedSubscriptionItems
    online,     \* the communication state emitted last
    promise,    \* the promise returned by unjoin()
    brokerSubs, \* topic filters subscribed in the broker session
    wire,       \* items written to the connection of the current session
    lastSeen,   \* the last event of this agent known to others when no
                \* session is open
    \* History, by the identity of items: accepted by publish(), accepted
    \* while connected, written to some connection; connections lost.
    nextId, accepted, live, handed, losses

queueVars == <<draining, pending, inflight>>
subVars   == <<issued, brokerSubs>>
histVars  == <<nextId, accepted, live, handed, losses>>
vars == <<state, client, session, online, promise, wire, lastSeen,
          queueVars, subVars, histVars>>

Item == [id : Nat \ {0}, ev : AllEvents]

TypeOK ==
    /\ state \in {"Initialized", "Joined", "Unjoined"}
    /\ client \in {"none", "offline", "connected", "ending"}
    /\ session \in BOOLEAN
    /\ draining \in BOOLEAN
    /\ pending \in Seq(Item)
    /\ inflight \in Item \cup {NoItem}
    /\ issued \subseteq Subs
    /\ online \in BOOLEAN
    /\ promise \in {"none", "pending", "resolved"}
    /\ brokerSubs \subseteq {s.filter : s \in Subs}
    /\ wire \in Seq(Item)
    /\ lastSeen \in {"nothing", "unjoin", "other"}
    /\ nextId \in Nat \ {0}
    /\ accepted \subseteq Nat
    /\ live \subseteq accepted
    /\ handed \subseteq Nat
    /\ losses \in Nat

\* _reset(), called by onInit(): no client, empty queues.
Init ==
    /\ state = "Initialized"
    /\ client = "none"
    /\ session = FALSE
    /\ draining = FALSE
    /\ pending = <<>>
    /\ inflight = NoItem
    /\ issued = {}
    /\ online = FALSE
    /\ promise = "none"
    /\ brokerSubs = {}
    /\ wire = <<>>
    /\ lastSeen = "nothing"
    /\ nextId = 1
    /\ accepted = {}
    /\ live = {}
    /\ handed = {}
    /\ losses = 0

------------------------------------------------------------------------------
(* Draining the publication queue                                          *)

HasUnjoin(q) == \E i \in DOMAIN q : q[i].ev = UnjoinEvent

\* client.publish() of the queue's first item on a connected client: the
\* item is written and its callback is awaited.
Write(q, w) ==
    /\ draining' = TRUE
    /\ inflight' = Head(q)
    /\ wire' = Append(w, Head(q))
    /\ handed' = handed \cup {Head(q).id}

\* client.publish() on a disconnected or disconnecting client: draining
\* stops, all items stay queued and their callbacks are told the failure.
\* Only the unjoin event has a callback; it ends the client forcibly.
WriteFails(q, c, w) ==
    /\ draining' = FALSE
    /\ inflight' = NoItem
    /\ client' = IF HasUnjoin(q) THEN "ending" ELSE c
    /\ wire' = w
    /\ UNCHANGED handed

\* Fault: the drain flag is not reset when the queue has run empty.
StopDrainingStuck(c, w) ==
    /\ draining' = TRUE
    /\ inflight' = NoItem
    /\ client' = c
    /\ wire' = w
    /\ UNCHANGED handed

\* Nothing to publish, or nothing to publish with.
StopDraining(c, w) ==
    /\ draining' = FALSE
    /\ inflight' = NoItem
    /\ client' = c
    /\ wire' = w
    /\ UNCHANGED handed

\* _doDrainPublications() with queue q, client c and session log w.
DoDrainPublications(q, c, w) ==
    \/ /\ c = "none" \/ q = <<>>
       /\ StopDraining(c, w)
    \/ /\ c = "connected" /\ q # <<>>
       /\ Write(q, w)
       /\ client' = c
    \/ /\ c \in {"offline", "ending"} /\ q # <<>>
       /\ WriteFails(q, c, w)

\* Fault: the drain flag is not tested.
DrainRegardless(q) == DoDrainPublications(q, client, wire)

\* _drainPublications(): at most one chain of callbacks drains the queue.
DrainPublications(q) ==
    \/ /\ draining
       /\ UNCHANGED <<draining, inflight, client, wire, handed>>
    \/ /\ ~draining
       /\ DoDrainPublications(q, client, wire)

\* Fault: one item too many is spliced out of the queue.
WithoutTwo(q, item) ==
    IF \E i \in DOMAIN q : q[i] = item
    THEN LET i == CHOOSE i \in DOMAIN q : q[i] = item
         IN  SubSeq(q, 1, i - 1) \o SubSeq(q, i + 2, Len(q))
    ELSE q

\* The queue without the given item, which is looked up by identity.
Without(q, item) ==
    IF \E i \in DOMAIN q : q[i] = item
    THEN LET i == CHOOSE i \in DOMAIN q : q[i] = item
         IN  SubSeq(q, 1, i - 1) \o SubSeq(q, i + 1, Len(q))
    ELSE q

------------------------------------------------------------------------------
(* Operations called by the communication manager                          *)

\* Fault: join() accepts an unjoined binding.
JoinUnjoined ==
    /\ state # "Joined"
    /\ client = "none"
    /\ state' = "Joined"
    /\ client' = "offline"
    /\ UNCHANGED <<session, online, promise, wire, lastSeen, queueVars,
                   subVars, histVars>>

\* join(): only the Initialized state lets it through.  onJoin() creates the
\* client, which starts connecting.
Join ==
    /\ state = "Initialized"
    /\ state' = "Joined"
    /\ client' = "offline"
    /\ UNCHANGED <<session, online, promise, wire, lastSeen, queueVars,
                   subVars, histVars>>

\* publish(): discarded when Unjoined.  A rejected topic is ignored; a
\* payload that cannot be encoded queues nothing, but draining is tried.
Publish(e) ==
    /\ state # "Unjoined"
    /\ e \notin BadTopic
    /\ Cardinality(accepted) < MaxPublish
    /\ \/ /\ e \in BadPayload
          /\ pending' = pending
          /\ UNCHANGED <<nextId, accepted, live>>
       \/ /\ e \notin BadPayload
          /\ pending' = Append(pending, [id |-> nextId, ev |-> e])
          /\ nextId' = nextId + 1
          /\ accepted' = accepted \cup {nextId}
          /\ live' = IF client = "connected" THEN live \cup {nextId} ELSE live
    /\ DrainPublications(pending')
    /\ UNCHANGED <<state, session, online, promise, lastSeen, subVars, losses>>

\* subscribe(): discarded when Unjoined or when the topic is rejected.  A
\* subscription is sent right away only over a connection.
Subscribe(s) ==
    /\ state # "Unjoined"
    /\ s \notin BadSubs
    /\ issued' = issued \cup {s}
    /\ brokerSubs' = IF client = "connected" THEN brokerSubs \cup {s.filter}
                                             ELSE brokerSubs
    /\ UNCHANGED <<state, client, session, online, promise, wire, lastSeen,
                   queueVars, histVars>>

\* Fault: Raw and IoValue subscriptions on one filter are not related.
NoOtherEventType(type) == "none"

\* The event type that may use the same topic filter as a subscription.
OtherEventType(type) ==
    CASE type = "Raw"     -> "IoValue"
      [] type = "IoValue" -> "Raw"
      [] OTHER            -> "none"

\* unsubscribe(): the broker keeps the filter when the other event type is
\* still subscribed on it.
Unsubscribe(s) ==
    /\ state # "Unjoined"
    /\ s \in issued
    /\ issued' = issued \ {s}
    /\ brokerSubs' =
          IF \/ client # "connected"
             \/ \E t \in issued' : /\ t.type = OtherEventType(s.type)
                                   /\ t.filter = s.filter
          THEN brokerSubs
          ELSE brokerSubs \ {s.filter}
    /\ UNCHANGED <<state, client, session, online, promise, wire, lastSeen,
                   queueVars, histVars>>

\* unjoin() before join(): _reset(), and the promise is resolved at once.
UnjoinInitialized ==
    /\ state = "Initialized"
    /\ state' = "Unjoined"
    /\ promise' = "resolved"
    /\ pending' = <<>>
    /\ issued' = {}
    /\ draining' = FALSE
    /\ online' = FALSE
    /\ UNCHANGED <<client, session, wire, lastSeen, inflight, brokerSubs,
                   histVars>>

\* unjoin() after join(): the unjoin event is queued behind all pending
\* publications and the queue is drained.
UnjoinJoined ==
    /\ state = "Joined"
    /\ state' = "Unjoined"
    /\ promise' = "pending"
    /\ pending' = Append(pending, [id |-> nextId, ev |-> UnjoinEvent])
    /\ nextId' = nextId + 1
    /\ DrainPublications(pending')
    /\ UNCHANGED <<session, online, lastSeen, subVars, accepted,
                   live, losses>>

------------------------------------------------------------------------------
(* Handlers of the MQTT.js client                                          *)

\* Fault: join events are queued even if they are queued already.
AllJoinEvents(q) == DOMAIN JoinEvents

\* Join events that the connect handler has to queue: it walks through them
\* backwards and skips one whose topic is queued already, be it left over
\* from an earlier session or put there by an earlier iteration.
MissingJoinEvents(q) ==
    {i \in DOMAIN JoinEvents :
        /\ \A k \in DOMAIN q : Topic[q[k].ev] # Topic[JoinEvents[i]]
        /\ \A j \in DOMAIN JoinEvents :
              j > i => Topic[JoinEvents[j]] # Topic[JoinEvents[i]]}

\* The ways to list some of the join events.
JoinLists ==
    UNION {[1 .. n -> DOMAIN JoinEvents] : n \in 0 .. Len(JoinEvents)}

\* f lists the missing join events in their given order.
ListsMissing(f, q) ==
    /\ Range(f) = MissingJoinEvents(q)
    /\ \A a, b \in DOMAIN f : a < b => f[a] < f[b]

\* "connect": all issued subscriptions are subscribed, missing join events
\* are queued first, and draining starts over.
Connect ==
    /\ client = "offline"
    /\ session' = TRUE
    /\ online' = TRUE
    /\ brokerSubs' = {s.filter : s \in issued}
    /\ \E f \in JoinLists :
          /\ ListsMissing(f, pending)
          /\ nextId' = nextId + Len(f)
          /\ pending' = [k \in DOMAIN f |->
                            [id |-> nextId + k - 1, ev |-> JoinEvents[f[k]]]]
                        \o pending
    /\ DoDrainPublications(pending', "connected", <<>>)
    /\ UNCHANGED <<state, promise, lastSeen, issued, accepted, live,
                   losses>>

\* The publish callback without error: the item leaves the queue, the unjoin
\* event's callback ends the client in order, and draining goes on.
Published ==
    /\ inflight # NoItem
    /\ pending' = Without(pending, inflight)
    /\ DoDrainPublications(pending',
                           IF inflight.ev = UnjoinEvent THEN "ending" ELSE client,
                           wire)
    /\ UNCHANGED <<state, session, online, promise, lastSeen, subVars, nextId,
                   accepted, live, losses>>

\* Fault: the client is created without a last will.
NoLastWill == "undefined"

\* What others learn from the broker when a session breaks.
LastWill == "unjoin"

\* Fault: going offline is not reported.
GoOfflineSilently ==
    /\ draining' = TRUE
    /\ UNCHANGED online

\* The handlers of "offline" and "close".
GoOffline ==
    /\ draining' = TRUE
    /\ online' = FALSE

\* "offline" and "close" on a broken connection: draining stops until the
\* next reconnect, a callback that is still awaited never runs, and the
\* broker publishes the last will.
LoseConnection ==
    /\ session
    /\ losses < MaxLosses
    /\ losses' = losses + 1
    /\ session' = FALSE
    /\ client' = IF client = "connected" THEN "offline" ELSE client
    /\ GoOffline
    /\ inflight' = NoItem
    /\ brokerSubs' = {}
    /\ wire' = <<>>
    /\ lastSeen' = LastWill
    /\ UNCHANGED <<state, promise, pending, issued, nextId, accepted, live,
                   handed>>

\* "offline" and "close" on a connection attempt that failed.
ConnectFails ==
    /\ client = "offline"
    /\ GoOffline
    /\ UNCHANGED <<state, client, session, promise, wire, lastSeen, pending,
                   inflight, subVars, histVars>>

\* "error": a refused connection or a packet that cannot be parsed.
ClientError ==
    /\ client \in {"offline", "connected"}
    /\ online' = FALSE
    /\ UNCHANGED <<state, client, session, promise, wire, lastSeen, queueVars,
                   subVars, histVars>>

\* The callback of client.end(): handlers are deregistered, _reset() forgets
\* all queues and the promise is resolved.  If the session was still open,
\* the broker has seen all that was written and discards the last will.
Ended ==
    /\ client = "ending"
    /\ client' = "none"
    /\ session' = FALSE
    /\ lastSeen' = IF ~session THEN lastSeen
                   ELSE IF wire # <<>> /\ wire[Len(wire)].ev = UnjoinEvent
                        THEN "unjoin" ELSE "other"
    /\ draining' = FALSE
    /\ pending' = <<>>
    /\ inflight' = NoItem
    /\ issued' = {}
    /\ brokerSubs' = {}
    /\ wire' = <<>>
    /\ online' = FALSE
    /\ promise' = "resolved"
    /\ UNCHANGED <<state, histVars>>

Next ==
    \/ Join
    \/ \E e \in Events : Publish(e)
    \/ \E s \in Subs : Subscribe(s) \/ Unsubscribe(s)
    \/ UnjoinInitialized
    \/ UnjoinJoined
    \/ Connect
    \/ Published
    \/ LoseConnection
    \/ ConnectFails
    \/ ClientError
    \/ Ended

Spec == Init /\ [][Next]_vars

\* A connection that is up makes progress and an ended client reports it:
\* both are timer and socket events of MQTT.js.
ClientFairness == WF_vars(Published) /\ WF_vars(Ended)

\* MQTT.js reconnects periodically; here the broker is reachable eventually.
BrokerFairness == WF_vars(Connect)

ClientFairSpec == Spec /\ ClientFairness
FairSpec       == Spec /\ ClientFairness /\ BrokerFairness

------------------------------------------------------------------------------
(* Properties                                                              *)

IsJoin(item) == item.ev \in Range(JoinEvents)

\* While connected, the broker session holds exactly the filters of the
\* issued subscriptions: across reconnects, deferred subscriptions, and Raw
\* and IoValue subscriptions that share a filter (_removeSubscriptionItem).
SubscriptionsInSync ==
    client = "connected" => brokerSubs = {s.filter : s \in issued}

\* The drain flag never gets stuck: while connected, a non-empty queue always
\* has a publish callback underway that will continue draining
\* (_isDrainingPublications is set and reset in seven places).
NoStall ==
    client = "connected" /\ pending # <<>> => inflight # NoItem

\* Within one broker session application events and the unjoin event are
\* written in the order of their publication and none is written twice, even
\* if publish() is called while an earlier callback is awaited.
FifoPerSession ==
    \A a, b \in DOMAIN wire :
        /\ a < b
        /\ ~IsJoin(wire[a]) /\ ~IsJoin(wire[b])
        => wire[a].id < wire[b].id

\* An accepted publication stays queued until it has been written, over any
\* number of lost connections; an unjoin that completes after the agent has
\* been online has written all of them.
NothingLost ==
    /\ promise # "resolved" =>
          \A id \in accepted \ handed : \E k \in DOMAIN pending : pending[k].id = id
    /\ promise = "resolved" /\ lastSeen # "nothing" => accepted \subseteq handed

\* In each session the join events come first, in their given order, and
\* nothing else is written before all of them are.
JoinEventsFirst ==
    \A b \in DOMAIN wire :
        /\ IsJoin(wire[b]) =>
              \A a \in 1 .. b - 1, i, j \in DOMAIN JoinEvents :
                  wire[a].ev = JoinEvents[i] /\ wire[b].ev = JoinEvents[j] => i < j
        /\ IsJoin(wire[b]) => \A a \in 1 .. b - 1 : IsJoin(wire[a])
        /\ ~IsJoin(wire[b]) =>
              \A e \in Range(JoinEvents) : \E a \in 1 .. b - 1 : wire[a].ev = e

\* Once an agent that has been online has no broker session any more, the
\* unjoin event is the last one that others have seen of it, whether it
\* unjoined in order or its connection broke.
UnjoinSeenLast == ~session => lastSeen \in {"nothing", "unjoin"}

\* The binding keeps the promises of its base class: each step of it is a
\* step of BindingLifecycle or leaves its variables unchanged.
Link == CASE client = "none"              -> "none"
          [] client # "none" /\ session  -> "up"
          [] client # "none" /\ ~session -> "down"

Lifecycle == INSTANCE BindingLifecycle WITH link <- Link

ImplementsLifecycle == Lifecycle!Spec

\* An agent that reports Online has a broker session.
OnlineHasSession == online => session

\* A publication issued in online state is not reapplied on a reconnect: no run
\* checks it, because one whose callback is lost with the connection is.
NotReapplied ==
    [][Connect => \A k \in DOMAIN pending : pending[k].id \notin live]_vars

\* The promise returned by unjoin() is resolved eventually.
UnjoinResolves == promise = "pending" ~> promise = "resolved"

\* A publication accepted by a joined binding is written eventually, unless
\* the binding unjoins.
PublicationsWritten ==
    \A id \in 1 .. MaxPublish + (MaxLosses + 1) * Len(JoinEvents) :
        id \in accepted /\ state = "Joined" ~> id \in handed \/ state = "Unjoined"

\* The session at the broker, the subscriptions and the publication queue fit
\* together whatever order connect, offline and close handlers, publish
\* callbacks and operations come in.
SessionConsistent == TypeOK /\ SubscriptionsInSync /\ NoStall /\ OnlineHasSession

\* A session receives publications in the order they were issued in, none of
\* which is lost with a connection.
PublicationsInOrder == FifoPerSession /\ NothingLost

\* Unjoining ends and everything published is written, if the broker can be
\* reached eventually.
QueueDrains == UnjoinResolves /\ PublicationsWritten

==============================================================================

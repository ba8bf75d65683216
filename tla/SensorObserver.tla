---------------------------- MODULE SensorObserver ----------------------------
(* The agent that observes things and their sensors: a                      *)
(* ThingSensorObservationObserverController (sensor-things/) with the       *)
(* observables of ThingObserverController and SensorObserverController, and *)
(* an ObjectLifecycleController that tracks the things.  A thing is followed *)
(* by one subscription per event received for it, each with its own query   *)
(* and its own copy of the thing.                                           *)
EXTENDS SensorNetwork, SequencesExt

VARIABLES
  asked,              \* number of requests published
  discovery,          \* number of the two Discover events since the last start,
                      \* by the controller and by the lifecycle observable
  following,          \* subscriptions to the sensors of things, in their order
  registeredSensors,  \* _registeredSensors: the thing of each sensor
  observed,           \* sensors in _observationSubscriptions
  offlineSubscription,\* _thingOfflineSubscription is open
  total,              \* sensors in the latest change information
  registry,           \* objects in the registry of the lifecycle observable
  known               \* what its infos add up to

observerVars == <<asked, discovery, following, registeredSensors, observed,
                  offlineSubscription, total, registry, known>>

\* A thing as an object with its parent.
Object(thing, parent) == [thing |-> thing, parent |-> parent]

ObserverInit ==
  /\ asked = 0 /\ discovery = 0
  /\ following = <<>> /\ registeredSensors = <<>> /\ observed = {} /\ offlineSubscription = FALSE
  /\ total = {} /\ registry = {} /\ known = {}

Discover(by, corr) == [kind |-> "discover", by |-> by, corr |-> corr]
Query(corr, thing) == [kind |-> "query", corr |-> corr, thing |-> thing]

\* onCommunicationManagerStarting(): things are discovered and observed.  The
\* application subscribes the lifecycle of things.
ObserverStarts ==
  /\ ~listening
  /\ asked < MaxRequests
  /\ listening' = TRUE
  /\ asked' = asked + 1
  /\ discovery' = asked + 1
  /\ requests' = requests \cup {Discover("controller", asked + 1), Discover("lifecycle", asked + 1)}
  /\ offlineSubscription' = TRUE
  /\ registry' = {} /\ known' = {}
  /\ cutOff' = (cutOff /\ ~sourceOnline)
  /\ UNCHANGED <<underWay, wills, missed, sourceOnline, observerOnline, losses, following, registeredSensors, observed, total>>

\* Fault: sensors survive a restart.
KeepsSensors == registeredSensors

\* What is registered after onCommunicationManagerStopping().
AfterStop == <<>>

\* onCommunicationManagerStopping(), and the end of all observations
ObserverStops ==
  /\ listening
  /\ listening' = FALSE
  /\ underWay' = <<>> /\ missed' = FALSE /\ observerOnline' = TRUE
  /\ discovery' = 0
  /\ following' = <<>> /\ observed' = {} /\ offlineSubscription' = FALSE
  /\ registeredSensors' = AfterStop
  /\ total' = {}
  /\ UNCHANGED <<wills, requests, sourceOnline, losses, cutOff, asked, registry, known>>

\* The connection is lost, with all messages under way.
ObserverDisconnected ==
  /\ listening /\ observerOnline
  /\ losses < MaxLosses
  /\ losses' = losses + 1
  /\ observerOnline' = FALSE
  /\ underWay' = <<>>
  /\ missed' = (missed \/ underWay # <<>>)
  /\ UNCHANGED <<wills, requests, listening, sourceOnline, cutOff, observerVars>>

\* MQTT.js reconnects and subscribes again; nothing is discovered again.
ObserverReconnects ==
  /\ ~observerOnline
  /\ observerOnline' = TRUE
  /\ UNCHANGED <<underWay, wills, requests, listening, sourceOnline, losses, cutOff, missed, observerVars>>

-----------------------------------------------------------------------------

\* _addToRegistry(): whether the object is added or changed, it is known then.
AddedToRegistry(o) ==
  LET others == {p \in registry : p.thing # o.thing}
  IN /\ registry' = others \cup {o}
     /\ known' = IF o \in registry THEN known ELSE {p \in known : p.thing # o.thing} \cup {o}

\* Fault: objects are not removed together with their parent.
RemovedAlone(id) == {o \in registry : o.thing = id}

\* _updateRegistryOnRemove()
RemovedWith(id) == {o \in registry : o.thing = id \/ o.parent = id}

\* The objects in the info on a removal
InfoRemoved(id) == RemovedWith(id)

\* _removeFromRegistry()
RemovedFromRegistry(id) ==
  /\ registry' = registry \ RemovedWith(id)
  /\ known' = known \ InfoRemoved(id)

\* Fault: a correlation id is used again.
SameCorrelation == asked

NewCorrelation == asked + 1

\* Fault: sensors are not queried.
OnlyObserved(o) == requests

Queried(o) == requests \cup {Query(asked + 1, o.thing)}

\* _onThingReceived(): its sensors are queried and their advertisements observed.
Followed(o) ==
  /\ asked < MaxRequests
  /\ asked' = NewCorrelation
  /\ following' = Append(following, [corr |-> asked + 1, object |-> o])
  /\ requests' = Queried(o)
  /\ UNCHANGED <<registeredSensors, observed, total, offlineSubscription>>

\* A thing is advertised.
ThingArrives(m) ==
  /\ m.kind = "thing"
  /\ Followed(Object(m.thing, m.parent))
  /\ AddedToRegistry(Object(m.thing, m.parent))
  /\ UNCHANGED <<wills, discovery>>

\* A thing is resolved, for either of the observables.
ResolveArrives(m) ==
  /\ m.kind = "resolve"
  /\ IF m.corr = discovery /\ m.by = "controller"
     THEN Followed(Object(m.thing, m.parent))
     ELSE UNCHANGED <<asked, requests, following, registeredSensors, observed, total, offlineSubscription>>
  /\ IF m.corr = discovery /\ m.by = "lifecycle"
     THEN AddedToRegistry(Object(m.thing, m.parent))
     ELSE UNCHANGED <<registry, known>>
  /\ UNCHANGED <<wills, discovery>>

\* _onSensorReceived() of sensors with their thing
SensorsReceived(received, o) ==
  /\ registeredSensors' = [s \in received |-> o] @@ registeredSensors
  /\ observed' = observed \cup received
  /\ total' = DOMAIN registeredSensors \cup received
  /\ UNCHANGED <<wills, requests, asked, discovery, following, offlineSubscription, registry, known>>

NothingReceived == UNCHANGED <<wills, requests, observerVars>>

\* A sensor is advertised.  It is received by all subscriptions to its thing,
\* from the latest to the first.
FollowersOf(thing) == SelectSeq(following, LAMBDA f : f.object.thing = thing)

SensorArrives(m) ==
  /\ m.kind = "sensor"
  /\ LET followers == FollowersOf(m.thing)
     IN IF followers = <<>> THEN NothingReceived ELSE SensorsReceived({m.sensor}, Head(followers).object)

\* The answer to a query arrives.
RetrieveArrives(m) ==
  /\ m.kind = "retrieve"
  /\ LET followers == SelectSeq(following, LAMBDA f : f.corr = m.corr)
     IN IF followers = <<>> THEN NothingReceived ELSE SensorsReceived(m.sensors, Head(followers).object)

\* Fault: observations of removed sensors are still observed.
KeepsObserving(removed) == observed

ObservedWithout(removed) == observed \ removed

\* Fault: sensors are removed with their thing only.
IsOfThing(s, id) == registeredSensors[s].thing = id

IsOfParent(s, id) == registeredSensors[s].parent = id

\* _onDeadvertised(): the sensors of things of a deadvertised parent are removed
\* and the subscriptions to these things closed.  If one of them has none, there
\* is an exception, by which the subscription on Deadvertise events is lost and
\* no change is emitted.
Deadvertise(id) ==
  LET removed == {s \in DOMAIN registeredSensors : IsOfParent(s, id)}
      things == {registeredSensors[s].thing : s \in removed}
      fails == \E t \in things : FollowersOf(t) = <<>>
  IN /\ registeredSensors' = [s \in DOMAIN registeredSensors \ removed |-> registeredSensors[s]]
     /\ observed' = ObservedWithout(removed)
     /\ following' = SelectSeq(following, LAMBDA f : f.object.thing \notin things)
     /\ offlineSubscription' = ~fails
     /\ total' = IF removed = {} \/ fails THEN total ELSE DOMAIN registeredSensors'

DeadvertiseArrives(m) ==
  /\ m.kind = "deadvertise"
  /\ IF offlineSubscription
     THEN Deadvertise(m.id)
     ELSE UNCHANGED <<registeredSensors, observed, following, offlineSubscription, total>>
  /\ RemovedFromRegistry(m.id)
  /\ UNCHANGED <<wills, requests, asked, discovery>>

\* The next message arrives.
Arrives ==
  /\ underWay # <<>>
  /\ underWay' = Tail(underWay)
  /\ UNCHANGED <<listening, linkVars, missed>>
  /\ LET m == Head(underWay)
     IN \/ ThingArrives(m)
        \/ ResolveArrives(m)
        \/ SensorArrives(m)
        \/ RetrieveArrives(m)
        \/ DeadvertiseArrives(m)

ObserverNext ==
  \/ ObserverStarts
  \/ ObserverStops
  \/ ObserverDisconnected
  \/ ObserverReconnects
  \/ Arrives

Objects == [thing : Things, parent : Agents]

ObserverTypeOK ==
  /\ asked \in 0..MaxRequests /\ discovery \in 0..asked
  /\ ToSet(following) \subseteq [corr : 1..asked, object : Objects]
  /\ registeredSensors \in UNION {[ss -> Objects] : ss \in SUBSET Sensors}
  /\ observed \subseteq Sensors /\ total \subseteq Sensors
  /\ offlineSubscription \in BOOLEAN
  /\ registry \subseteq Objects /\ known \subseteq Objects
=============================================================================

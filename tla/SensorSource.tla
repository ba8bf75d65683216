----------------------------- MODULE SensorSource -----------------------------
(* The agent that owns a thing and its sensors: the sensors registered with *)
(* a SensorSourceController (sensor-things/sensor-source-controller.ts),    *)
(* and the thing advertised by an ObjectLifecycleController                 *)
(* (controller/object-lifecycle-controller.ts).  What is published while    *)
(* the agent is stopped or has lost its connection is deferred by the       *)
(* binding until it is started or reconnected.                              *)
EXTENDS SensorNetwork

CONSTANTS
  Sampled,   \* sensors registered with a sampling interval
  MaxDeferred,   \* bound on the events deferred
  Options    \* options of the controller that are set

ASSUME OptionsAssumption ==
  Sampled \subseteq Sensors /\
  Options \subseteq {"skipSensorAdvertise", "skipSensorDeadvertise", "ignoreSensorQueryEvents", "ignoreSensorDiscoverEvents"}

VARIABLES
  identity,         \* of the present container
  started,          \* its communication manager is started
  deferred,         \* events published while it is stopped or offline
  sensors,          \* _sensors
  publishers,       \* sensors with a timer in _observationPublishers
  querySubscription, discoverSubscription,
                    \* none, live, or closed but not forgotten
  discoverable,     \* the thing's subscription on Discover events is open
  announced         \* history: sensors registered since the last stop

sourceVars == <<identity, started, deferred, sensors, publishers,
                querySubscription, discoverSubscription, discoverable, announced>>

MyThing == Thing(identity)

SourceInit ==
  /\ identity = 1
  /\ sensors = {} /\ publishers = {} /\ announced = {}
  /\ querySubscription = "none" /\ discoverSubscription = "none" /\ discoverable = FALSE
  /\ deferred = <<>> /\ started = FALSE

Connected == started /\ sourceOnline

Publish(events) ==
  /\ IF Connected
     THEN /\ Len(underWay) + Len(events) <= MaxUnderWay
          /\ Sends(events)
          /\ UNCHANGED deferred
     ELSE /\ Len(deferred) + Len(events) <= MaxDeferred
          /\ deferred' = deferred \o events
          /\ UNCHANGED <<underWay, missed>>
  /\ UNCHANGED <<wills, requests, listening, sourceOnline, observerOnline, losses>>

Unless(option, events) == IF option \in Options THEN <<>> ELSE events

-----------------------------------------------------------------------------

\* _observeSensorQueriesIfNeeded(), _observeSensorDiscoversIfNeeded()
ObservedIfNeeded(subscription, option) ==
  IF subscription # "none" \/ option \in Options THEN subscription ELSE "live"

\* registerSensor()
RegisterSensor(s) ==
  /\ s \notin sensors
  /\ sensors' = sensors \cup {s}
  /\ announced' = announced \cup {s}
  /\ publishers' = IF s \in Sampled THEN publishers \cup {s} ELSE publishers
  /\ Publish(Unless("skipSensorAdvertise", <<SensorAdvertised(s, MyThing)>>))
  /\ querySubscription' = ObservedIfNeeded(querySubscription, "ignoreSensorQueryEvents")
  /\ discoverSubscription' = ObservedIfNeeded(discoverSubscription, "ignoreSensorDiscoverEvents")
  /\ UNCHANGED <<cutOff, identity, started, discoverable>>

\* Fault: the timer of a sensor is not cleared.
KeepsTimer(s) == publishers

ClearedTimers(s) == publishers \ {s}

\* The subscriptions are closed with the last sensor, but stay assigned.
ClosedWithout(subscription, rest) == IF rest = {} /\ subscription = "live" THEN "closed" ELSE subscription

\* unregisterSensor()
UnregisterSensor(s) ==
  /\ s \in sensors
  /\ sensors' = sensors \ {s}
  /\ announced' = announced \ {s}
  /\ publishers' = ClearedTimers(s)
  /\ Publish(Unless("skipSensorDeadvertise", <<Deadvertised(s)>>))
  /\ querySubscription' = ClosedWithout(querySubscription, sensors')
  /\ discoverSubscription' = ClosedWithout(discoverSubscription, sensors')
  /\ UNCHANGED <<cutOff, identity, started, discoverable>>

-----------------------------------------------------------------------------

\* advertiseDiscoverableObject() and readvertiseDiscoverableObject() of the thing
AdvertiseThing ==
  /\ Publish(<<ThingAdvertised(MyThing, Agent(identity))>>)
  /\ discoverable' = TRUE
  /\ cutOff' = FALSE
  /\ UNCHANGED <<identity, started, sensors, publishers,
                 querySubscription, discoverSubscription, announced>>

\* deadvertiseDiscoverableObject() of the thing
DeadvertiseThing ==
  /\ discoverable
  /\ discoverable' = FALSE
  /\ Publish(<<Deadvertised(MyThing)>>)
  /\ UNCHANGED <<cutOff, identity, started, sensors, publishers,
                 querySubscription, discoverSubscription, announced>>

Answers(r, isObserved, events) ==
  /\ requests' = requests \ {r}
  /\ Len(underWay) + 1 <= MaxUnderWay
  /\ Sends(IF Connected /\ isObserved THEN events ELSE <<>>)
  /\ UNCHANGED <<wills, listening, linkVars, sourceVars>>

\* A Discover event for things gets to the agent.
HandleDiscover(r) ==
  /\ r \in requests /\ r.kind = "discover"
  /\ Answers(r, discoverable, <<ThingResolved(MyThing, Agent(identity), r)>>)

\* A Query event for the sensors of a thing gets to the agent.
Retrieved(r) == IF r.thing = MyThing THEN sensors ELSE {}

HandleQuery(r) ==
  /\ r \in requests /\ r.kind = "query"
  /\ Answers(r, querySubscription = "live" /\ Retrieved(r) # {}, <<SensorsRetrieved(Retrieved(r), r.corr)>>)

-----------------------------------------------------------------------------

\* The communication manager is started: what was deferred is published.
SourceStarts ==
  /\ ~started
  /\ Len(underWay) + Len(deferred) <= MaxDeferred
  /\ started' = TRUE
  /\ Sends(deferred)
  /\ deferred' = <<>>
  /\ UNCHANGED <<wills, requests, listening, linkVars, identity, sensors, publishers,
                 querySubscription, discoverSubscription, discoverable, announced>>

\* onCommunicationManagerStopping(): the subscriptions are closed and forgotten,
\* also that of the thing; timers go on.  The binding deadvertises the identity.
SourceStops ==
  /\ Connected
  /\ Len(underWay) < MaxUnderWay
  /\ started' = FALSE
  /\ querySubscription' = "none" /\ discoverSubscription' = "none" /\ discoverable' = FALSE
  /\ announced' = {}
  /\ Sends(<<Deadvertised(Agent(identity))>>)
  /\ UNCHANGED <<wills, requests, listening, linkVars, identity, deferred, sensors, publishers>>

\* The connection is lost: the broker will publish the last will.
SourceDisconnected ==
  /\ Connected
  /\ losses < MaxLosses
  /\ losses' = losses + 1
  /\ sourceOnline' = FALSE
  /\ wills' = wills \cup {identity}
  /\ cutOff' = TRUE
  /\ UNCHANGED <<underWay, requests, listening, observerOnline, missed, sourceVars>>

\* MQTT.js reconnects, when the last will has been published.  Subscriptions
\* are made again, the identity and what was deferred are published; the thing
\* and its sensors are not advertised again.
SourceReconnects ==
  /\ started /\ ~sourceOnline /\ identity \notin wills
  /\ Len(underWay) + Len(deferred) <= MaxUnderWay
  /\ sourceOnline' = TRUE
  /\ Sends(deferred)
  /\ deferred' = <<>>
  /\ UNCHANGED <<wills, requests, listening, observerOnline, losses, cutOff, identity, started, sensors,
                 publishers, querySubscription, discoverSubscription, discoverable, announced>>

\* The agent crashes, and its program is run again.
SourceCrashes ==
  /\ identity < MaxIdentities /\ losses < MaxLosses
  /\ losses' = losses + 1
  /\ identity' = identity + 1
  /\ wills' = IF Connected THEN wills \cup {identity} ELSE wills
  /\ sourceOnline' = TRUE
  /\ sensors' = {} /\ publishers' = {} /\ announced' = {}
  /\ querySubscription' = "none" /\ discoverSubscription' = "none" /\ discoverable' = FALSE
  /\ deferred' = <<>> /\ started' = FALSE
  /\ UNCHANGED <<underWay, requests, listening, observerOnline, cutOff, missed>>

\* A step of the source agent.
SourceNext ==
  \/ \E s \in Sensors : \/ RegisterSensor(s)
                        \/ UnregisterSensor(s)
  \/ AdvertiseThing \/ DeadvertiseThing
  \/ \E r \in requests : HandleDiscover(r) \/ HandleQuery(r)
  \/ SourceStarts \/ SourceStops \/ SourceDisconnected \/ SourceReconnects \/ SourceCrashes

SourceTypeOK ==
  /\ identity \in Identities /\ started \in BOOLEAN /\ discoverable \in BOOLEAN
  /\ Len(deferred) <= MaxDeferred
  /\ announced \subseteq sensors /\ sensors \subseteq Sensors
  /\ {querySubscription, discoverSubscription} \subseteq {"none", "live", "closed"}
=============================================================================

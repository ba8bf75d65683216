----------------------------- MODULE SensorThings -----------------------------
(* A source agent with a thing and sensors, and an agent that observes them. *)
EXTENDS SensorSource, SensorObserver

vars == <<networkVars, sourceVars, observerVars>>

Init == NetworkInit /\ SourceInit /\ ObserverInit

Next ==
  \/ SourceNext /\ UNCHANGED observerVars
  \/ ObserverNext /\ UNCHANGED sourceVars
  \/ \E i \in Identities : WillPublished(i) /\ UNCHANGED <<sourceVars, observerVars>>

\* Sensors are interchangeable if they are all sampled, or none is.
Symmetry == Permutations(Sensors)

Spec == Init /\ [][Next]_vars

TypeOK == SourceTypeOK /\ ObserverTypeOK

\* After everything has been received, by an observer that has missed nothing.
Settled == listening /\ Silent /\ ~missed

\* No timer is left behind by a sensor that has been unregistered.
NothingLeftBehind == publishers \subseteq sensors

\* A sensor is observed as long as it is registered with the observer and no
\* longer, and what has been emitted says so.
ObservedWhileRegistered ==
  /\ observed = DOMAIN registeredSensors
  /\ total = DOMAIN registeredSensors

\* Any sensor can be removed without an exception: its thing is followed, and
\* the subscription on Deadvertise events lasts.
RemovalsWork ==
  /\ listening = offlineSubscription
  /\ \A s \in DOMAIN registeredSensors : FollowersOf(registeredSensors[s].thing) # <<>>

\* No sensor is left of an agent that has stopped, crashed or lost its
\* connection.
GoneSensorsRemoved ==
  Settled => \A s \in DOMAIN registeredSensors : Connected /\ registeredSensors[s].parent = Agent(identity)

ThingIsThere == Connected /\ discoverable

\* All sensors of a discoverable thing that can be queried are found, whoever
\* was there first; after a lost connection of their agent not before the thing
\* is advertised or discovered again.
SensorsFound ==
  Settled /\ ThingIsThere /\ ~cutOff /\ querySubscription = "live" => announced \subseteq DOMAIN registeredSensors

\* The things tracked by the lifecycle observable are those that are there;
\* what a lost connection of their agent has removed may be missing.
ThingsTracked ==
  Settled =>
    /\ registry \subseteq IF ThingIsThere THEN {Object(MyThing, Agent(identity))} ELSE {}
    /\ ThingIsThere /\ registry = {} => cutOff

\* Who adds up the lifecycle infos knows what is in the registry.
InfosAddUp == known = registry

\* The observer listens to the observations of the sensors it has registered,
\* can process removals, and informs of changes that add up to its registry.
ObserverConsistent == TypeOK /\ ObservedWhileRegistered /\ RemovalsWork /\ InfosAddUp

\* Once all messages are received, the sensors and things of a running source
\* are tracked; no publisher is left of a sensor that is unregistered.
SourcesTracked == SensorsFound /\ ThingsTracked /\ NothingLeftBehind

=============================================================================

---------------------------- MODULE SensorNetwork ----------------------------
(* What the agents of the sensor things exchange: the messages of a source   *)
(* agent, which arrive at the observer agent in the order in which they are  *)
(* published, and the requests of the observer.  An agent that is run again  *)
(* after a crash has a new identity; the last will of the old one is         *)
(* published by the broker at any later time.  An agent that only loses its  *)
(* connection is reconnected under its identity, after its last will; an     *)
(* observer that has no connection misses what is published.                 *)
EXTENDS Naturals, Sequences, FiniteSets, TLC

CONSTANTS
  Sensors,         \* objectIds of sensors
  SameThing,       \* the thing keeps its objectId when its agent gets a new identity
  MaxIdentities,   \* bound on identities of the source agent
  MaxUnderWay,     \* bound on the messages under way to the observer
  MaxRequests,     \* bound on the requests of the observer
  MaxLosses        \* bound on the connections lost, by crashes too

ASSUME NetworkAssumption == SameThing \in BOOLEAN /\ MaxIdentities \in Nat \ {0} /\ MaxLosses \in Nat

Identities == 1..MaxIdentities
Agent(i) == <<"agent", i>>
Thing(i) == <<"thing", IF SameThing THEN 1 ELSE i>>
Things == {Thing(i) : i \in Identities}
Agents == {Agent(i) : i \in Identities}

VARIABLES
  underWay,    \* messages to the observer
  wills,       \* last wills that are still to be published
  requests,    \* requests of the observer under way to the source
  listening,   \* the observer's manager is started
  sourceOnline, observerOnline,
               \* FALSE while an agent that is started has lost its connection
  losses,      \* number of connections lost
  cutOff,      \* history: the source has lost its connection, and has not
               \* advertised the thing since, nor was it discovered again
  missed       \* history: the observer has missed a message since it started

linkVars == <<sourceOnline, observerOnline, losses, cutOff>>
networkVars == <<underWay, wills, requests, listening, linkVars, missed>>

\* Events as they are received; thing is the object with its parent.
ThingAdvertised(thing, parent) == [kind |-> "thing", thing |-> thing, parent |-> parent]
ThingResolved(thing, parent, r) ==
  [kind |-> "resolve", thing |-> thing, parent |-> parent, by |-> r.by, corr |-> r.corr]
SensorAdvertised(sensor, thing) == [kind |-> "sensor", sensor |-> sensor, thing |-> thing]
SensorsRetrieved(sensors, corr) == [kind |-> "retrieve", sensors |-> sensors, corr |-> corr]
Deadvertised(id) == [kind |-> "deadvertise", id |-> id]

NetworkInit ==
  /\ underWay = <<>>
  /\ wills = {} /\ requests = {} /\ listening = FALSE
  /\ sourceOnline = TRUE /\ observerOnline = TRUE /\ losses = 0
  /\ cutOff = FALSE /\ missed = FALSE

\* What is published gets to the observer if it is subscribed.
Sends(events) ==
  /\ underWay' = IF listening /\ observerOnline THEN underWay \o events ELSE underWay
  /\ missed' = (missed \/ (listening /\ ~observerOnline /\ events # <<>>))

\* The broker publishes the last will of an identity.
WillPublished(i) ==
  /\ i \in wills
  /\ wills' = wills \ {i}
  /\ Sends(<<Deadvertised(Agent(i))>>)
  /\ UNCHANGED <<requests, listening, linkVars>>

Silent == requests = {} /\ wills = {} /\ underWay = <<>>
=============================================================================

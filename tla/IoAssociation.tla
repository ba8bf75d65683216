---------------------------- MODULE IoAssociation ----------------------------
(***************************************************************************)
(* Bookkeeping of IO associations in the communication manager of an agent *)
(* (com/communication-manager.ts): what it records when an IO router       *)
(* associates IO sources with IO actors, which IO routes it subscribes on  *)
(* its binding, and the IO states it reports to observers.                 *)
(*                                                                         *)
(* _ioActorItems, a map from routes to maps from actors to arrays of       *)
(* sources, is a relation here: the code deletes an inner array, and an    *)
(* inner map, as soon as it is empty.  An entry of _ioSourceItems, a tuple *)
(* [route, actor ids, update rate], is a record; NoItems is an entry that  *)
(* does not exist.                                                         *)
(***************************************************************************)
EXTENDS Naturals, FiniteSets

CONSTANTS
    Sources, Actors,            \* IO points of all agents
    LocalSources, LocalActors,  \* the ones in the IO nodes of this agent
    Routes, NoRoute,            \* associating routes, undefined
    Rates, NoRate               \* update rates that routers recommend, which
                                \* may be undefined; undefined

ASSUME PointsAssumption ==
    /\ LocalSources \subseteq Sources
    /\ LocalActors \subseteq Actors
    /\ Sources \cap Actors = {}

ASSUME UndefinedAssumption == NoRoute \notin Routes

VARIABLES
    started,        \* Associate events are observed
    ioSourceItems,  \* _ioSourceItems
    ioActorItems,   \* _ioActorItems: <<route, actor, source>>
    subscribed,     \* IoValue routes subscribed on the binding
    observed,       \* IO points with an item in _observedIoStateItems
    ioState,        \* the IO state dispatched last to each of them
    routed          \* _currentAssociations of the IO router: source, actor

vars == <<started, ioSourceItems, ioActorItems, subscribed, observed, ioState,
          routed>>

SourceItems == [route : Routes \cup {NoRoute}, actors : SUBSET Actors,
                rate : Rates \cup {NoRate}]
NoItems == [route |-> NoRoute, actors |-> {}, rate |-> NoRate]

IoState == [hasAssociations : BOOLEAN, updateRate : Rates \cup {NoRate}]
Disassociated == [hasAssociations |-> FALSE, updateRate |-> NoRate]

LocalPoints == LocalSources \cup LocalActors

\* The data of the Associate events that IO routers publish: associate() and
\* disassociate(), which leaves route and update rate undefined.
AssociateEvents ==
    [ioSourceId : Sources, ioActorId : Actors, associatingRoute : Routes,
     updateRate : Rates]
    \cup
    [ioSourceId : Sources, ioActorId : Actors, associatingRoute : {NoRoute},
     updateRate : {NoRate}]

TypeOK ==
    /\ started \in BOOLEAN
    /\ ioSourceItems \in [LocalSources -> SourceItems]
    /\ ioActorItems \subseteq Routes \X LocalActors \X Sources
    /\ subscribed \subseteq Routes
    /\ observed \subseteq LocalPoints
    /\ ioState \in [LocalPoints -> IoState]
    /\ routed \subseteq Sources \X Actors

\* _initObservedItems() and the start of communication.
Init ==
    /\ started = TRUE
    /\ ioSourceItems = [s \in LocalSources |-> NoItems]
    /\ ioActorItems = {}
    /\ subscribed = {}
    /\ observed = {}
    /\ ioState = [p \in LocalPoints |-> Disassociated]
    /\ routed = {}

------------------------------------------------------------------------------
(* _disassociateIoActorItems                                               *)

HasEntry(items, route, actor) ==
    \E s \in Sources : <<route, actor, s>> \in items

HasRoute(items, route) ==
    \E a \in LocalActors : HasEntry(items, route, a)

\* The items left when source is removed from actors on routes.
Removed(items, source, actors, routes) ==
    items \ (routes \X actors \X {source})

\* Fault: a route is unsubscribed although another actor still uses it.
UnsubscribedEagerly(items, source, actors, routes) ==
    {r \in routes :
        /\ \E a \in actors : HasEntry(items, r, a)
        /\ ~\E a \in actors : HasEntry(Removed(items, source, actors, routes), r, a)}

\* The routes that run empty by this removal and are unsubscribed.
Unsubscribed(items, source, actors, routes) ==
    {r \in routes :
        /\ \E a \in actors : HasEntry(items, r, a)
        /\ ~HasRoute(Removed(items, source, actors, routes), r)}

------------------------------------------------------------------------------
(* _handleAssociate                                                        *)

\* Fault: the last disassociation does not delete the entry.
UpdatedSourceItemsKept(items, e) ==
    IF e.associatingRoute # NoRoute
    THEN [route  |-> e.associatingRoute,
          actors |-> IF items.route = e.associatingRoute
                     THEN items.actors \cup {e.ioActorId} ELSE {e.ioActorId},
          rate   |-> e.updateRate]
    ELSE IF items = NoItems THEN NoItems
    ELSE [route  |-> items.route,
          actors |-> items.actors \ {e.ioActorId},
          rate   |-> e.updateRate]

\* _updateIoSourceItems: the new entry of a local source.  A new route
\* replaces all current actors; an entry without actors is deleted.
UpdatedSourceItems(items, e) ==
    IF e.associatingRoute # NoRoute
    THEN [route  |-> e.associatingRoute,
          actors |-> IF items.route = e.associatingRoute
                     THEN items.actors \cup {e.ioActorId} ELSE {e.ioActorId},
          rate   |-> e.updateRate]
    ELSE IF items.actors \subseteq {e.ioActorId} THEN NoItems
    ELSE [route  |-> items.route,
          actors |-> items.actors \ {e.ioActorId},
          rate   |-> e.updateRate]

\* Fault: a route change does not disassociate the current actors.
NoActorsLeaving(e) == {}

\* Actors that a local source leaves behind on its previous route.
ActorsLeaving(e) ==
    IF /\ e.ioSourceId \in LocalSources
       /\ e.associatingRoute # NoRoute
       /\ ioSourceItems[e.ioSourceId] # NoItems
       /\ ioSourceItems[e.ioSourceId].route # e.associatingRoute
    THEN ioSourceItems[e.ioSourceId].actors
    ELSE {}

PreviousRoute(e) ==
    IF e.ioSourceId \in LocalSources THEN {ioSourceItems[e.ioSourceId].route} ELSE {}

\* Fault: only the new route is cleared of an earlier association.
StaleRoutesNone(e) == {}

\* Routes on which a local actor loses the source: all of them, except for
\* the one it is being associated on (_associateIoActorItems).
StaleRoutes(e) ==
    IF e.ioActorId \in LocalActors THEN Routes \ {e.associatingRoute} ELSE {}

\* Fault: actors of other agents are recorded, too.
NewItemsOfAny(e) ==
    IF e.associatingRoute # NoRoute
    THEN {<<e.associatingRoute, e.ioActorId, e.ioSourceId>>}
    ELSE {}

\* The association that a local actor gains.
NewItems(e) ==
    IF e.ioActorId \in LocalActors /\ e.associatingRoute # NoRoute
    THEN {<<e.associatingRoute, e.ioActorId, e.ioSourceId>>}
    ELSE {}

\* The IO state dispatched to the observers of a local source.
SourceState(items) ==
    [hasAssociations |-> items # NoItems, updateRate |-> items.rate]

\* The IO state dispatched to the observers of a local actor: only the route
\* of the event is considered.
ActorState(items, e) ==
    [hasAssociations |-> HasEntry(items, e.associatingRoute, e.ioActorId),
     updateRate      |-> NoRate]

\* An IO router disassociates only pairs that it has associated.
Route(e) ==
    \/ /\ e.associatingRoute # NoRoute
       /\ routed' = routed \cup {<<e.ioSourceId, e.ioActorId>>}
    \/ /\ e.associatingRoute = NoRoute
       /\ <<e.ioSourceId, e.ioActorId>> \in routed
       /\ routed' = routed \ {<<e.ioSourceId, e.ioActorId>>}

\* An Associate event that concerns none of the agent's IO points is ignored.
IgnoreAssociate(e) ==
    /\ started
    /\ e.ioSourceId \notin LocalSources
    /\ e.ioActorId \notin LocalActors
    /\ Route(e)
    /\ UNCHANGED <<started, ioSourceItems, ioActorItems, subscribed, observed,
                   ioState>>

HandleAssociate(e) ==
    LET s      == e.ioSourceId
        a      == e.ioActorId
        \* _updateIoSourceItems: the previous route of a local source.
        left   == Removed(ioActorItems, s, ActorsLeaving(e), PreviousRoute(e))
        unsub1 == Unsubscribed(ioActorItems, s, ActorsLeaving(e), PreviousRoute(e))
        \* _disassociateIoActorItems for the local actor of the event.
        kept   == Removed(left, s, {a}, StaleRoutes(e))
        unsub2 == Unsubscribed(left, s, {a}, StaleRoutes(e))
    IN
    /\ started
    /\ s \in LocalSources \/ a \in LocalActors
    /\ Route(e)
    /\ ioSourceItems' = [p \in LocalSources |->
            IF p = s THEN UpdatedSourceItems(ioSourceItems[p], e) ELSE ioSourceItems[p]]
    /\ ioActorItems' = kept \cup NewItems(e)
    /\ subscribed' = ((subscribed \ unsub1) \ unsub2)
                     \cup {r \in Routes : /\ ~HasRoute(kept, r)
                                          /\ <<r, a, s>> \in NewItems(e)}
    /\ ioState' = [p \in LocalPoints |->
            IF p \notin observed THEN ioState[p]
            ELSE IF p = s THEN SourceState(ioSourceItems'[p])
            ELSE IF p = a THEN ActorState(ioActorItems', e)
            ELSE ioState[p]]
    /\ UNCHANGED <<started, observed>>

------------------------------------------------------------------------------
(* Observers, stop and start                                               *)

\* observeIoState(): the first observer of an IO point gets its current state.
ObserveIoState(p) ==
    /\ p \notin observed
    /\ observed' = observed \cup {p}
    /\ ioState' = [ioState EXCEPT ![p] =
            IF p \in LocalSources THEN SourceState(ioSourceItems[p])
            ELSE [hasAssociations |-> \E r \in Routes : HasEntry(ioActorItems, r, p),
                  updateRate      |-> NoRate]]
    /\ UNCHANGED <<started, ioSourceItems, ioActorItems, subscribed, routed>>

\* stop(), also if stopped already: IO state observers get a last event and
\* are completed, all current routes are unsubscribed, and
\* _initObservedItems() forgets everything.
Stop ==
    /\ started' = FALSE
    /\ ioState' = [p \in LocalPoints |-> IF p \in observed THEN Disassociated ELSE ioState[p]]
    /\ observed' = {}
    /\ subscribed' = {r \in subscribed : ~HasRoute(ioActorItems, r)}
    /\ ioSourceItems' = [s \in LocalSources |-> NoItems]
    /\ ioActorItems' = {}
    /\ UNCHANGED routed

\* start(): Associate events are observed again.
Start ==
    /\ ~started
    /\ started' = TRUE
    /\ UNCHANGED <<ioSourceItems, ioActorItems, subscribed, observed, ioState,
                   routed>>

Next ==
    \/ \E e \in AssociateEvents : HandleAssociate(e) \/ IgnoreAssociate(e)
    \/ \E p \in LocalPoints : ObserveIoState(p)
    \/ Stop
    \/ Start

Spec == Init /\ [][Next]_vars

------------------------------------------------------------------------------
(* Properties                                                              *)

\* The binding is subscribed to exactly the routes on which some local actor
\* is associated, whatever the order of Associate events and route changes:
\* no actor misses IO values, and no subscription leaks.
RoutesSubscribed ==
    subscribed = {r \in Routes : HasRoute(ioActorItems, r)}

\* An actor receives the values of a source on one route at most, so that it
\* never gets a value twice (_associateIoActorItems disassociates any other).
OneRoutePerPair ==
    \A r1, r2 \in Routes, a \in LocalActors, s \in Sources :
        <<r1, a, s>> \in ioActorItems /\ <<r2, a, s>> \in ioActorItems => r1 = r2

\* If a source and an actor live in the same agent, both ends agree on their
\* association and on its route: what the source publishes on is what the
\* actor is associated on, and vice versa.
LocalEndsAgree ==
    \A s \in LocalSources, a \in LocalActors, r \in Routes :
        <<r, a, s>> \in ioActorItems <=>
            ioSourceItems[s].route = r /\ a \in ioSourceItems[s].actors

\* The IO state last reported for a source says whether it has associated
\* actors and, if so, the update rate recommended last: an IO source
\* controller relies on it to publish no values that nobody wants.
SourceStateCurrent ==
    \A s \in observed \cap LocalSources :
        /\ ioState[s].hasAssociations <=> ioSourceItems[s].actors # {}
        /\ ioState[s].updateRate = ioSourceItems[s].rate

\* The IO state last reported for an actor says whether it has associations:
\* no run checks it, because the code violates it for an actor with two sources.
ActorStateCurrent ==
    \A a \in observed \cap LocalActors :
        ioState[a].hasAssociations <=> \E r \in Routes : HasEntry(ioActorItems, r, a)

\* The recommended update rate of a source becomes undefined only when its
\* last association is disassociated: no run checks it, because each
\* disassociation makes it undefined.
RateUntilLast ==
    [][\A s \in LocalSources :
          ioSourceItems[s].rate # NoRate /\ ioSourceItems'[s].rate = NoRate
              => ioSourceItems'[s].actors = {}]_vars

\* Subscribed routes are those with an associated local actor, and a source
\* and an actor are associated on one route at most.
AssociationsConsistent == TypeOK /\ RoutesSubscribed /\ OneRoutePerPair

==============================================================================

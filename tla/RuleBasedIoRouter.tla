-------------------------- MODULE RuleBasedIoRouter --------------------------
(***************************************************************************)
(* A rule-based IO router: class RuleBasedIoRouter                         *)
(* (io-routing/rule-based-io-router.ts) on top of IoRouter                 *)
(* (io-routing/io-router.ts).  BasicIoRouter is the special case of one    *)
(* global rule whose condition is always true.                             *)
(*                                                                         *)
(* The router manages the IO nodes of its IO context.  Whenever they, the  *)
(* context or the rules change it evaluates the rules anew and publishes   *)
(* Associate events for what differs from its current associations.        *)
(*                                                                         *)
(* An IO node is a record of its object id and its IO sources and actors,  *)
(* functions from object ids to what a router reads of them.  A rule is a  *)
(* function from IO contexts to the pairs its condition holds for; a       *)
(* condition that throws holds for no pair.  Events published by one       *)
(* handler concern different pairs, so they are a set.                     *)
(***************************************************************************)
EXTENDS Naturals, Sequences, SequencesExt, FiniteSets

CONSTANTS
    IoNodes,        \* the IO nodes that may be advertised:
                    \* [id, ioSources, ioActors]
    Contexts,       \* the IO contexts that the router may be updated to
    RuleSets,       \* the rules that may be defined: functions from value
                    \* types to sets of rules
    AnyType,        \* "", the value type of global rules
    NoRoute         \* an undefined associating route

\* An undefined update rate: it is below all others, as
\* _computeCumulatedUpdateRate() treats it.
NoRate == 0

VARIABLES
    listening,      \* observes IO nodes, between starting and stopping
    ioContext,      \* _ioContext
    rules,          \* _rules
    managed,        \* _managedIoNodes, in the order of their insertion
    sourceRoutes,   \* _sourceRoutes
    associations,   \* _currentAssociations: source, actor, rate
    published       \* Associate events published in the last step

routerVars == <<listening, ioContext, rules, managed, sourceRoutes,
                associations, published>>

SourceIds == UNION {DOMAIN n.ioSources : n \in IoNodes}
ActorIds  == UNION {DOMAIN n.ioActors : n \in IoNodes}

\* There are finitely many IO actors, each with its update rate, and a route
\* is defined for each source when it is associated.
ASSUME PointsAssumption ==
    /\ IsFiniteSet(ActorIds)
    /\ \A n \in IoNodes :
          /\ \A s \in DOMAIN n.ioSources :
                n.ioSources[s].updateRate \in Nat /\ n.ioSources[s].route # NoRoute
          /\ \A a \in DOMAIN n.ioActors : n.ioActors[a].updateRate \in Nat

\* onInit().  Rules may be defined before the router is started.
RouterInit ==
    /\ listening = FALSE
    /\ ioContext \in Contexts
    /\ rules \in RuleSets
    /\ managed = <<>>
    /\ sourceRoutes = [s \in SourceIds |-> NoRoute]
    /\ associations = {}
    /\ published = {}

------------------------------------------------------------------------------
(* Evaluating rules                                                        *)

\* Points of several nodes with the same id: the one inserted last counts.
SourceIn(nodes, s) ==
    nodes[Max({k \in DOMAIN nodes : s \in DOMAIN nodes[k].ioSources})].ioSources[s]
ActorIn(nodes, a) ==
    nodes[Max({k \in DOMAIN nodes : a \in DOMAIN nodes[k].ioActors})].ioActors[a]

\* areValueTypesCompatible()
Compatible(source, actor) ==
    source.valueType = actor.valueType /\ source.raw = actor.raw

\* _getCompatibleAssociations(): pairs of IO points of managed nodes.
CompatiblePairs(nodes) ==
    {p \in SourceIds \X ActorIds :
        /\ \E k \in DOMAIN nodes : p[1] \in DOMAIN nodes[k].ioSources
        /\ \E k \in DOMAIN nodes : p[2] \in DOMAIN nodes[k].ioActors
        /\ Compatible(SourceIn(nodes, p[1]), ActorIn(nodes, p[2]))}

\* Rules of a value type take precedence over global ones.
RulesFor(valueType, rs) ==
    IF valueType \in DOMAIN rs THEN rs[valueType]
    ELSE IF AnyType \in DOMAIN rs THEN rs[AnyType]
    ELSE {}

\* _match(): the compatible pairs that some applicable rule holds for.
Match(nodes, rs, context) ==
    {p \in CompatiblePairs(nodes) :
        \E rule \in RulesFor(SourceIn(nodes, p[1]).valueType, rs) : p \in rule[context]}

\* The update rates cumulated for all pairs of a source: its own one and those
\* of all actors it is matched with.
CumulatedRates(nodes, pairs, s) ==
    {SourceIn(nodes, s).updateRate} \cup
    {ActorIn(nodes, b).updateRate : b \in {b \in ActorIds : <<s, b>> \in pairs}}

\* _resolve()
Resolve(nodes, pairs) ==
    {[src |-> p[1], act |-> p[2],
      rate |-> Max(CumulatedRates(nodes, pairs, p[1]))] : p \in pairs}

\* Fault: a changed update rate is recorded but not published.
UnpublishedRates(resolved) ==
    {r \in resolved :
        \A c \in associations : <<c.src, c.act>> # <<r.src, r.act>>}

\* Resolved pairs to be associated: new ones and those with another rate.
ToAssociate(resolved) == resolved \ associations

\* Current associations that are not resolved any more.
ToDisassociate(resolved) ==
    {c \in associations :
        \A r \in resolved : <<c.src, c.act>> # <<r.src, r.act>>}

\* associate(): a source has one route, its external one or the one created
\* for its id, which is kept while the source is managed.
RouteOf(nodes, routes, s) ==
    IF routes[s] # NoRoute THEN routes[s] ELSE SourceIn(nodes, s).route

Associate(c, route) ==
    [src |-> c.src, act |-> c.act, route |-> route, rate |-> c.rate]

\* disassociate()
Disassociate(c) ==
    [src |-> c.src, act |-> c.act, route |-> NoRoute, rate |-> NoRate]

\* _evaluateRules(), _act(): nodes, routes, rules and context are the ones
\* in place when the rules are evaluated.
EvaluateRules(nodes, routes, rs, context) ==
    LET resolved == Resolve(nodes, Match(nodes, rs, context))
    IN  /\ published' =
              {Associate(r, RouteOf(nodes, routes, r.src)) : r \in ToAssociate(resolved)}
              \cup {Disassociate(c) : c \in ToDisassociate(resolved)}
        /\ associations' = resolved
        /\ sourceRoutes' = [s \in SourceIds |->
              IF \E r \in ToAssociate(resolved) : r.src = s
              THEN RouteOf(nodes, routes, s) ELSE routes[s]]

------------------------------------------------------------------------------
(* Handlers                                                                *)

\* Nothing happens in the router.
RouterRests ==
    /\ published' = {}
    /\ UNCHANGED <<listening, ioContext, rules, managed, sourceRoutes, associations>>

\* The managed nodes without the one of the given id, if there is one: they are
\* in a map.
Without(id) ==
    IF \E k \in DOMAIN managed : managed[k].id = id
    THEN RemoveAt(managed, CHOOSE k \in DOMAIN managed : managed[k].id = id)
    ELSE managed

\* Routes kept when the node of the given id is removed: all but those of
\* its sources that are not in a readvertised node.
RoutesKept(id, readvertised) ==
    [s \in SourceIds |->
        IF /\ \E k \in DOMAIN managed : /\ managed[k].id = id
                                        /\ s \in DOMAIN managed[k].ioSources
           /\ s \notin readvertised
        THEN NoRoute ELSE sourceRoutes[s]]

\* _ioNodesDeadvertised(): rules are evaluated if the node was managed.
IoNodeDeadvertised(id) ==
    /\ listening
    /\ \/ /\ \E k \in DOMAIN managed : managed[k].id = id
          /\ managed' = Without(id)
          /\ EvaluateRules(managed', RoutesKept(id, {}), rules, ioContext)
       \/ /\ \A k \in DOMAIN managed : managed[k].id # id
          /\ published' = {}
          /\ UNCHANGED <<managed, associations, sourceRoutes>>
    /\ UNCHANGED <<listening, ioContext, rules>>

HasIoPoints(node) == DOMAIN node.ioSources \cup DOMAIN node.ioActors # {}

\* _ioNodeAdvertised(): a node that is managed already is replaced, and its
\* rules are evaluated once.  A node without IO points is deadvertised.
IoNodeAdvertised(node) ==
    \/ /\ ~HasIoPoints(node)
       /\ IoNodeDeadvertised(node.id)
    \/ /\ HasIoPoints(node)
       /\ listening
       /\ managed' = Append(Without(node.id), node)
       /\ EvaluateRules(managed', RoutesKept(node.id, DOMAIN node.ioSources),
                        rules, ioContext)
       /\ UNCHANGED <<listening, ioContext, rules>>

\* An Update event on the IO context: onIoContextChanged().
IoContextChanged(context) ==
    /\ listening
    /\ ioContext' = context
    /\ EvaluateRules(managed, sourceRoutes, rules, context)
    /\ UNCHANGED <<listening, rules, managed>>

\* defineRules()
DefineRules(rs) ==
    /\ rules' = rs
    /\ EvaluateRules(managed, sourceRoutes, rs, ioContext)
    /\ UNCHANGED <<listening, ioContext, managed>>

\* onCommunicationManagerStarting(), onStarted(): the rules of the controller
\* options, if there are any, replace those defined before.
RouterStarted ==
    /\ ~listening
    /\ listening' = TRUE
    /\ rules' \in RuleSets
    /\ EvaluateRules(managed, sourceRoutes, rules', ioContext)
    /\ UNCHANGED <<ioContext, managed>>

\* Fault: stopping only forgets the current associations.
NothingToDisassociate == {}

\* onStopped(): all current associations are disassociated.
AllDisassociated == {Disassociate(c) : c \in associations}

\* onCommunicationManagerStopping()
RouterStopped ==
    /\ listening
    /\ listening' = FALSE
    /\ published' = AllDisassociated
    /\ associations' = {}
    /\ managed' = <<>>
    /\ sourceRoutes' = [s \in SourceIds |-> NoRoute]
    /\ UNCHANGED <<ioContext, rules>>
==============================================================================

--------------------------- MODULE IoRoutingProofs ---------------------------
(***************************************************************************)
(* Proofs about IO routing, for any number of agents, IO points and rules, *)
(* through losses of connections, crashes and restarts of agents and       *)
(* router.  A router that has received all messages since it started knows *)
(* the agents that are connected, and both ends of an association know of  *)
(* it.  A router that has missed messages while its own connection was     *)
(* lost still tells the agents of the associations that it ends.           *)
(***************************************************************************)
EXTENDS IoRouting, SequenceTheorems, FiniteSetTheorems, WellFoundedInduction, TLAPS

------------------------------------------------------------------------------
(* The router                                                                *)

\* The routes that IO nodes are configured with.
Routes == UNION {{n.ioSources[s].route : s \in DOMAIN n.ioSources} : n \in IoNodes}

\* What the router holds, and what it publishes.
Associations == [src : SourceIds, act : ActorIds, rate : Nat]
Events == [src : SourceIds, act : ActorIds, route : Routes \cup {NoRoute}, rate : Nat]

OfPair(e, c) == e.src = c.src /\ e.act = c.act

\* nodes are the values of a map from object ids, IO nodes with IO points.
MapOfNodes(nodes) ==
    /\ nodes \in Seq(IoNodes)
    /\ \A k \in DOMAIN nodes : HasIoPoints(nodes[k])
    /\ \A j, k \in DOMAIN nodes : nodes[j].id = nodes[k].id => j = k

\* A router has this whatever it has missed: at most one association of each
\* pair, for example.
RouterTypes ==
    /\ listening \in BOOLEAN
    /\ ioContext \in Contexts
    /\ rules \in RuleSets
    /\ MapOfNodes(managed)
    /\ sourceRoutes \in [SourceIds -> Routes \cup {NoRoute}]
    /\ associations \subseteq Associations
    /\ \A c, d \in associations : OfPair(c, d) => c = d

\* nodes has at most one IO node of each agent.
OneEach(nodes) ==
    /\ MapOfNodes(nodes)
    /\ \A j, k \in DOMAIN nodes : nodes[j].id[1] = nodes[k].id[1] => j = k

HasSource(nodes, s) == \E k \in DOMAIN nodes : s \in DOMAIN nodes[k].ioSources
HasActor(nodes, a) == \E k \in DOMAIN nodes : a \in DOMAIN nodes[k].ioActors

\* A source has a route only as long as it is managed, namely its own one.
OwnRoutes(nodes, routes) ==
    \A s \in SourceIds : routes[s] # NoRoute =>
        \E k \in DOMAIN nodes :
            s \in DOMAIN nodes[k].ioSources /\ routes[s] = nodes[k].ioSources[s].route

ManagedNodes == {managed[k] : k \in DOMAIN managed}

\* Associations are those of managed IO points.
AssociationsOfManaged ==
    \A c \in associations :
        /\ sourceRoutes[c.src] # NoRoute
        /\ HasSource(managed, c.src)
        /\ HasActor(managed, c.act)

\* What a router has that has missed nothing.
RouterInv ==
    RouterTypes /\ OneEach(managed) /\ OwnRoutes(managed, sourceRoutes) /\ AssociationsOfManaged

------------------------------------------------------------------------------
(* Agents and their IO nodes                                                 *)

AgentTypes ==
    /\ status \in [Agents -> {"down", "offline", "up"}]
    /\ restarts \in [Agents -> 0 .. MaxRestarts]
    /\ ioNode \in [Agents -> IoNodes \cup {NoNode}]
    /\ known \in [Agents -> SUBSET Events]
    /\ offline \in BOOLEAN
    /\ outbox \in Seq(SUBSET Events)
    /\ missed \in BOOLEAN
    /\ toRouter \in [Agents -> Seq(Messages)]
    /\ toAgent \in [Agents -> Seq(SUBSET Events)]
    /\ discovered \subseteq Agents
    /\ interrupted \subseteq Agents
    /\ wills \subseteq IoNodes
    /\ events \in 0 .. MaxEvents

\* What an agent has depends on whether it is running and connected.
AgentsFit ==
    \A a \in Agents :
        /\ status[a] = "down" => ioNode[a] = NoNode /\ known[a] = {} /\ a \notin interrupted
        /\ status[a] # "down" => ioNode[a] \in IoNodes /\ ioNode[a].id[1] = a
        /\ status[a] # "up" => toAgent[a] = <<>> /\ a \notin discovered
        /\ status[a] = "offline" => a \in interrupted

\* An agent has one last will, and is not connected again before it is
\* published.
WillsInTurn ==
    /\ \A n \in wills : n.id[1] \in Agents /\ status[n.id[1]] # "up"
    /\ \A n, m \in wills : n.id[1] = m.id[1] => n = m

\* The node is advertised by its agent, or its last will is due.
Current(a, n) == (status[a] = "up" /\ ioNode[a] = n) \/ n \in wills

\* The router receives of an agent one IO node after another: it is told that
\* one is gone before it gets the next one.
InTurn(a, q, nodes) ==
    /\ \A p \in DOMAIN q : q[p].node.id[1] = a
    /\ q # <<>> => \A n \in nodes : n.id[1] = a => n = q[1].node
    /\ \A p \in DOMAIN q : q[p].type = "Advertise" =>
          IF p = Len(q) THEN Current(a, q[p].node) ELSE q[p + 1].node = q[p].node
    /\ q = <<>> => \A n \in nodes : n.id[1] = a => Current(a, n)

NodesInTurn == \A a \in Agents : InTurn(a, toRouter[a], ManagedNodes)

\* A connected agent has advertised its IO node, or will when it is discovered.
UpIsAdvertised ==
    listening => \A a \in Agents \ discovered : status[a] = "up" =>
        LET q == toRouter[a]
        IN  IF q = <<>> THEN HasIoPoints(ioNode[a]) => ioNode[a] \in ManagedNodes
                        ELSE q[Len(q)].type = "Advertise"

\* A router that is not there knows nothing, and nothing gets through to it.
StoppedRouter ==
    /\ ~listening => managed = <<>> /\ discovered = {} /\ ~missed
    /\ ~listening \/ offline => \A a \in Agents : toRouter[a] = <<>>

ManagedOfAgents == \A n \in ManagedNodes : n.id[1] \in Agents

AgentsInv == AgentTypes /\ AgentsFit /\ WillsInTurn /\ StoppedRouter

\* What is managed and underway to a router that has missed nothing.
NodesInv == NodesInTurn /\ UpIsAdvertised /\ ManagedOfAgents

------------------------------------------------------------------------------
(* What agents know of associations                                          *)

Concerns(a, c) == c.src \in DOMAIN ioNode[a].ioSources \/ c.act \in DOMAIN ioNode[a].ioActors

\* k is what an agent knows, and q is what is underway to it.
View(k, q, p) == IF p = 0 THEN k ELSE q[p]

\* e is the last that the agent gets to know of a pair.
LastWord(k, q, p, e) ==
    /\ e \in View(k, q, p)
    /\ \A r \in DOMAIN q : r > p => \A f \in q[r] : ~OfPair(f, e)

\* The agent knows, or gets to know, the association c with a route, and nothing
\* comes after that by which the source changes its route.
Learns(k, q, c, route) ==
    \E p \in 0 .. Len(q) : \E e \in View(k, q, p) :
        /\ LastWord(k, q, p, e)
        /\ OfPair(e, c) /\ e.rate = c.rate /\ e.route = route
        /\ \A r \in DOMAIN q : r > p => \A f \in q[r] :
              f.src = c.src => f.route \in {NoRoute, route}

\* What is true of associations that the router holds: with their routes unless it
\* has missed something.
Truths ==
    {e \in Events : \E c \in associations :
        OfPair(e, c) /\ e.rate = c.rate /\ (~missed => e.route = sourceRoutes[c.src])}

\* The last that is told of a pair is among the truths.
Told(k, q, truths) ==
    \A p \in 0 .. Len(q) : \A e \in View(k, q, p) :
        LastWord(k, q, p, e) /\ e.route # NoRoute => e \in truths

\* What an agent will get to know as long as it is connected.
Queue(a) == toAgent[a] \o outbox

\* The router has received all that it is told of earlier sessions of the agent.
UpToDate(a) ==
    status[a] = "up" /\ \A p \in DOMAIN toRouter[a] : toRouter[a][p].type = "Advertise"

\* Such an agent is told of the associations it has an end of.
EndTold(a) ==
    ~missed /\ UpToDate(a) => \A c \in associations :
        Concerns(a, c) => Learns(known[a], Queue(a), c, sourceRoutes[c.src])

\* What the agent knows are associations that concern it.
OwnAssociations(a) == \A e \in known[a] : Concerns(a, e) /\ e.route # NoRoute

\* The last that an agent which has missed nothing gets to know is true.
NothingElseTold(a) == a \notin interrupted => Told(known[a], Queue(a), Truths)

KnowsItsOwn(a) == EndTold(a) /\ OwnAssociations(a) /\ NothingElseTold(a)

\* So it is for what is queued alone, which an agent gets that starts now.
KnowledgeInv == Told({}, outbox, Truths) /\ \A a \in Agents : KnowsItsOwn(a)

\* The inductive invariant.
IoRoutingInv ==
    /\ RouterTypes /\ AgentsInv /\ KnowledgeInv
    /\ ~missed => RouterInv /\ NodesInv

------------------------------------------------------------------------------
(* Maxima, and the points of nodes                                           *)

\* A set of numbers that is finite and not empty has a maximum.
LEMMA MaxProperties ==
    ASSUME NEW S \in SUBSET Nat, IsFiniteSet(S), S # {}
    PROVE  Max(S) \in S /\ \A y \in S : Max(S) >= y
<1> DEFINE HasMax(T) == \E x \in T : \A y \in T : x >= y
           Bad == {T \in FiniteSubsetsOf(Nat) : T # {} /\ ~HasMax(T)}
<1>1. Bad = {}
  <2> SUFFICES ASSUME Bad # {} PROVE FALSE
    OBVIOUS
  <2>1. Bad \subseteq FiniteSubsetsOf(Nat)
    OBVIOUS
  <2>2. IsWellFoundedOn(StrictSubsetOrdering(Nat), FiniteSubsetsOf(Nat))
    BY FS_StrictSubsetOrderingWellFounded
  <2> HIDE DEF Bad
  <2>3. PICK T \in Bad : \A U \in Bad : ~(<<U, T>> \in StrictSubsetOrdering(Nat))
    BY <2>1, <2>2, WFMin
  <2> USE DEF Bad
  <2>4. T \in SUBSET Nat /\ IsFiniteSet(T) /\ T # {} /\ ~HasMax(T)
    BY DEF FiniteSubsetsOf
  <2>5. PICK x \in T : TRUE
    BY <2>4
  <2>6. T \ {x} \in FiniteSubsetsOf(Nat)
    BY <2>4, FS_RemoveElement DEF FiniteSubsetsOf
  <2>7. <<T \ {x}, T>> \in StrictSubsetOrdering(Nat)
    BY <2>4, <2>5 DEF StrictSubsetOrdering
  <2>8. T \ {x} = {} \/ HasMax(T \ {x})
    BY <2>3, <2>6, <2>7
  <2>9. CASE T \ {x} = {}
    <3>1. T = {x} /\ x \in Nat
      BY <2>4, <2>5, <2>9
    <3> QED
      BY <2>4, <3>1
  <2>10. CASE HasMax(T \ {x})
    <3>1. PICK z \in T \ {x} : \A y \in T \ {x} : z >= y
      BY <2>10
    <3>2. z \in Nat /\ x \in Nat
      BY <2>4, <2>5, <3>1
    <3>3. CASE z >= x
      BY <2>4, <3>1, <3>3
    <3>4. CASE ~(z >= x)
      <4>1. \A y \in T : x >= y
        BY <2>4, <3>1, <3>2, <3>4
      <4> QED
        BY <2>4, <2>5, <4>1
    <3> QED
      BY <3>3, <3>4
  <2> QED
    BY <2>8, <2>9, <2>10
<1>2. HasMax(S)
  BY <1>1 DEF FiniteSubsetsOf
<1> QED
  BY <1>2 DEF Max

\* Where there is one IO node of each agent, a point is in one of them.
LEMMA PointsAreUnique ==
    ASSUME NEW nodes, OneEach(nodes), NEW k \in DOMAIN nodes
    PROVE  /\ nodes[k] \in IoNodes
           /\ \A s \in DOMAIN nodes[k].ioSources :
                 /\ SourceIn(nodes, s) = nodes[k].ioSources[s]
                 /\ \A j \in DOMAIN nodes : s \in DOMAIN nodes[j].ioSources => j = k
           /\ \A a \in DOMAIN nodes[k].ioActors :
                 /\ ActorIn(nodes, a) = nodes[k].ioActors[a]
                 /\ \A j \in DOMAIN nodes : a \in DOMAIN nodes[j].ioActors => j = k
<1>1. /\ DOMAIN nodes \subseteq Nat
      /\ \A j \in DOMAIN nodes : nodes[j] \in IoNodes
  BY LenProperties, ElementOfSeq DEF OneEach, MapOfNodes
<1>2. \A S : S = {k} => Max(S) = k
  BY <1>1 DEF Max
<1>3. ASSUME NEW s \in DOMAIN nodes[k].ioSources
      PROVE  /\ SourceIn(nodes, s) = nodes[k].ioSources[s]
             /\ \A j \in DOMAIN nodes : s \in DOMAIN nodes[j].ioSources => j = k
  <2>1. \A j \in DOMAIN nodes : s \in DOMAIN nodes[j].ioSources => j = k
    BY <1>1, NodesAssumption DEF OneEach
  <2>2. {j \in DOMAIN nodes : s \in DOMAIN nodes[j].ioSources} = {k}
    BY <2>1
  <2> QED
    BY <1>2, <2>1, <2>2 DEF SourceIn
<1>4. ASSUME NEW a \in DOMAIN nodes[k].ioActors
      PROVE  /\ ActorIn(nodes, a) = nodes[k].ioActors[a]
             /\ \A j \in DOMAIN nodes : a \in DOMAIN nodes[j].ioActors => j = k
  <2>1. \A j \in DOMAIN nodes : a \in DOMAIN nodes[j].ioActors => j = k
    BY <1>1, NodesAssumption DEF OneEach
  <2>2. {j \in DOMAIN nodes : a \in DOMAIN nodes[j].ioActors} = {k}
    BY <2>1
  <2> QED
    BY <1>2, <2>1, <2>2 DEF ActorIn
<1> QED
  BY <1>1, <1>3, <1>4

\* The points that count are those of some node.
LEMMA PointsOfNodes ==
    ASSUME NEW nodes, MapOfNodes(nodes)
    PROVE  /\ \A s : HasSource(nodes, s) =>
                 /\ SourceIn(nodes, s).updateRate \in Nat
                 /\ SourceIn(nodes, s).route \in Routes /\ SourceIn(nodes, s).route # NoRoute
           /\ \A b : HasActor(nodes, b) => ActorIn(nodes, b).updateRate \in Nat
<1>1. /\ Len(nodes) \in Nat /\ DOMAIN nodes = 1 .. Len(nodes)
      /\ \A j \in DOMAIN nodes : nodes[j] \in IoNodes
  BY LenProperties, ElementOfSeq DEF MapOfNodes
<1>2. ASSUME NEW K \in SUBSET DOMAIN nodes, K # {} PROVE Max(K) \in K
  <2>1. IsFiniteSet(DOMAIN nodes) /\ DOMAIN nodes \subseteq Nat
    BY <1>1, FS_Interval
  <2>2. IsFiniteSet(K) /\ K \in SUBSET Nat
    BY <2>1, FS_Subset
  <2> QED
    BY <1>2, <2>2, MaxProperties
<1>3. ASSUME NEW s, HasSource(nodes, s)
      PROVE  /\ SourceIn(nodes, s).updateRate \in Nat
             /\ SourceIn(nodes, s).route \in Routes /\ SourceIn(nodes, s).route # NoRoute
  <2> DEFINE K == {k \in DOMAIN nodes : s \in DOMAIN nodes[k].ioSources}
  <2>1. K \in SUBSET DOMAIN nodes /\ K # {}
    BY <1>3 DEF HasSource
  <2>2. PICK k \in K : k = Max(K)
    BY <1>2, <2>1
  <2>3. k \in DOMAIN nodes /\ s \in DOMAIN nodes[k].ioSources /\ SourceIn(nodes, s) = nodes[k].ioSources[s]
    BY <2>2 DEF SourceIn
  <2> QED
    BY <1>1, <2>3, PointsAssumption DEF Routes
<1>4. ASSUME NEW b, HasActor(nodes, b) PROVE ActorIn(nodes, b).updateRate \in Nat
  <2> DEFINE K == {k \in DOMAIN nodes : b \in DOMAIN nodes[k].ioActors}
  <2>1. K \in SUBSET DOMAIN nodes /\ K # {}
    BY <1>4 DEF HasActor
  <2>2. PICK k \in K : k = Max(K)
    BY <1>2, <2>1
  <2>3. k \in DOMAIN nodes /\ b \in DOMAIN nodes[k].ioActors /\ ActorIn(nodes, b) = nodes[k].ioActors[b]
    BY <2>2 DEF ActorIn
  <2> QED
    BY <1>1, <2>3, PointsAssumption
<1> QED
  BY <1>3, <1>4

\* The rates of a source and of the actors that it is matched with are finitely
\* many.
LEMMA RatesAreNumbers ==
    ASSUME NEW nodes, MapOfNodes(nodes), NEW pairs, pairs \subseteq CompatiblePairs(nodes),
           NEW s \in SourceIds, HasSource(nodes, s)
    PROVE  Max(CumulatedRates(nodes, pairs, s)) \in Nat
<1> DEFINE B == {b \in ActorIds : <<s, b>> \in pairs}
           R == {ActorIn(nodes, b).updateRate : b \in B}
           f == [b \in B |-> ActorIn(nodes, b).updateRate]
<1>1. IsFiniteSet(B)
  BY FS_Subset, PointsAssumption
<1>2. f \in Surjection(B, R)
  BY DEF Surjection
<1>3. IsFiniteSet(R)
  BY <1>1, <1>2, FS_Surjection
<1>4. \A b \in B : ActorIn(nodes, b).updateRate \in Nat
  <2> SUFFICES ASSUME NEW b \in B PROVE ActorIn(nodes, b).updateRate \in Nat
    OBVIOUS
  <2>1. HasActor(nodes, b)
    BY DEF CompatiblePairs, HasActor
  <2> QED
    BY <2>1, PointsOfNodes
<1>5. SourceIn(nodes, s).updateRate \in Nat
  BY PointsOfNodes
<1>6. R \in SUBSET Nat
  BY <1>4
<1> HIDE DEF R
<1>7. IsFiniteSet({SourceIn(nodes, s).updateRate} \cup R)
  BY <1>3, FS_Singleton, FS_Union
<1>8. {SourceIn(nodes, s).updateRate} \cup R \in SUBSET Nat /\ {SourceIn(nodes, s).updateRate} \cup R # {}
  BY <1>5, <1>6
<1>9. CumulatedRates(nodes, pairs, s) = {SourceIn(nodes, s).updateRate} \cup R
  BY DEF CumulatedRates, R
<1> QED
  BY <1>7, <1>8, <1>9, MaxProperties

------------------------------------------------------------------------------
(* Evaluating rules                                                          *)

\* What is published tells of all that changes, and of nothing else.
PublishesChanges ==
    /\ published' \subseteq Events
    /\ \A e \in published' :
          IF e.route = NoRoute
          THEN \A c \in associations' : ~OfPair(e, c)
          ELSE \E c \in associations' \ associations : OfPair(e, c) /\ e.rate = c.rate
    /\ \A c \in associations' \ associations : \E e \in published' :
          OfPair(e, c) /\ e.rate = c.rate /\ e.route # NoRoute
    /\ \A c \in associations : (\A d \in associations' : ~OfPair(d, c)) =>
          \E e \in published' : OfPair(e, c)

\* It tells the route of a source, and an association that stays keeps its route.
PublishesRoutes ==
    /\ \A e \in published' : e.route # NoRoute => e.route = sourceRoutes'[e.src]
    /\ \A c \in associations \cap associations' : sourceRoutes'[c.src] = sourceRoutes[c.src]

\* Resolved are pairs of managed points, each with one rate.
LEMMA ResolvedPairs ==
    ASSUME NEW nodes, MapOfNodes(nodes), NEW rs, NEW context
    PROVE  LET resolved == Resolve(nodes, Match(nodes, rs, context))
           IN  /\ resolved \subseteq Associations
               /\ \A r \in resolved : HasSource(nodes, r.src) /\ HasActor(nodes, r.act)
               /\ \A r, t \in resolved : OfPair(r, t) => r = t
<1> DEFINE pairs == Match(nodes, rs, context)
           rate(p) == Max(CumulatedRates(nodes, pairs, p[1]))
<1>1. pairs \subseteq CompatiblePairs(nodes)
  BY DEF Match
<1>2. \A p \in pairs : /\ p \in SourceIds \X ActorIds
                       /\ HasSource(nodes, p[1]) /\ HasActor(nodes, p[2])
  BY <1>1 DEF CompatiblePairs, HasSource, HasActor
<1> HIDE DEF pairs
<1>3. \A p \in pairs : rate(p) \in Nat
  <2> SUFFICES ASSUME NEW p \in pairs PROVE rate(p) \in Nat
    OBVIOUS
  <2>1. p[1] \in SourceIds /\ HasSource(nodes, p[1])
    BY <1>2
  <2> QED
    BY <1>1, <2>1, RatesAreNumbers
<1>4. \A p, u \in pairs : p[1] = u[1] => rate(p) = rate(u)
  OBVIOUS
<1>5. Resolve(nodes, pairs) = {[src |-> p[1], act |-> p[2], rate |-> rate(p)] : p \in pairs}
  BY DEF Resolve
<1> HIDE DEF rate
<1>6. \A r \in Resolve(nodes, pairs) : \E p \in pairs :
         r = [src |-> p[1], act |-> p[2], rate |-> rate(p)]
  BY <1>5
<1>7. Resolve(nodes, pairs) \subseteq Associations
  BY <1>2, <1>3, <1>6 DEF Associations
<1>8. \A r \in Resolve(nodes, pairs) : HasSource(nodes, r.src) /\ HasActor(nodes, r.act)
  BY <1>2, <1>6
<1>9. \A r, t \in Resolve(nodes, pairs) : OfPair(r, t) => r = t
  BY <1>4, <1>6 DEF OfPair
<1> QED
  BY <1>7, <1>8, <1>9 DEF pairs

\* Rules are evaluated for some nodes, whatever routes there are.
LEMMA EvaluateStep ==
    ASSUME RouterTypes, NEW nodes, MapOfNodes(nodes),
           NEW routes \in [SourceIds -> Routes \cup {NoRoute}],
           NEW rs, NEW context, EvaluateRules(nodes, routes, rs, context)
    PROVE  /\ associations' \subseteq Associations
           /\ sourceRoutes' \in [SourceIds -> Routes \cup {NoRoute}]
           /\ \A c \in associations' : HasSource(nodes, c.src) /\ HasActor(nodes, c.act)
           /\ \A c, d \in associations' : OfPair(c, d) => c = d
           /\ PublishesChanges
           /\ \A s \in SourceIds :
                 \/ sourceRoutes'[s] = routes[s]
                 \/ HasSource(nodes, s) /\ sourceRoutes'[s] = RouteOf(nodes, routes, s)
           /\ \A c \in associations' \ associations :
                 sourceRoutes'[c.src] = RouteOf(nodes, routes, c.src)
           /\ \A e \in published' : e.route # NoRoute => e.route = sourceRoutes'[e.src]
<1> DEFINE resolved == Resolve(nodes, Match(nodes, rs, context))
           RouteTo(s) == RouteOf(nodes, routes, s)
<1>1. /\ resolved \subseteq Associations
      /\ \A r \in resolved : HasSource(nodes, r.src) /\ HasActor(nodes, r.act)
      /\ \A r, t \in resolved : OfPair(r, t) => r = t
  BY ResolvedPairs
<1>2. /\ published' = {Associate(r, RouteTo(r.src)) : r \in ToAssociate(resolved)}
                      \cup {Disassociate(c) : c \in ToDisassociate(resolved)}
      /\ associations' = resolved
      /\ sourceRoutes' = [s \in SourceIds |-> IF \E r \in ToAssociate(resolved) : r.src = s
                                              THEN RouteTo(s) ELSE routes[s]]
  BY DEF EvaluateRules
<1> HIDE DEF resolved
<1>3. \A s \in SourceIds : HasSource(nodes, s) => RouteTo(s) \in Routes /\ RouteTo(s) # NoRoute
  BY PointsOfNodes DEF RouteOf
<1> HIDE DEF RouteTo
<1>4. \A s \in SourceIds : \/ sourceRoutes'[s] = routes[s]
                           \/ HasSource(nodes, s) /\ sourceRoutes'[s] = RouteTo(s)
  BY <1>1, <1>2 DEF ToAssociate
<1>5. sourceRoutes' \in [SourceIds -> Routes \cup {NoRoute}]
  <2>1. \A s \in SourceIds : sourceRoutes'[s] \in Routes \cup {NoRoute}
    BY <1>3, <1>4
  <2>2. sourceRoutes' = [s \in SourceIds |-> sourceRoutes'[s]]
    BY <1>2
  <2> QED
    BY <2>1, <2>2
<1>6. \A r \in resolved : r.src \in SourceIds
  BY <1>1 DEF Associations
<1>7. \A r \in ToAssociate(resolved) : sourceRoutes'[r.src] = RouteTo(r.src) /\ r \in resolved /\ r \notin associations
  BY <1>2, <1>6 DEF ToAssociate
<1>8. \A c \in associations' \ associations : c \in ToAssociate(resolved) /\ sourceRoutes'[c.src] = RouteTo(c.src)
  BY <1>2, <1>7 DEF ToAssociate
<1>9. \A e \in published' :
         \/ \E r \in ToAssociate(resolved) : e = Associate(r, RouteTo(r.src))
         \/ \E c \in ToDisassociate(resolved) : e = Disassociate(c)
  BY <1>2
<1>10. ASSUME NEW e, NEW r \in ToAssociate(resolved), e = Associate(r, RouteTo(r.src))
       PROVE  /\ e \in Events /\ e.route # NoRoute
              /\ OfPair(e, r) /\ e.rate = r.rate /\ e.route = sourceRoutes'[e.src]
  <2>1. r \in resolved /\ r \in Associations /\ sourceRoutes'[r.src] = RouteTo(r.src) /\ r.src \in SourceIds
    BY <1>1, <1>6, <1>7
  <2>2. RouteTo(r.src) \in Routes /\ RouteTo(r.src) # NoRoute
    BY <1>1, <1>3, <2>1
  <2> QED
    BY <1>10, <2>1, <2>2 DEF Associate, Events, Associations, OfPair
<1>11. ASSUME NEW e, NEW c \in ToDisassociate(resolved), e = Disassociate(c)
       PROVE  /\ e \in Events /\ e.route = NoRoute /\ OfPair(e, c)
              /\ \A r \in resolved : ~OfPair(e, r)
  <2>1. \A d \in associations : d.src \in SourceIds /\ d.act \in ActorIds
    BY DEF RouterTypes, Associations
  <2>2. c.src \in SourceIds /\ c.act \in ActorIds /\ \A r \in resolved : ~(c.src = r.src /\ c.act = r.act)
    BY <2>1 DEF ToDisassociate
  <2> QED
    BY <1>11, <2>2 DEF Disassociate, Events, OfPair, NoRate
<1>12. PublishesChanges
  <2>1. published' \subseteq Events
    BY <1>9, <1>10, <1>11
  <2>2. \A e \in published' :
           IF e.route = NoRoute
           THEN \A c \in associations' : ~OfPair(e, c)
           ELSE \E c \in associations' \ associations : OfPair(e, c) /\ e.rate = c.rate
    <3> SUFFICES ASSUME NEW e \in published'
                 PROVE  IF e.route = NoRoute
                        THEN \A c \in associations' : ~OfPair(e, c)
                        ELSE \E c \in associations' \ associations : OfPair(e, c) /\ e.rate = c.rate
      OBVIOUS
    <3>1. CASE \E r \in ToAssociate(resolved) : e = Associate(r, RouteTo(r.src))
      <4>1. PICK r \in ToAssociate(resolved) : e = Associate(r, RouteTo(r.src))
        BY <3>1
      <4>2. e.route # NoRoute /\ OfPair(e, r) /\ e.rate = r.rate
        BY <1>10, <4>1
      <4>3. r \in associations' \ associations
        BY <1>2, <1>7
      <4> QED
        BY <4>2, <4>3
    <3>2. CASE \E c \in ToDisassociate(resolved) : e = Disassociate(c)
      BY <1>2, <1>11, <3>2
    <3> QED
      BY <1>9, <3>1, <3>2
  <2>3. \A c \in associations' \ associations : \E e \in published' :
           OfPair(e, c) /\ e.rate = c.rate /\ e.route # NoRoute
    <3>1. \A c \in associations' \ associations :
             c \in ToAssociate(resolved) /\ Associate(c, RouteTo(c.src)) \in published'
      BY <1>2, <1>8
    <3> QED
      BY <1>10, <3>1
  <2>4. \A c \in associations : (\A d \in associations' : ~OfPair(d, c)) =>
           \E e \in published' : OfPair(e, c)
    <3>1. \A c \in associations : (\A d \in associations' : ~OfPair(d, c)) => c \in ToDisassociate(resolved)
      BY <1>2 DEF ToDisassociate, OfPair
    <3>2. \A c \in ToDisassociate(resolved) : Disassociate(c) \in published' /\ OfPair(Disassociate(c), c)
      BY <1>2, <1>11
    <3> QED
      BY <3>1, <3>2
  <2> QED
    BY <2>1, <2>2, <2>3, <2>4 DEF PublishesChanges
<1>13. \A e \in published' : e.route # NoRoute => e.route = sourceRoutes'[e.src]
  BY <1>9, <1>10, <1>11
<1> QED
  BY <1>1, <1>2, <1>4, <1>5, <1>8, <1>12, <1>13 DEF RouteTo

\* Where the routes in place are those of managed sources, and sources that stay
\* managed keep theirs, so it is after the rules have been evaluated.
LEMMA EvaluateRoutes ==
    ASSUME RouterInv, NEW nodes, OneEach(nodes),
           NEW routes \in [SourceIds -> Routes \cup {NoRoute}], OwnRoutes(nodes, routes),
           \A s \in SourceIds : HasSource(nodes, s) => routes[s] = sourceRoutes[s],
           NEW rs, NEW context, EvaluateRules(nodes, routes, rs, context)
    PROVE  /\ OwnRoutes(nodes, sourceRoutes')
           /\ \A c \in associations' : sourceRoutes'[c.src] # NoRoute
           /\ PublishesRoutes
<1> DEFINE RouteTo(s) == RouteOf(nodes, routes, s)
<1>1. RouterTypes /\ MapOfNodes(nodes)
  BY DEF RouterInv, OneEach
<1>2. /\ associations' \subseteq Associations
      /\ \A c \in associations' : HasSource(nodes, c.src)
      /\ \A s \in SourceIds :
            \/ sourceRoutes'[s] = routes[s]
            \/ HasSource(nodes, s) /\ sourceRoutes'[s] = RouteTo(s)
      /\ \A c \in associations' \ associations : sourceRoutes'[c.src] = RouteTo(c.src)
      /\ \A e \in published' : e.route # NoRoute => e.route = sourceRoutes'[e.src]
  BY <1>1, EvaluateStep
<1>3. \A s \in SourceIds : HasSource(nodes, s) =>
         /\ RouteTo(s) # NoRoute
         /\ routes[s] # NoRoute => RouteTo(s) = routes[s]
         /\ \E k \in DOMAIN nodes : s \in DOMAIN nodes[k].ioSources /\ RouteTo(s) = nodes[k].ioSources[s].route
  <2> SUFFICES ASSUME NEW s \in SourceIds, HasSource(nodes, s)
               PROVE  /\ RouteTo(s) # NoRoute
                      /\ routes[s] # NoRoute => RouteTo(s) = routes[s]
                      /\ \E k \in DOMAIN nodes : s \in DOMAIN nodes[k].ioSources /\ RouteTo(s) = nodes[k].ioSources[s].route
    OBVIOUS
  <2>1. PICK k \in DOMAIN nodes : s \in DOMAIN nodes[k].ioSources
    BY DEF HasSource
  <2>2. nodes[k] \in IoNodes /\ SourceIn(nodes, s) = nodes[k].ioSources[s]
    BY <2>1, PointsAreUnique
  <2>3. nodes[k].ioSources[s].route # NoRoute
    BY <2>1, <2>2, PointsAssumption
  <2>4. ASSUME routes[s] # NoRoute PROVE routes[s] = nodes[k].ioSources[s].route
    <3>1. PICK j \in DOMAIN nodes : s \in DOMAIN nodes[j].ioSources /\ routes[s] = nodes[j].ioSources[s].route
      BY <2>4 DEF OwnRoutes
    <3>2. j = k
      BY <2>1, <3>1, PointsAreUnique
    <3> QED
      BY <3>1, <3>2
  <2>5. RouteTo(s) = IF routes[s] # NoRoute THEN routes[s] ELSE nodes[k].ioSources[s].route
    BY <2>2 DEF RouteOf
  <2> HIDE DEF RouteTo
  <2> QED
    BY <2>1, <2>3, <2>4, <2>5
<1> HIDE DEF RouteTo
<1>4. OwnRoutes(nodes, sourceRoutes')
  BY <1>2, <1>3 DEF OwnRoutes
<1>5. \A c \in associations' : c.src \in SourceIds
  BY <1>2 DEF Associations
<1>6. \A c \in associations \cap associations' :
         sourceRoutes'[c.src] = sourceRoutes[c.src] /\ sourceRoutes'[c.src] # NoRoute
  <2> SUFFICES ASSUME NEW c \in associations, c \in associations'
               PROVE  sourceRoutes'[c.src] = sourceRoutes[c.src] /\ sourceRoutes'[c.src] # NoRoute
    OBVIOUS
  <2>1. sourceRoutes[c.src] # NoRoute
    BY DEF RouterInv, AssociationsOfManaged
  <2>2. c.src \in SourceIds /\ HasSource(nodes, c.src)
    BY <1>2, <1>5
  <2>3. routes[c.src] = sourceRoutes[c.src]
    BY <2>2
  <2> QED
    BY <1>2, <1>3, <2>1, <2>2, <2>3
<1>7. \A c \in associations' : sourceRoutes'[c.src] # NoRoute
  BY <1>2, <1>3, <1>5, <1>6
<1> QED
  BY <1>2, <1>4, <1>6, <1>7 DEF PublishesRoutes

------------------------------------------------------------------------------
(* Sequences                                                                 *)

\* A sequence without its i-th element.
LEMMA RemoveAtProperties ==
    ASSUME NEW S, NEW q \in Seq(S), NEW i \in 1 .. Len(q)
    PROVE  /\ RemoveAt(q, i) \in Seq(S)
           /\ DOMAIN RemoveAt(q, i) = 1 .. (Len(q) - 1)
           /\ \A k \in 1 .. (Len(q) - 1) : RemoveAt(q, i)[k] = q[IF k < i THEN k ELSE k + 1]
<1> DEFINE s1 == SubSeq(q, 1, i - 1)
           s2 == SubSeq(q, i + 1, Len(q))
<1>1. Len(q) \in Nat /\ DOMAIN q = 1 .. Len(q) /\ \A k \in 1 .. Len(q) : q[k] \in S
  BY LenProperties, ElementOfSeq
<1>2. s1 \in Seq(S) /\ Len(s1) = i - 1 /\ \A k \in 1 .. i - 1 : s1[k] = q[k]
  <2>1. /\ 1 \in Int /\ i - 1 \in Int /\ \A k \in 1 .. i - 1 : q[k] \in S
    BY <1>1
  <2>2. /\ s1 \in Seq(S)
        /\ Len(s1) = IF 1 <= i - 1 THEN (i - 1) - 1 + 1 ELSE 0
        /\ \A k \in 1 .. (i - 1) - 1 + 1 : s1[k] = q[1 + k - 1]
    BY <2>1, SubSeqProperties
  <2> HIDE DEF s1
  <2>3. Len(s1) = i - 1
    <3>1. (IF 1 <= i - 1 THEN (i - 1) - 1 + 1 ELSE 0) = i - 1
      <4>1. i \in Nat /\ i >= 1
        BY <1>1
      <4>2. CASE i = 1
        BY <4>2
      <4>3. CASE i # 1
        BY <4>1, <4>3
      <4> QED
        BY <4>2, <4>3
    <3> QED
      BY <2>2, <3>1
  <2>4. \A k \in 1 .. i - 1 : k \in 1 .. (i - 1) - 1 + 1 /\ 1 + k - 1 = k
    BY <1>1
  <2> QED
    BY <2>2, <2>3, <2>4
<1>3. s2 \in Seq(S) /\ Len(s2) = Len(q) - i /\ \A k \in 1 .. Len(q) - i : s2[k] = q[i + k]
  <2>1. /\ i + 1 \in Int /\ Len(q) \in Int /\ \A k \in i + 1 .. Len(q) : q[k] \in S
    BY <1>1
  <2>2. /\ s2 \in Seq(S)
        /\ Len(s2) = IF i + 1 <= Len(q) THEN Len(q) - (i + 1) + 1 ELSE 0
        /\ \A k \in 1 .. Len(q) - (i + 1) + 1 : s2[k] = q[(i + 1) + k - 1]
    BY <2>1, SubSeqProperties
  <2> HIDE DEF s2
  <2>3. Len(s2) = Len(q) - i
    <3>1. (IF i + 1 <= Len(q) THEN Len(q) - (i + 1) + 1 ELSE 0) = Len(q) - i
      <4>1. i \in Nat /\ Len(q) \in Nat /\ i <= Len(q)
        BY <1>1
      <4>2. CASE i = Len(q)
        BY <4>1, <4>2
      <4>3. CASE i # Len(q)
        BY <4>1, <4>3
      <4> QED
        BY <4>2, <4>3
    <3> QED
      BY <2>2, <3>1
  <2>4. \A k \in 1 .. Len(q) - i : k \in 1 .. Len(q) - (i + 1) + 1 /\ (i + 1) + k - 1 = i + k
    BY <1>1
  <2> QED
    BY <2>2, <2>3, <2>4
<1>4. RemoveAt(q, i) = s1 \o s2
  BY DEF RemoveAt
<1> HIDE DEF s1, s2
<1>5. /\ RemoveAt(q, i) \in Seq(S) /\ Len(RemoveAt(q, i)) = Len(s1) + Len(s2)
      /\ \A k \in 1 .. Len(s1) + Len(s2) :
            RemoveAt(q, i)[k] = IF k <= Len(s1) THEN s1[k] ELSE s2[k - Len(s1)]
  <2>1. s1 \in Seq(S) /\ s2 \in Seq(S)
    BY <1>2, <1>3
  <2>2. /\ s1 \o s2 \in Seq(S) /\ Len(s1 \o s2) = Len(s1) + Len(s2)
        /\ \A k \in 1 .. Len(s1) + Len(s2) :
              (s1 \o s2)[k] = IF k <= Len(s1) THEN s1[k] ELSE s2[k - Len(s1)]
    BY <2>1, ConcatProperties
  <2> QED
    BY <1>4, <2>2
<1>6. Len(s1) + Len(s2) = Len(q) - 1
  BY <1>1, <1>2, <1>3
<1>7. DOMAIN RemoveAt(q, i) = 1 .. (Len(q) - 1)
  BY <1>5, <1>6, LenProperties
<1>8. ASSUME NEW k \in 1 .. (Len(q) - 1)
      PROVE  RemoveAt(q, i)[k] = q[IF k < i THEN k ELSE k + 1]
  <2>1. RemoveAt(q, i)[k] = IF k <= i - 1 THEN s1[k] ELSE s2[k - (i - 1)]
    BY <1>2, <1>5, <1>6
  <2>2. CASE k < i
    <3>1. k <= i - 1 /\ k \in 1 .. i - 1
      BY <1>1, <2>2
    <3> QED
      BY <1>2, <2>1, <2>2, <3>1
  <2>3. CASE ~(k < i)
    <3>1. ~(k <= i - 1) /\ k - (i - 1) \in 1 .. Len(q) - i /\ i + (k - (i - 1)) = k + 1
      BY <1>1, <2>3
    <3> QED
      BY <1>3, <2>1, <2>3, <3>1
  <2> QED
    BY <2>2, <2>3
<1> QED
  BY <1>5, <1>7, <1>8

\* A sequence that grows at its end.
LEMMA AppendFacts ==
    ASSUME NEW S, NEW q \in Seq(S), NEW e \in S
    PROVE  /\ Append(q, e) \in Seq(S)
           /\ Append(q, e) # <<>>
           /\ Len(q) \in Nat
           /\ DOMAIN q = 1 .. Len(q)
           /\ Len(Append(q, e)) = Len(q) + 1
           /\ DOMAIN Append(q, e) = 1 .. (Len(q) + 1)
           /\ \A p \in 1 .. Len(q) : Append(q, e)[p] = q[p]
           /\ Append(q, e)[Len(q) + 1] = e
<1>1. /\ Append(q, e) \in Seq(S)
      /\ Append(q, e) # <<>>
      /\ Len(Append(q, e)) = Len(q) + 1
      /\ \A p \in 1 .. Len(q) : Append(q, e)[p] = q[p]
      /\ Append(q, e)[Len(q) + 1] = e
  BY AppendProperties
<1>2. DOMAIN Append(q, e) = 1 .. Len(Append(q, e))
  BY <1>1, LenProperties
<1>3. Len(q) \in Nat /\ DOMAIN q = 1 .. Len(q)
  BY LenProperties
<1> QED
  BY <1>1, <1>2, <1>3

\* A sequence that loses its head.
LEMMA TailFacts ==
    ASSUME NEW S, NEW q \in Seq(S), q # <<>>
    PROVE  /\ Tail(q) \in Seq(S)
           /\ Head(q) = q[1] /\ q[1] \in S
           /\ Len(q) \in Nat /\ Len(q) >= 1
           /\ DOMAIN q = 1 .. Len(q)
           /\ Len(Tail(q)) = Len(q) - 1
           /\ DOMAIN Tail(q) = 1 .. (Len(q) - 1)
           /\ \A p \in 1 .. (Len(q) - 1) : Tail(q)[p] = q[p + 1]
           /\ Tail(q) = <<>> <=> Len(q) = 1
<1>1. Len(q) \in Nat \ {0} /\ DOMAIN q = 1 .. Len(q)
  BY EmptySeq, LenProperties
<1>2. /\ Tail(q) \in Seq(S) /\ Len(Tail(q)) = Len(q) - 1
      /\ \A p \in 1 .. Len(Tail(q)) : Tail(q)[p] = q[p + 1]
  BY HeadTailProperties
<1>3. DOMAIN Tail(q) = 1 .. Len(Tail(q))
  BY <1>2, LenProperties
<1>4. Head(q) = q[1] /\ q[1] \in S
  <2>1. q[1] \in S
    BY <1>1, ElementOfSeq
  <2>2. Head(q) = q[1]
    BY q # <<>>
  <2> QED
    BY <2>1, <2>2
<1>5. Tail(q) = <<>> <=> Len(Tail(q)) = 0
  BY <1>2, EmptySeq
<1> QED
  BY <1>1, <1>2, <1>3, <1>4, <1>5

\* Managed nodes but the one of an id.
LEMMA WithoutProperties ==
    ASSUME MapOfNodes(managed), NEW id
    PROVE  /\ MapOfNodes(Without(id))
           /\ \A k \in DOMAIN Without(id) : \E j \in DOMAIN managed :
                 managed[j].id # id /\ Without(id)[k] = managed[j]
           /\ \A j \in DOMAIN managed : managed[j].id # id =>
                 \E k \in DOMAIN Without(id) : Without(id)[k] = managed[j]
           /\ OneEach(managed) => OneEach(Without(id))
<1>1. managed \in Seq(IoNodes) /\ Len(managed) \in Nat /\ DOMAIN managed = 1 .. Len(managed)
  BY LenProperties DEF MapOfNodes
<1>2. CASE \A k \in DOMAIN managed : managed[k].id # id
  <2>1. Without(id) = managed
    BY <1>2 DEF Without
  <2> QED
    BY <1>2, <2>1
<1>3. CASE \E k \in DOMAIN managed : managed[k].id = id
  <2>1. PICK i \in DOMAIN managed : managed[i].id = id /\ Without(id) = RemoveAt(managed, i)
    BY <1>3 DEF Without
  <2> DEFINE w == Without(id)
             at(k) == IF k < i THEN k ELSE k + 1
  <2>2. /\ w \in Seq(IoNodes) /\ DOMAIN w = 1 .. (Len(managed) - 1)
        /\ \A k \in 1 .. (Len(managed) - 1) : w[k] = managed[at(k)]
    BY <1>1, <2>1, RemoveAtProperties
  <2> HIDE DEF w
  <2>3. /\ \A k \in 1 .. (Len(managed) - 1) : at(k) \in DOMAIN managed /\ at(k) # i
        /\ \A j, k \in 1 .. (Len(managed) - 1) : at(j) = at(k) => j = k
        /\ \A j \in DOMAIN managed : j # i => \E k \in 1 .. (Len(managed) - 1) : at(k) = j
    <3>1. \A j \in DOMAIN managed : j # i =>
             IF j < i THEN j \in 1 .. (Len(managed) - 1) /\ at(j) = j
                      ELSE j - 1 \in 1 .. (Len(managed) - 1) /\ at(j - 1) = j
      BY <1>1
    <3>2. /\ \A k \in 1 .. (Len(managed) - 1) : at(k) \in DOMAIN managed /\ at(k) # i
          /\ \A j, k \in 1 .. (Len(managed) - 1) : at(j) = at(k) => j = k
      BY <1>1
    <3> HIDE DEF at
    <3> QED
      BY <3>1, <3>2
  <2> HIDE DEF at
  <2>4. \A j \in DOMAIN managed : j = i <=> managed[j].id = id
    BY <2>1 DEF MapOfNodes
  <2>5. \A k \in DOMAIN w : w[k] = managed[at(k)] /\ at(k) \in DOMAIN managed
    BY <2>2, <2>3
  <2>8. MapOfNodes(w)
    <3>1. \A k \in DOMAIN w : HasIoPoints(w[k])
      BY <2>5 DEF MapOfNodes
    <3>2. ASSUME NEW j \in DOMAIN w, NEW k \in DOMAIN w, w[j].id = w[k].id PROVE j = k
      <4>1. at(j) = at(k)
        BY <2>5, <3>2 DEF MapOfNodes
      <4> QED
        BY <2>2, <2>3, <4>1
    <3> QED
      BY <2>2, <3>1, <3>2 DEF MapOfNodes
  <2>9. ASSUME OneEach(managed) PROVE OneEach(w)
    <3>1. ASSUME NEW j \in DOMAIN w, NEW k \in DOMAIN w, w[j].id[1] = w[k].id[1] PROVE j = k
      <4>1. at(j) = at(k)
        BY <2>5, <2>9, <3>1 DEF OneEach
      <4> QED
        BY <2>2, <2>3, <4>1
    <3> QED
      BY <2>8, <3>1 DEF OneEach
  <2>6. \A k \in DOMAIN w : \E j \in DOMAIN managed : managed[j].id # id /\ w[k] = managed[j]
    BY <2>2, <2>3, <2>4
  <2>7. \A j \in DOMAIN managed : managed[j].id # id => \E k \in DOMAIN w : w[k] = managed[j]
    BY <2>2, <2>3, <2>4
  <2> QED
    BY <2>6, <2>7, <2>8, <2>9 DEF w
<1> QED
  BY <1>2, <1>3

------------------------------------------------------------------------------
(* Handlers of the router                                                    *)

\* What a router has of any nodes after rules have been evaluated for them.
LEMMA EvaluatedTypes ==
    ASSUME RouterTypes, MapOfNodes(managed'),
           NEW routes \in [SourceIds -> Routes \cup {NoRoute}],
           NEW rs, NEW context, EvaluateRules(managed', routes, rs, context),
           listening' \in BOOLEAN, ioContext' \in Contexts, rules' \in RuleSets
    PROVE  RouterTypes' /\ PublishesChanges
<1>1. /\ associations' \subseteq Associations
      /\ sourceRoutes' \in [SourceIds -> Routes \cup {NoRoute}]
      /\ \A c, d \in associations' : OfPair(c, d) => c = d
      /\ PublishesChanges
  BY EvaluateStep
<1>2. RouterTypes'
  BY <1>1 DEF RouterTypes
<1> QED
  BY <1>1, <1>2

\* The router is consistent after rules have been evaluated for what it manages.
LEMMA EvaluatedStep ==
    ASSUME RouterInv, RouterTypes', OneEach(managed'),
           NEW routes \in [SourceIds -> Routes \cup {NoRoute}], OwnRoutes(managed', routes),
           \A s \in SourceIds : HasSource(managed', s) => routes[s] = sourceRoutes[s],
           NEW rs, NEW context, EvaluateRules(managed', routes, rs, context)
    PROVE  RouterInv' /\ PublishesRoutes
<1>1. /\ OwnRoutes(managed', sourceRoutes')
      /\ \A c \in associations' : sourceRoutes'[c.src] # NoRoute
      /\ PublishesRoutes
  BY EvaluateRoutes
<1>2. \A c \in associations' : HasSource(managed', c.src) /\ HasActor(managed', c.act)
  <2>1. RouterTypes /\ MapOfNodes(managed')
    BY DEF RouterInv, OneEach
  <2> QED
    BY <2>1, EvaluateStep
<1>3. AssociationsOfManaged'
  BY <1>1, <1>2 DEF AssociationsOfManaged
<1> QED
  BY <1>1, <1>3 DEF RouterInv

\* What holds of the nodes that the router manages when nothing changes.
LEMMA NothingPublished ==
    ASSUME RouterTypes, published' = {},
           UNCHANGED <<listening, ioContext, rules, managed, sourceRoutes, associations>>
    PROVE  /\ RouterTypes' /\ PublishesChanges
           /\ RouterInv => RouterInv' /\ PublishesRoutes
<1>1. RouterTypes'
  BY DEF RouterTypes, OfPair
<1>2. RouterInv => RouterInv'
  BY <1>1 DEF RouterInv, AssociationsOfManaged
<1>3. PublishesChanges /\ PublishesRoutes
  BY DEF PublishesChanges, PublishesRoutes, OfPair
<1> QED
  BY <1>1, <1>2, <1>3

\* Routes stay routes, or are removed.
LEMMA RoutesKeptTypes ==
    ASSUME RouterTypes, NEW id, NEW readvertised
    PROVE  RoutesKept(id, readvertised) \in [SourceIds -> Routes \cup {NoRoute}]
BY DEF RoutesKept, RouterTypes

\* A node that is deadvertised is not managed any more.
LEMMA DeadvertisedStep ==
    ASSUME RouterTypes, NEW id, IoNodeDeadvertised(id)
    PROVE  /\ RouterTypes' /\ PublishesChanges
           /\ RouterInv => RouterInv' /\ PublishesRoutes
           /\ \A n : n \in ManagedNodes' <=> n \in ManagedNodes /\ n.id # id
<1>0. UNCHANGED <<listening, ioContext, rules>>
  BY DEF IoNodeDeadvertised
<1>1. CASE \A k \in DOMAIN managed : managed[k].id # id
  <2>1. published' = {} /\ UNCHANGED <<managed, associations, sourceRoutes>>
    BY <1>1 DEF IoNodeDeadvertised
  <2>2. RouterTypes' /\ PublishesChanges /\ (RouterInv => RouterInv' /\ PublishesRoutes)
    BY <1>0, <2>1, NothingPublished
  <2>3. \A n : n \in ManagedNodes' <=> n \in ManagedNodes /\ n.id # id
    BY <1>1, <2>1 DEF ManagedNodes
  <2> QED
    BY <2>2, <2>3
<1>2. CASE \E k \in DOMAIN managed : managed[k].id = id
  <2> DEFINE routes == RoutesKept(id, {})
  <2>1. managed' = Without(id) /\ EvaluateRules(managed', routes, rules, ioContext)
    BY <1>2 DEF IoNodeDeadvertised
  <2>2. MapOfNodes(managed)
    BY DEF RouterTypes
  <2>3. /\ MapOfNodes(managed')
        /\ \A k \in DOMAIN managed' : \E j \in DOMAIN managed :
              managed[j].id # id /\ managed'[k] = managed[j]
        /\ \A j \in DOMAIN managed : managed[j].id # id =>
              \E k \in DOMAIN managed' : managed'[k] = managed[j]
        /\ OneEach(managed) => OneEach(managed')
    BY <2>1, <2>2, WithoutProperties
  <2>4. \A s \in SourceIds :
           routes[s] = IF \E k \in DOMAIN managed : managed[k].id = id /\ s \in DOMAIN managed[k].ioSources
                       THEN NoRoute ELSE sourceRoutes[s]
    BY DEF RoutesKept
  <2>5. routes \in [SourceIds -> Routes \cup {NoRoute}]
    BY RoutesKeptTypes
  <2> HIDE DEF routes
  <2>6. RouterTypes' /\ PublishesChanges
    <3>1. listening' \in BOOLEAN /\ ioContext' \in Contexts /\ rules' \in RuleSets
      BY <1>0 DEF RouterTypes
    <3> QED
      BY <2>1, <2>3, <2>5, <3>1, EvaluatedTypes
  <2>7. ASSUME RouterInv PROVE RouterInv' /\ PublishesRoutes
    <3>1. OneEach(managed) /\ OwnRoutes(managed, sourceRoutes) /\ OneEach(managed')
      BY <2>3, <2>7 DEF RouterInv
    <3>2. OwnRoutes(managed', routes)
      <4> SUFFICES ASSUME NEW s \in SourceIds, routes[s] # NoRoute
                   PROVE  \E k \in DOMAIN managed' :
                             s \in DOMAIN managed'[k].ioSources /\ routes[s] = managed'[k].ioSources[s].route
        BY DEF OwnRoutes
      <4>1. routes[s] = sourceRoutes[s]
        BY <2>4
      <4>2. PICK j \in DOMAIN managed :
               s \in DOMAIN managed[j].ioSources /\ routes[s] = managed[j].ioSources[s].route
        BY <3>1, <4>1 DEF OwnRoutes
      <4>3. managed[j].id # id
        BY <2>4, <4>2
      <4> QED
        BY <2>3, <4>2, <4>3
    <3>3. ASSUME NEW s \in SourceIds, HasSource(managed', s) PROVE routes[s] = sourceRoutes[s]
      <4>1. PICK k \in DOMAIN managed' : s \in DOMAIN managed'[k].ioSources
        BY <3>3 DEF HasSource
      <4>2. PICK j \in DOMAIN managed : managed[j].id # id /\ s \in DOMAIN managed[j].ioSources
        BY <2>3, <4>1
      <4>3. \A i \in DOMAIN managed : s \in DOMAIN managed[i].ioSources => i = j
        BY <3>1, <4>2, PointsAreUnique
      <4> QED
        BY <2>4, <4>2, <4>3
    <3> QED
      BY <2>1, <2>5, <2>6, <2>7, <3>1, <3>2, <3>3, EvaluatedStep
  <2>8. \A n : n \in ManagedNodes' <=> n \in ManagedNodes /\ n.id # id
    <3>1. \A n : n \in ManagedNodes' <=> \E k \in DOMAIN managed' : n = managed'[k]
      BY DEF ManagedNodes
    <3>2. \A n : n \in ManagedNodes <=> \E k \in DOMAIN managed : n = managed[k]
      BY DEF ManagedNodes
    <3> QED
      BY <2>3, <3>1, <3>2
  <2> QED
    BY <2>6, <2>7, <2>8
<1> QED
  BY <1>1, <1>2

\* A node that is advertised is managed if it has IO points.
LEMMA AdvertisedStep ==
    ASSUME RouterTypes, NEW node \in IoNodes, IoNodeAdvertised(node)
    PROVE  /\ RouterTypes' /\ PublishesChanges
           /\ RouterInv /\ (\A n \in ManagedNodes : n.id[1] = node.id[1] => n = node) =>
                 /\ RouterInv' /\ PublishesRoutes
                 /\ \A n : n \in ManagedNodes' <=>
                       \/ n \in ManagedNodes /\ n.id # node.id
                       \/ n = node /\ HasIoPoints(node)
<1>1. CASE ~HasIoPoints(node)
  <2>1. IoNodeDeadvertised(node.id)
    BY <1>1 DEF IoNodeAdvertised
  <2> QED
    BY <1>1, <2>1, DeadvertisedStep
<1>2. CASE HasIoPoints(node)
  <2> DEFINE routes == RoutesKept(node.id, DOMAIN node.ioSources)
             w == Without(node.id)
  <2>1. /\ managed' = Append(w, node) /\ EvaluateRules(managed', routes, rules, ioContext)
        /\ UNCHANGED <<listening, ioContext, rules>>
    BY <1>2 DEF IoNodeAdvertised
  <2>2. MapOfNodes(managed)
    BY DEF RouterTypes
  <2>3. /\ MapOfNodes(w)
        /\ \A k \in DOMAIN w : \E j \in DOMAIN managed : managed[j].id # node.id /\ w[k] = managed[j]
        /\ \A j \in DOMAIN managed : managed[j].id # node.id => \E k \in DOMAIN w : w[k] = managed[j]
        /\ OneEach(managed) => OneEach(w)
    BY <2>2, WithoutProperties
  <2> HIDE DEF w
  <2>4. /\ managed' \in Seq(IoNodes)
        /\ Len(w) \in Nat /\ DOMAIN w = 1 .. Len(w)
        /\ DOMAIN managed' = 1 .. (Len(w) + 1)
        /\ \A k \in 1 .. Len(w) : managed'[k] = w[k]
        /\ managed'[Len(w) + 1] = node
    BY <2>1, <2>3, AppendFacts DEF MapOfNodes
  <2>5. \A k \in DOMAIN managed' : k \in DOMAIN w \/ k = Len(w) + 1
    BY <2>4
  <2>6. /\ \A k \in DOMAIN w : k \in DOMAIN managed' /\ managed'[k] = w[k]
        /\ Len(w) + 1 \in DOMAIN managed'
    BY <2>4
  <2>7. MapOfNodes(managed')
    <3>1. \A k \in DOMAIN managed' : HasIoPoints(managed'[k])
      BY <1>2, <2>3, <2>4, <2>5, <2>6 DEF MapOfNodes
    <3>2. \A j, k \in DOMAIN managed' : managed'[j].id = managed'[k].id => j = k
      <4>1. \A j, k \in DOMAIN w : w[j].id = w[k].id => j = k
        BY <2>3 DEF MapOfNodes
      <4>2. \A k \in DOMAIN w : w[k].id # node.id
        BY <2>3
      <4> QED
        BY <2>4, <2>5, <2>6, <4>1, <4>2
    <3> QED
      BY <2>4, <3>1, <3>2 DEF MapOfNodes
  <2>8. routes \in [SourceIds -> Routes \cup {NoRoute}]
    BY RoutesKeptTypes
  <2>9. RouterTypes' /\ PublishesChanges
    <3>1. listening' \in BOOLEAN /\ ioContext' \in Contexts /\ rules' \in RuleSets
      BY <2>1 DEF RouterTypes
    <3> HIDE DEF routes
    <3> QED
      BY <2>1, <2>7, <2>8, <3>1, EvaluatedTypes
  <2>10. ASSUME RouterInv, \A n \in ManagedNodes : n.id[1] = node.id[1] => n = node
         PROVE  /\ RouterInv' /\ PublishesRoutes
                /\ \A n : n \in ManagedNodes' <=>
                      \/ n \in ManagedNodes /\ n.id # node.id
                      \/ n = node /\ HasIoPoints(node)
    <3>1. OneEach(managed) /\ OwnRoutes(managed, sourceRoutes)
      BY <2>10 DEF RouterInv
    <3>2. \A j \in DOMAIN managed : managed[j].id[1] = node.id[1] => managed[j] = node
      BY <2>10 DEF ManagedNodes
    <3>3. \A k \in DOMAIN w : w[k].id[1] # node.id[1]
      BY <2>3, <3>2
    <3>4. OneEach(managed')
      <4>1. \A j, k \in DOMAIN w : w[j].id[1] = w[k].id[1] => j = k
        BY <2>3, <3>1 DEF OneEach
      <4>2. \A j, k \in DOMAIN managed' : managed'[j].id[1] = managed'[k].id[1] => j = k
        BY <2>4, <2>5, <2>6, <3>3, <4>1
      <4> QED
        BY <2>7, <4>2 DEF OneEach
    <3>5. \A s \in SourceIds : routes[s] = sourceRoutes[s]
      <4>1. \A k \in DOMAIN managed : managed[k].id = node.id => managed[k] = node
        BY <3>2
      <4> QED
        BY <4>1 DEF RoutesKept
    <3> HIDE DEF routes
    <3>6. OwnRoutes(managed', routes)
      <4> SUFFICES ASSUME NEW s \in SourceIds, routes[s] # NoRoute
                   PROVE  \E k \in DOMAIN managed' :
                             s \in DOMAIN managed'[k].ioSources /\ routes[s] = managed'[k].ioSources[s].route
        BY DEF OwnRoutes
      <4>1. PICK j \in DOMAIN managed :
               s \in DOMAIN managed[j].ioSources /\ routes[s] = managed[j].ioSources[s].route
        BY <3>1, <3>5 DEF OwnRoutes
      <4>2. CASE managed[j].id = node.id
        <5>1. managed[j] = node
          BY <3>2, <4>2
        <5> QED
          BY <2>4, <2>6, <4>1, <5>1
      <4>3. CASE managed[j].id # node.id
        <5>1. PICK k \in DOMAIN w : w[k] = managed[j]
          BY <2>3, <4>3
        <5> QED
          BY <2>6, <4>1, <5>1
      <4> QED
        BY <4>2, <4>3
    <3>7. RouterInv' /\ PublishesRoutes
      BY <2>1, <2>8, <2>9, <2>10, <3>4, <3>5, <3>6, EvaluatedStep
    <3>8. \A n : n \in ManagedNodes' <=>
             \/ n \in ManagedNodes /\ n.id # node.id
             \/ n = node /\ HasIoPoints(node)
      <4>1. \A n : n \in ManagedNodes' <=> \E k \in DOMAIN managed' : n = managed'[k]
        BY DEF ManagedNodes
      <4>2. \A n : n \in ManagedNodes <=> \E k \in DOMAIN managed : n = managed[k]
        BY DEF ManagedNodes
      <4>3. \A n : n \in ManagedNodes' <=> n = node \/ \E k \in DOMAIN w : n = w[k]
        BY <2>4, <2>5, <2>6, <4>1
      <4>4. \A n : (\E k \in DOMAIN w : n = w[k]) <=> n \in ManagedNodes /\ n.id # node.id
        BY <2>3, <4>2
      <4> QED
        BY <1>2, <4>3, <4>4
    <3> QED
      BY <3>7, <3>8
  <2> QED
    BY <2>9, <2>10
<1> QED
  BY <1>1, <1>2

\* The rules are evaluated anew for the nodes that are managed.
LEMMA ReevaluatedStep ==
    ASSUME RouterTypes, UNCHANGED managed, NEW rs, NEW context,
           EvaluateRules(managed, sourceRoutes, rs, context),
           listening' \in BOOLEAN, ioContext' \in Contexts, rules' \in RuleSets
    PROVE  /\ RouterTypes' /\ PublishesChanges /\ ManagedNodes' = ManagedNodes
           /\ RouterInv => RouterInv' /\ PublishesRoutes
<1>1. /\ MapOfNodes(managed')
      /\ sourceRoutes \in [SourceIds -> Routes \cup {NoRoute}]
      /\ EvaluateRules(managed', sourceRoutes, rs, context)
  BY DEF RouterTypes
<1>2. ManagedNodes' = ManagedNodes
  BY DEF ManagedNodes
<1>3. RouterTypes' /\ PublishesChanges
  BY <1>1, EvaluatedTypes
<1>4. ASSUME RouterInv PROVE RouterInv' /\ PublishesRoutes
  <2>1. OneEach(managed') /\ OwnRoutes(managed', sourceRoutes)
    BY <1>4 DEF RouterInv
  <2> QED
    BY <1>1, <1>3, <1>4, <2>1, EvaluatedStep
<1> QED
  BY <1>2, <1>3, <1>4

\* The router forgets everything.
LEMMA NothingManaged ==
    ASSUME RouterTypes, managed' = <<>>, associations' = {}, sourceRoutes' = [s \in SourceIds |-> NoRoute],
           listening' = FALSE, UNCHANGED <<ioContext, rules>>
    PROVE  RouterTypes' /\ RouterInv' /\ ManagedNodes' = {}
<1>1. OneEach(managed') /\ MapOfNodes(managed')
  BY EmptySeq DEF OneEach, MapOfNodes
<1>2. RouterTypes'
  BY <1>1 DEF RouterTypes
<1>3. OwnRoutes(managed', sourceRoutes') /\ AssociationsOfManaged'
  BY DEF OwnRoutes, AssociationsOfManaged
<1>4. ManagedNodes' = {}
  BY DEF ManagedNodes
<1> QED
  BY <1>1, <1>2, <1>3, <1>4 DEF RouterInv

\* All associations are ended when the router stops.
LEMMA StoppedStep ==
    ASSUME RouterTypes, RouterStopped
    PROVE  /\ RouterTypes' /\ RouterInv' /\ PublishesChanges /\ PublishesRoutes
           /\ ManagedNodes' = {} /\ associations' = {}
<1>1. /\ managed' = <<>> /\ associations' = {} /\ sourceRoutes' = [s \in SourceIds |-> NoRoute]
      /\ listening' = FALSE /\ UNCHANGED <<ioContext, rules>>
      /\ published' = {Disassociate(c) : c \in associations}
  BY DEF RouterStopped, AllDisassociated
<1>2. RouterTypes' /\ RouterInv' /\ ManagedNodes' = {}
  BY <1>1, NothingManaged
<1>3. \A c \in associations : c.src \in SourceIds /\ c.act \in ActorIds
  BY DEF RouterTypes, Associations
<1>4. \A c \in associations :
         /\ Disassociate(c) \in Events /\ Disassociate(c).route = NoRoute
         /\ OfPair(Disassociate(c), c)
  BY <1>3 DEF Disassociate, Events, OfPair, NoRate
<1>5. PublishesChanges /\ PublishesRoutes
  BY <1>1, <1>4 DEF PublishesChanges, PublishesRoutes
<1> QED
  BY <1>1, <1>2, <1>5

------------------------------------------------------------------------------
(* The IO nodes of agents                                                    *)

\* Nodes that are current for an agent b, and are its own, stay current.
StaysCurrent(b) == \A n : n.id[1] = b /\ Current(b, n) => Current(b, n)'

\* What the router has of an agent remains in turn as long as nothing is sent or
\* received.
LEMMA StayInTurn ==
    ASSUME NEW b \in Agents, InTurn(b, toRouter[b], ManagedNodes), toRouter'[b] = toRouter[b],
           \A n \in ManagedNodes' : n.id[1] = b => n \in ManagedNodes, StaysCurrent(b)
    PROVE  InTurn(b, toRouter[b], ManagedNodes)'
<1>1. PICK q : q = toRouter[b]
  OBVIOUS
<1>2. /\ \A p \in DOMAIN q : q[p].node.id[1] = b
      /\ q # <<>> => \A n \in ManagedNodes : n.id[1] = b => n = q[1].node
      /\ \A p \in DOMAIN q : q[p].type = "Advertise" =>
            IF p = Len(q) THEN Current(b, q[p].node) ELSE q[p + 1].node = q[p].node
      /\ q = <<>> => \A n \in ManagedNodes : n.id[1] = b => Current(b, n)
  BY <1>1 DEF InTurn
<1>3. \A n : n.id[1] = b /\ Current(b, n) => Current(b, n)'
  BY DEF StaysCurrent
<1>4. q # <<>> => \A n \in ManagedNodes' : n.id[1] = b => n = q[1].node
  BY <1>2
<1>5. \A p \in DOMAIN q : q[p].type = "Advertise" =>
         IF p = Len(q) THEN Current(b, q[p].node)' ELSE q[p + 1].node = q[p].node
  BY <1>2, <1>3
<1>6. q = <<>> => \A n \in ManagedNodes' : n.id[1] = b => Current(b, n)'
  BY <1>2, <1>3
<1>7. toRouter'[b] = q
  BY <1>1
<1> QED
  BY <1>2, <1>4, <1>5, <1>6, <1>7 DEF InTurn

\* An event reaches the router, or it has missed something.
LEMMA SendTypes ==
    ASSUME AgentsInv, NEW a \in Agents, NEW type \in {"Advertise", "Deadvertise"},
           NEW node \in IoNodes, Send(a, type, node),
           UNCHANGED <<listening, managed, offline>>, discovered' \subseteq discovered
    PROVE  /\ toRouter' \in [Agents -> Seq(Messages)]
           /\ missed' \in BOOLEAN /\ (missed => missed')
           /\ StoppedRouter'
<1>1. /\ missed \in BOOLEAN /\ offline \in BOOLEAN /\ toRouter \in [Agents -> Seq(Messages)]
      /\ StoppedRouter
  BY DEF AgentsInv, AgentTypes
<1>2. missed' = (missed \/ (listening /\ offline))
  BY DEF Send
<1>3. CASE listening /\ ~offline
  <2> DEFINE m == [type |-> type, node |-> node]
  <2>1. toRouter' = [toRouter EXCEPT ![a] = Append(toRouter[a], m)]
    BY <1>3 DEF Send
  <2>2. m \in Messages
    BY DEF Messages
  <2> HIDE DEF m
  <2>3. Append(toRouter[a], m) \in Seq(Messages)
    BY <1>1, <2>2, AppendFacts
  <2>4. toRouter' \in [Agents -> Seq(Messages)]
    BY <1>1, <2>1, <2>3
  <2> QED
    BY <1>1, <1>2, <1>3, <2>4 DEF StoppedRouter
<1>4. CASE ~(listening /\ ~offline)
  <2>1. toRouter' = toRouter
    BY <1>4 DEF Send
  <2>2. ~listening => discovered' = {}
    BY <1>1 DEF StoppedRouter
  <2> QED
    BY <1>1, <1>2, <1>4, <2>1, <2>2 DEF StoppedRouter
<1> QED
  BY <1>3, <1>4

\* An agent sends an event about the only node of its that is current.
LEMMA SendStep ==
    ASSUME AgentsInv, NodesInTurn, ~missed', NEW a \in Agents, NEW type \in {"Advertise", "Deadvertise"},
           NEW node \in IoNodes, node.id[1] = a, Send(a, type, node),
           listening' = listening, managed' = managed,
           \A n : n.id[1] = a /\ Current(a, n) => n = node,
           type = "Advertise" => Current(a, node)',
           \A b \in Agents \ {a} : StaysCurrent(b)
    PROVE  /\ toRouter' \in [Agents -> Seq(Messages)]
           /\ NodesInTurn'
           /\ \A b \in Agents \ {a} : toRouter'[b] = toRouter[b]
           /\ listening => toRouter'[a] # <<>> /\ toRouter'[a][Len(toRouter'[a])].type = type
           /\ ~listening => toRouter' = toRouter
<1>1. /\ AgentTypes /\ NodesInTurn /\ StoppedRouter
      /\ toRouter \in [Agents -> Seq(Messages)]
      /\ listening => ~offline
  BY DEF AgentsInv, AgentTypes, Send
<1>2. ManagedNodes' = ManagedNodes
  BY DEF ManagedNodes
<1>3. CASE ~listening
  <2>1. toRouter' = toRouter /\ managed = <<>> /\ \A b \in Agents : toRouter[b] = <<>>
    BY <1>1, <1>3 DEF Send, StoppedRouter
  <2>2. ManagedNodes' = {} /\ \A b \in Agents : toRouter'[b] = <<>>
    BY <1>2, <2>1 DEF ManagedNodes
  <2>3. NodesInTurn'
    BY <2>2 DEF NodesInTurn, InTurn
  <2> QED
    BY <1>1, <1>3, <2>1, <2>3
<1>4. CASE listening
  <2> DEFINE m == [type |-> type, node |-> node]
  <2>0. PICK q : q = toRouter[a]
    OBVIOUS
  <2>1. toRouter' = [toRouter EXCEPT ![a] = Append(q, m)]
    BY <1>1, <1>4, <2>0 DEF Send
  <2>2. m \in Messages /\ m.type = type /\ m.node = node
    BY DEF Messages
  <2>3. q \in Seq(Messages) /\ toRouter'[a] = Append(q, m) /\ \A b \in Agents \ {a} : toRouter'[b] = toRouter[b]
    BY <1>1, <2>0, <2>1
  <2>4. /\ \A p \in DOMAIN q : q[p].node.id[1] = a
        /\ q # <<>> => \A n \in ManagedNodes : n.id[1] = a => n = q[1].node
        /\ \A p \in DOMAIN q : q[p].type = "Advertise" =>
              IF p = Len(q) THEN Current(a, q[p].node) ELSE q[p + 1].node = q[p].node
        /\ q = <<>> => \A n \in ManagedNodes : n.id[1] = a => Current(a, n)
    BY <1>1, <2>0 DEF NodesInTurn, InTurn
  <2> HIDE DEF m
  <2>17. PICK r : r = Append(q, m)
    OBVIOUS
  <2>5. /\ r \in Seq(Messages) /\ r # <<>>
        /\ Len(q) \in Nat /\ DOMAIN q = 1 .. Len(q)
        /\ Len(r) = Len(q) + 1 /\ DOMAIN r = 1 .. (Len(q) + 1)
        /\ \A p \in 1 .. Len(q) : r[p] = q[p]
        /\ r[Len(q) + 1] = m
    BY <2>2, <2>3, <2>17, AppendFacts
  <2>6. q # <<>> => Len(q) >= 1
    BY <2>3, <2>5, EmptySeq
  <2>7. toRouter'[a] = r
    BY <2>3, <2>17
  <2>8. \A p \in DOMAIN r : p \in DOMAIN q \/ p = Len(q) + 1
    BY <2>5
  <2>9. \A p \in DOMAIN r : r[p].node.id[1] = a
    BY <2>2, <2>4, <2>5, <2>8
  <2>10. ASSUME NEW n \in ManagedNodes, n.id[1] = a PROVE n = r[1].node
    <3>1. CASE q = <<>>
      <4>1. Len(q) = 0
        BY <3>1
      <4>2. n = node
        BY <2>4, <2>10, <3>1
      <4> QED
        BY <2>2, <2>5, <4>1, <4>2
    <3>2. CASE q # <<>>
      <4>1. r[1] = q[1]
        BY <2>5, <2>6, <3>2
      <4> QED
        BY <2>4, <2>10, <3>2, <4>1
    <3> QED
      BY <3>1, <3>2
  <2>11. ASSUME NEW p \in DOMAIN r, r[p].type = "Advertise"
         PROVE  IF p = Len(r) THEN Current(a, r[p].node)' ELSE r[p + 1].node = r[p].node
    <3>1. CASE p = Len(q) + 1
      <4>1. p = Len(r) /\ r[p] = m
        BY <2>5, <3>1
      <4>2. Current(a, node)'
        BY <2>2, <2>11, <4>1
      <4> QED
        BY <2>2, <4>1, <4>2
    <3>2. CASE p \in DOMAIN q /\ p = Len(q)
      <4>0. p \in 1 .. Len(q) /\ p + 1 = Len(q) + 1 /\ p # Len(q) + 1
        <5>1. Len(q) \in Nat /\ p = Len(q) /\ p \in 1 .. Len(q)
          BY <2>5, <3>2
        <5> QED
          BY <5>1
      <4>1. r[p] = q[p] /\ r[p + 1] = m /\ p # Len(r)
        BY <2>5, <4>0
      <4>2. q[p].node = node
        BY <2>4, <2>11, <3>2, <4>1
      <4> QED
        BY <2>2, <4>1, <4>2
    <3>3. CASE p \in DOMAIN q /\ p # Len(q)
      <4>1. p + 1 \in 1 .. Len(q) /\ p \in 1 .. Len(q) /\ p # Len(r)
        BY <2>5, <3>3
      <4>2. r[p] = q[p] /\ r[p + 1] = q[p + 1]
        BY <2>5, <4>1
      <4> QED
        BY <2>4, <2>11, <3>3, <4>1, <4>2
    <3> QED
      BY <2>8, <3>1, <3>2, <3>3
  <2>12. InTurn(a, toRouter[a], ManagedNodes)'
    BY <1>2, <2>5, <2>7, <2>9, <2>10, <2>11 DEF InTurn
  <2>13. \A b \in Agents \ {a} : InTurn(b, toRouter[b], ManagedNodes)'
    BY <1>1, <1>2, <2>3, StayInTurn DEF NodesInTurn
  <2>14. NodesInTurn'
    BY <2>12, <2>13 DEF NodesInTurn
  <2>15. toRouter' \in [Agents -> Seq(Messages)]
    BY <1>1, <2>1, <2>5, <2>17
  <2>16. toRouter'[a] # <<>> /\ toRouter'[a][Len(toRouter'[a])].type = type
    BY <2>2, <2>5, <2>7
  <2> QED
    BY <1>4, <2>3, <2>14, <2>15, <2>16
<1> QED
  BY <1>3, <1>4

\* A connected agent has advertised its IO node after it has sent an event.
LEMMA UpAfterSending ==
    ASSUME UpIsAdvertised, NEW a \in Agents, UNCHANGED <<listening, managed>>,
           listening /\ status'[a] = "up" =>
               toRouter'[a] # <<>> /\ toRouter'[a][Len(toRouter'[a])].type = "Advertise",
           \A b \in Agents \ {a} :
               /\ toRouter'[b] = toRouter[b] /\ status'[b] = status[b] /\ ioNode'[b] = ioNode[b]
               /\ b \in discovered => b \in discovered'
    PROVE  UpIsAdvertised'
<1>1. UpIsAdvertised /\ ManagedNodes' = ManagedNodes
  BY DEF ManagedNodes
<1> SUFFICES ASSUME listening', NEW b \in Agents, b \notin discovered', status'[b] = "up"
             PROVE  IF toRouter'[b] = <<>> THEN HasIoPoints(ioNode'[b]) => ioNode'[b] \in ManagedNodes'
                    ELSE toRouter'[b][Len(toRouter'[b])].type = "Advertise"
  BY DEF UpIsAdvertised
<1>2. CASE b = a
  BY <1>2
<1>3. CASE b # a
  BY <1>1, <1>3 DEF UpIsAdvertised
<1> QED
  BY <1>2, <1>3

\* ... and when it has sent nothing.
LEMMA UpStays ==
    ASSUME UpIsAdvertised, UNCHANGED <<listening, managed, toRouter>>,
           \A b \in Agents : status'[b] = "up" =>
               status[b] = "up" /\ ioNode'[b] = ioNode[b] /\ (b \in discovered => b \in discovered')
    PROVE  UpIsAdvertised'
<1>1. UpIsAdvertised /\ ManagedNodes' = ManagedNodes
  BY DEF ManagedNodes
<1> SUFFICES ASSUME listening', NEW b \in Agents, b \notin discovered', status'[b] = "up"
             PROVE  IF toRouter'[b] = <<>> THEN HasIoPoints(ioNode'[b]) => ioNode'[b] \in ManagedNodes'
                    ELSE toRouter'[b][Len(toRouter'[b])].type = "Advertise"
  BY DEF UpIsAdvertised
<1> QED
  BY <1>1 DEF UpIsAdvertised

\* An agent starts and advertises its IO node.
LEMMA AgentStartsStep ==
    ASSUME ~LateWills, AgentsInv, NEW a \in Agents, AgentStarts(a)
    PROVE  /\ AgentsInv' /\ (missed => missed')
           /\ NodesInv /\ ~missed' => NodesInTurn' /\ UpIsAdvertised'
<1>1. /\ status[a] = "down" /\ restarts[a] < MaxRestarts /\ ~LastWillDue(a)
      /\ restarts' = [restarts EXCEPT ![a] = @ + 1]
      /\ status' = [status EXCEPT ![a] = "up"]
      /\ UNCHANGED <<known, interrupted, discovered, toAgent, wills, events>>
      /\ UNCHANGED <<listening, managed, offline, outbox>>
  BY DEF AgentStarts, RouterRests, linkVars
<1>2. PICK node \in NodesOf(a, restarts'[a]) :
         ioNode' = [ioNode EXCEPT ![a] = node] /\ Send(a, "Advertise", node)
  BY DEF AgentStarts
<1>3. /\ AgentTypes /\ AgentsFit /\ WillsInTurn
  BY DEF AgentsInv
<1>4. node \in IoNodes /\ node.id[1] = a
  BY DEF NodesOf
<1>5. /\ status'[a] = "up" /\ ioNode'[a] = node
      /\ \A b \in Agents \ {a} : status'[b] = status[b] /\ ioNode'[b] = ioNode[b]
  BY <1>1, <1>2, <1>3 DEF AgentTypes
<1>6. \A n : ~(n.id[1] = a /\ Current(a, n))
  BY <1>1 DEF Current, LastWillDue
<1>7. Current(a, node)'
  BY <1>5 DEF Current
<1>8. \A b \in Agents \ {a} : StaysCurrent(b)
  BY <1>1, <1>5 DEF StaysCurrent, Current
<1>9. toRouter' \in [Agents -> Seq(Messages)] /\ missed' \in BOOLEAN /\ (missed => missed') /\ StoppedRouter'
  BY <1>1, <1>2, <1>4, SendTypes
<1>10. AgentTypes'
  <2>1. restarts[a] + 1 \in 0 .. MaxRestarts
    BY <1>1, <1>3, BoundsAssumption DEF AgentTypes
  <2>2. /\ restarts' \in [Agents -> 0 .. MaxRestarts]
        /\ status' \in [Agents -> {"down", "offline", "up"}]
        /\ ioNode' \in [Agents -> IoNodes \cup {NoNode}]
    BY <1>1, <1>2, <1>3, <1>4, <2>1 DEF AgentTypes
  <2> QED
    BY <1>1, <1>3, <1>9, <2>2 DEF AgentTypes
<1>11. AgentsFit'
  BY <1>1, <1>3, <1>4, <1>5 DEF AgentsFit
<1>12. WillsInTurn'
  BY <1>1, <1>3, <1>5 DEF WillsInTurn, LastWillDue
<1>13. ASSUME NodesInv, ~missed' PROVE NodesInTurn' /\ UpIsAdvertised'
  <2>1. NodesInTurn /\ UpIsAdvertised
    BY <1>13 DEF NodesInv
  <2>2. /\ NodesInTurn'
        /\ \A b \in Agents \ {a} : toRouter'[b] = toRouter[b]
        /\ listening => toRouter'[a] # <<>> /\ toRouter'[a][Len(toRouter'[a])].type = "Advertise"
    BY <1>1, <1>2, <1>4, <1>6, <1>7, <1>8, <1>13, <2>1, SendStep
  <2>3. UpIsAdvertised'
    BY <1>1, <1>5, <2>1, <2>2, UpAfterSending
  <2> QED
    BY <2>2, <2>3
<1> QED
  BY <1>9, <1>10, <1>11, <1>12, <1>13 DEF AgentsInv

\* What is left of an agent without a process.
LEMMA TerminatedFacts ==
    ASSUME AgentTypes, AgentsFit, NEW a \in Agents, status[a] # "down", Counted, Terminated(a)
    PROVE  /\ status'[a] = "down" /\ ioNode'[a] = NoNode /\ known'[a] = {} /\ toAgent'[a] = <<>>
           /\ \A b \in Agents \ {a} :
                 /\ status'[b] = status[b] /\ ioNode'[b] = ioNode[b] /\ known'[b] = known[b]
                 /\ toAgent'[b] = toAgent[b]
           /\ interrupted' = interrupted \ {a} /\ discovered' = discovered \ {a}
           /\ status' \in [Agents -> {"down", "offline", "up"}]
           /\ restarts' \in [Agents -> 0 .. MaxRestarts]
           /\ ioNode' \in [Agents -> IoNodes \cup {NoNode}]
           /\ known' \in [Agents -> SUBSET Events]
           /\ toAgent' \in [Agents -> Seq(SUBSET Events)]
           /\ discovered' \subseteq Agents /\ interrupted' \subseteq Agents
           /\ events' \in 0 .. MaxEvents
           /\ AgentsFit'
           /\ UNCHANGED <<listening, managed, offline, outbox>>
<1>1. /\ status' = [status EXCEPT ![a] = "down"]
      /\ ioNode' = [ioNode EXCEPT ![a] = NoNode]
      /\ known' = [known EXCEPT ![a] = {}]
      /\ toAgent' = [toAgent EXCEPT ![a] = <<>>]
      /\ interrupted' = interrupted \ {a} /\ discovered' = discovered \ {a}
      /\ restarts' = restarts
      /\ UNCHANGED <<listening, managed, offline, outbox>>
  BY DEF Terminated, RouterRests, linkVars
<1>2. /\ status'[a] = "down" /\ ioNode'[a] = NoNode /\ known'[a] = {} /\ toAgent'[a] = <<>>
      /\ \A b \in Agents \ {a} :
            /\ status'[b] = status[b] /\ ioNode'[b] = ioNode[b] /\ known'[b] = known[b]
            /\ toAgent'[b] = toAgent[b]
  BY <1>1 DEF AgentTypes
<1>3. events' \in 0 .. MaxEvents
  BY BoundsAssumption DEF Counted, AgentTypes
<1>4. toAgent' \in [Agents -> Seq(SUBSET Events)]
  <2>1. <<>> \in Seq(SUBSET Events)
    BY EmptySeq
  <2> QED
    BY <1>1, <2>1 DEF AgentTypes
<1>5. AgentsFit'
  BY <1>1, <1>2 DEF AgentsFit
<1>6. /\ status' \in [Agents -> {"down", "offline", "up"}]
      /\ restarts' \in [Agents -> 0 .. MaxRestarts]
      /\ ioNode' \in [Agents -> IoNodes \cup {NoNode}]
      /\ known' \in [Agents -> SUBSET Events]
      /\ discovered' \subseteq Agents /\ interrupted' \subseteq Agents
  BY <1>1 DEF AgentTypes
<1> QED
  BY <1>1, <1>2, <1>3, <1>4, <1>5, <1>6

\* An agent stops and deadvertises its IO node.
LEMMA AgentStopsStep ==
    ASSUME AgentsInv, NEW a \in Agents, AgentStops(a)
    PROVE  /\ AgentsInv' /\ (missed => missed')
           /\ NodesInv /\ ~missed' => NodesInTurn' /\ UpIsAdvertised'
<1>1. status[a] = "up" /\ Counted /\ Terminated(a) /\ Send(a, "Deadvertise", ioNode[a]) /\ wills' = wills
  BY DEF AgentStops
<1>2. AgentTypes /\ AgentsFit /\ WillsInTurn
  BY DEF AgentsInv
<1>3. /\ status'[a] = "down"
      /\ \A b \in Agents \ {a} : status'[b] = status[b] /\ ioNode'[b] = ioNode[b]
      /\ discovered' = discovered \ {a}
      /\ AgentsFit' /\ UNCHANGED <<listening, managed, offline, outbox>>
  BY <1>1, <1>2, TerminatedFacts
<1>4. ioNode[a] \in IoNodes /\ ioNode[a].id[1] = a
  BY <1>1, <1>2 DEF AgentsFit
<1>5. \A n : n.id[1] = a /\ Current(a, n) => n = ioNode[a]
  BY <1>1, <1>2 DEF Current, WillsInTurn
<1>6. \A b \in Agents \ {a} : StaysCurrent(b)
  BY <1>1, <1>3 DEF StaysCurrent, Current
<1>7. toRouter' \in [Agents -> Seq(Messages)] /\ missed' \in BOOLEAN /\ (missed => missed') /\ StoppedRouter'
  BY <1>1, <1>3, <1>4, SendTypes
<1>8. AgentTypes'
  <2>1. /\ status' \in [Agents -> {"down", "offline", "up"}]
        /\ restarts' \in [Agents -> 0 .. MaxRestarts]
        /\ ioNode' \in [Agents -> IoNodes \cup {NoNode}]
        /\ known' \in [Agents -> SUBSET Events]
        /\ toAgent' \in [Agents -> Seq(SUBSET Events)]
        /\ discovered' \subseteq Agents /\ interrupted' \subseteq Agents
        /\ events' \in 0 .. MaxEvents
    BY <1>1, <1>2, TerminatedFacts
  <2> QED
    BY <1>1, <1>2, <1>3, <1>7, <2>1 DEF AgentTypes
<1>9. WillsInTurn'
  BY <1>1, <1>2, <1>3 DEF WillsInTurn
<1>10. ASSUME NodesInv, ~missed' PROVE NodesInTurn' /\ UpIsAdvertised'
  <2>1. NodesInTurn /\ UpIsAdvertised
    BY <1>10 DEF NodesInv
  <2>2. NodesInTurn' /\ \A b \in Agents \ {a} : toRouter'[b] = toRouter[b]
    BY <1>1, <1>3, <1>4, <1>5, <1>6, <1>10, <2>1, SendStep
  <2>3. UpIsAdvertised'
    BY <1>3, <2>1, <2>2, UpAfterSending
  <2> QED
    BY <2>2, <2>3
<1> QED
  BY <1>3, <1>7, <1>8, <1>9, <1>10 DEF AgentsInv

\* An agent crashes and leaves a last will if it was connected.
LEMMA AgentCrashesStep ==
    ASSUME AgentsInv, NEW a \in Agents, AgentCrashes(a)
    PROVE  /\ AgentsInv' /\ (missed => missed')
           /\ NodesInv /\ ~missed' => NodesInTurn' /\ UpIsAdvertised'
<1>1. /\ status[a] # "down" /\ Counted /\ Terminated(a) /\ toRouter' = toRouter /\ missed' = missed
      /\ wills' = IF status[a] = "up" THEN wills \cup {ioNode[a]} ELSE wills
  BY DEF AgentCrashes
<1>2. AgentTypes /\ AgentsFit /\ WillsInTurn /\ StoppedRouter
  BY DEF AgentsInv
<1>3. /\ status'[a] = "down"
      /\ \A b \in Agents \ {a} : status'[b] = status[b] /\ ioNode'[b] = ioNode[b]
      /\ discovered' = discovered \ {a}
      /\ AgentsFit' /\ UNCHANGED <<listening, managed, offline, outbox>>
  BY <1>1, <1>2, TerminatedFacts
<1>4. ioNode[a] \in IoNodes /\ ioNode[a].id[1] = a
  BY <1>1, <1>2 DEF AgentsFit
<1>5. \A b \in Agents : StaysCurrent(b)
  BY <1>1, <1>3 DEF StaysCurrent, Current
<1>6. ManagedNodes' = ManagedNodes
  BY <1>3 DEF ManagedNodes
<1>7. NodesInTurn => NodesInTurn'
  BY <1>1, <1>5, <1>6, StayInTurn DEF NodesInTurn
<1>8. AgentTypes'
  <2>1. /\ status' \in [Agents -> {"down", "offline", "up"}]
        /\ restarts' \in [Agents -> 0 .. MaxRestarts]
        /\ ioNode' \in [Agents -> IoNodes \cup {NoNode}]
        /\ known' \in [Agents -> SUBSET Events]
        /\ toAgent' \in [Agents -> Seq(SUBSET Events)]
        /\ discovered' \subseteq Agents /\ interrupted' \subseteq Agents
        /\ events' \in 0 .. MaxEvents
    BY <1>1, <1>2, TerminatedFacts
  <2> QED
    BY <1>1, <1>2, <1>3, <1>4, <2>1 DEF AgentTypes
<1>9. WillsInTurn'
  BY <1>1, <1>2, <1>3, <1>4 DEF WillsInTurn
<1>10. UpIsAdvertised => UpIsAdvertised'
  BY <1>1, <1>3, UpStays
<1>11. StoppedRouter'
  BY <1>1, <1>2, <1>3 DEF StoppedRouter
<1> QED
  BY <1>1, <1>3, <1>7, <1>8, <1>9, <1>10, <1>11 DEF AgentsInv, NodesInv

\* The broker publishes a last will.
LEMMA LastWillStep ==
    ASSUME AgentsInv, NEW node \in wills, LastWillPublished(node)
    PROVE  /\ AgentsInv' /\ (missed => missed')
           /\ NodesInv /\ ~missed' => NodesInTurn' /\ UpIsAdvertised'
<1> DEFINE a == node.id[1]
<1>1. /\ wills' = wills \ {node} /\ Send(a, "Deadvertise", node)
      /\ UNCHANGED <<listening, managed, offline, outbox>>
      /\ UNCHANGED <<status, restarts, ioNode, known, interrupted, discovered, toAgent, events>>
  BY DEF LastWillPublished, RouterRests, agentVars, linkVars
<1>2. AgentTypes /\ AgentsFit /\ WillsInTurn
  BY DEF AgentsInv
<1>3. /\ a \in Agents /\ status[a] # "up" /\ node \in IoNodes
      /\ \A n \in wills : n.id[1] = a => n = node
  BY <1>2 DEF WillsInTurn, AgentTypes
<1>4. \A n : n.id[1] = a /\ Current(a, n) => n = node
  BY <1>3 DEF Current
<1>5. \A b \in Agents \ {a} : StaysCurrent(b)
  BY <1>1 DEF StaysCurrent, Current
<1>6. node.id[1] = a
  OBVIOUS
<1> HIDE DEF a
<1>7. toRouter' \in [Agents -> Seq(Messages)] /\ missed' \in BOOLEAN /\ (missed => missed') /\ StoppedRouter'
  BY <1>1, <1>3, SendTypes
<1>8. AgentTypes'
  BY <1>1, <1>2, <1>7 DEF AgentTypes
<1>9. AgentsFit' /\ WillsInTurn'
  BY <1>1, <1>2 DEF AgentsFit, WillsInTurn
<1>10. ASSUME NodesInv, ~missed' PROVE NodesInTurn' /\ UpIsAdvertised'
  <2>1. NodesInTurn /\ UpIsAdvertised
    BY <1>10 DEF NodesInv
  <2>2. NodesInTurn' /\ \A b \in Agents \ {a} : toRouter'[b] = toRouter[b]
    BY <1>1, <1>3, <1>4, <1>5, <1>6, <1>10, <2>1, SendStep
  <2>3. UpIsAdvertised'
    BY <1>1, <1>3, <2>1, <2>2, UpAfterSending
  <2> QED
    BY <2>2, <2>3
<1> QED
  BY <1>7, <1>8, <1>9, <1>10 DEF AgentsInv

\* An agent loses its connection.
LEMMA AgentDisconnectedStep ==
    ASSUME AgentsInv, NEW a \in Agents, AgentDisconnected(a)
    PROVE  /\ AgentsInv' /\ (missed => missed')
           /\ NodesInv /\ ~missed' => NodesInTurn' /\ UpIsAdvertised'
<1>1. /\ status[a] = "up" /\ Counted
      /\ status' = [status EXCEPT ![a] = "offline"]
      /\ interrupted' = interrupted \cup {a}
      /\ discovered' = discovered \ {a}
      /\ toAgent' = [toAgent EXCEPT ![a] = <<>>]
      /\ wills' = wills \cup {ioNode[a]}
      /\ UNCHANGED <<listening, managed, offline, outbox, missed>>
      /\ UNCHANGED <<restarts, ioNode, known, toRouter>>
  BY DEF AgentDisconnected, RouterRests, linkVars
<1>2. AgentTypes /\ AgentsFit /\ WillsInTurn /\ StoppedRouter
  BY DEF AgentsInv
<1>3. /\ status'[a] = "offline" /\ toAgent'[a] = <<>>
      /\ \A b \in Agents \ {a} : status'[b] = status[b] /\ toAgent'[b] = toAgent[b]
  BY <1>1, <1>2 DEF AgentTypes
<1>4. ioNode[a] \in IoNodes /\ ioNode[a].id[1] = a
  BY <1>1, <1>2 DEF AgentsFit
<1>5. \A b \in Agents : StaysCurrent(b)
  BY <1>1, <1>3 DEF StaysCurrent, Current
<1>6. ManagedNodes' = ManagedNodes
  BY <1>1 DEF ManagedNodes
<1>7. NodesInTurn => NodesInTurn'
  BY <1>1, <1>5, <1>6, StayInTurn DEF NodesInTurn
<1>8. AgentTypes'
  <2>1. events' \in 0 .. MaxEvents
    BY <1>1, <1>2, BoundsAssumption DEF Counted, AgentTypes
  <2>2. toAgent' \in [Agents -> Seq(SUBSET Events)]
    <3>1. <<>> \in Seq(SUBSET Events)
      BY EmptySeq
    <3> QED
      BY <1>1, <1>2, <3>1 DEF AgentTypes
  <2> QED
    BY <1>1, <1>2, <1>4, <2>1, <2>2 DEF AgentTypes
<1>9. AgentsFit'
  BY <1>1, <1>2, <1>3 DEF AgentsFit
<1>10. WillsInTurn'
  BY <1>1, <1>2, <1>3, <1>4 DEF WillsInTurn
<1>11. UpIsAdvertised => UpIsAdvertised'
  BY <1>1, <1>3, UpStays
<1>12. StoppedRouter'
  BY <1>1, <1>2 DEF StoppedRouter
<1> QED
  BY <1>1, <1>7, <1>8, <1>9, <1>10, <1>11, <1>12 DEF AgentsInv, NodesInv

\* An agent is connected again and advertises its IO node again.
LEMMA AgentReconnectsStep ==
    ASSUME AgentsInv, NEW a \in Agents, AgentReconnects(a)
    PROVE  /\ AgentsInv' /\ (missed => missed')
           /\ NodesInv /\ ~missed' => NodesInTurn' /\ UpIsAdvertised'
<1>1. /\ status[a] = "offline" /\ ~LastWillDue(a)
      /\ status' = [status EXCEPT ![a] = "up"]
      /\ Send(a, "Advertise", ioNode[a])
      /\ UNCHANGED <<listening, managed, offline, outbox>>
      /\ UNCHANGED <<restarts, ioNode, known, interrupted, discovered, toAgent, wills, events>>
  BY DEF AgentReconnects, RouterRests, linkVars
<1>2. AgentTypes /\ AgentsFit /\ WillsInTurn
  BY DEF AgentsInv
<1>3. status'[a] = "up" /\ \A b \in Agents \ {a} : status'[b] = status[b]
  BY <1>1, <1>2 DEF AgentTypes
<1>4. ioNode[a] \in IoNodes /\ ioNode[a].id[1] = a
  BY <1>1, <1>2 DEF AgentsFit
<1>5. \A n : ~(n.id[1] = a /\ Current(a, n))
  BY <1>1 DEF Current, LastWillDue
<1>6. Current(a, ioNode[a])'
  BY <1>1, <1>3 DEF Current
<1>7. \A b \in Agents \ {a} : StaysCurrent(b)
  BY <1>1, <1>3 DEF StaysCurrent, Current
<1>8. PICK node \in IoNodes : node = ioNode[a]
  BY <1>4
<1>9. Send(a, "Advertise", node) /\ node.id[1] = a /\ Current(a, node)'
  BY <1>1, <1>3, <1>4, <1>8 DEF Current
<1>10. toRouter' \in [Agents -> Seq(Messages)] /\ missed' \in BOOLEAN /\ (missed => missed') /\ StoppedRouter'
  BY <1>1, <1>9, SendTypes
<1>11. AgentTypes'
  BY <1>1, <1>2, <1>10 DEF AgentTypes
<1>12. AgentsFit'
  BY <1>1, <1>2, <1>3 DEF AgentsFit
<1>13. WillsInTurn'
  BY <1>1, <1>2, <1>3 DEF WillsInTurn, LastWillDue
<1>14. ASSUME NodesInv, ~missed' PROVE NodesInTurn' /\ UpIsAdvertised'
  <2>1. NodesInTurn /\ UpIsAdvertised
    BY <1>14 DEF NodesInv
  <2>2. /\ NodesInTurn'
        /\ \A b \in Agents \ {a} : toRouter'[b] = toRouter[b]
        /\ listening => toRouter'[a] # <<>> /\ toRouter'[a][Len(toRouter'[a])].type = "Advertise"
    BY <1>1, <1>5, <1>7, <1>9, <1>14, <2>1, SendStep
  <2>3. UpIsAdvertised'
    BY <1>1, <1>3, <2>1, <2>2, UpAfterSending
  <2> QED
    BY <2>2, <2>3
<1> QED
  BY <1>10, <1>11, <1>12, <1>13, <1>14 DEF AgentsInv

\* An agent is discovered and has its IO node resolved.
LEMMA AgentDiscoveredStep ==
    ASSUME AgentsInv, NEW a \in Agents, AgentDiscovered(a)
    PROVE  /\ AgentsInv' /\ (missed => missed')
           /\ NodesInv /\ ~missed' => NodesInTurn' /\ UpIsAdvertised'
<1>1. /\ a \in discovered /\ discovered' = discovered \ {a}
      /\ Send(a, "Advertise", ioNode[a])
      /\ UNCHANGED <<listening, managed, offline, outbox>>
      /\ UNCHANGED <<status, restarts, ioNode, known, interrupted, toAgent, wills, events>>
  BY DEF AgentDiscovered, RouterRests, agentVars, linkVars
<1>2. AgentTypes /\ AgentsFit /\ WillsInTurn
  BY DEF AgentsInv
<1>3. status[a] = "up" /\ ioNode[a] \in IoNodes /\ ioNode[a].id[1] = a
  BY <1>1, <1>2 DEF AgentsFit, AgentTypes
<1>4. \A n : n.id[1] = a /\ Current(a, n) => n = ioNode[a]
  BY <1>2, <1>3 DEF Current, WillsInTurn
<1>5. \A b \in Agents \ {a} : StaysCurrent(b)
  BY <1>1 DEF StaysCurrent, Current
<1>6. PICK node \in IoNodes : node = ioNode[a]
  BY <1>3
<1>7. /\ Send(a, "Advertise", node) /\ node.id[1] = a /\ Current(a, node)'
      /\ \A n : n.id[1] = a /\ Current(a, n) => n = node
  BY <1>1, <1>3, <1>4, <1>6 DEF Current
<1>8. toRouter' \in [Agents -> Seq(Messages)] /\ missed' \in BOOLEAN /\ (missed => missed') /\ StoppedRouter'
  BY <1>1, <1>7, SendTypes
<1>9. AgentTypes'
  BY <1>1, <1>2, <1>8 DEF AgentTypes
<1>10. AgentsFit' /\ WillsInTurn'
  BY <1>1, <1>2 DEF AgentsFit, WillsInTurn
<1>11. ASSUME NodesInv, ~missed' PROVE NodesInTurn' /\ UpIsAdvertised'
  <2>1. NodesInTurn /\ UpIsAdvertised
    BY <1>11 DEF NodesInv
  <2>2. /\ NodesInTurn'
        /\ \A b \in Agents \ {a} : toRouter'[b] = toRouter[b]
        /\ listening => toRouter'[a] # <<>> /\ toRouter'[a][Len(toRouter'[a])].type = "Advertise"
    BY <1>1, <1>5, <1>7, <1>11, <2>1, SendStep
  <2>3. UpIsAdvertised'
    BY <1>1, <2>1, <2>2, UpAfterSending
  <2> QED
    BY <2>2, <2>3
<1> QED
  BY <1>8, <1>9, <1>10, <1>11 DEF AgentsInv

\* An agent handles Associate events.
LEMMA AgentAssociatesStep ==
    ASSUME AgentsInv, NEW a \in Agents, AgentAssociates(a)
    PROVE  /\ AgentsInv' /\ (missed => missed')
           /\ NodesInv /\ ~missed' => NodesInTurn' /\ UpIsAdvertised'
<1>1. /\ toAgent[a] # <<>>
      /\ known' = [known EXCEPT ![a] = Associated(a, Concerning(a, Head(toAgent[a])))]
      /\ toAgent' = [toAgent EXCEPT ![a] = Tail(@)]
      /\ UNCHANGED <<listening, managed, offline, outbox, missed>>
      /\ UNCHANGED <<status, restarts, ioNode, interrupted, toRouter, discovered, wills, events>>
  BY DEF AgentAssociates, RouterRests, linkVars
<1>2. AgentTypes /\ AgentsFit /\ WillsInTurn /\ StoppedRouter
  BY DEF AgentsInv
<1>3. toAgent[a] \in Seq(SUBSET Events) /\ known[a] \subseteq Events /\ status[a] = "up"
  BY <1>1, <1>2 DEF AgentTypes, AgentsFit
<1>4. Tail(toAgent[a]) \in Seq(SUBSET Events) /\ Head(toAgent[a]) \in SUBSET Events
  BY <1>1, <1>3, TailFacts
<1>5. Associated(a, Concerning(a, Head(toAgent[a]))) \subseteq Events
  BY <1>3, <1>4 DEF Associated, Concerning
<1>6. AgentTypes'
  BY <1>1, <1>2, <1>4, <1>5 DEF AgentTypes
<1>7. AgentsFit' /\ WillsInTurn'
  <2>1. \A b \in Agents : status[b] # "up" => toAgent'[b] = toAgent[b] /\ known'[b] = known[b]
    BY <1>1, <1>2, <1>3 DEF AgentTypes
  <2>2. AgentsFit'
    BY <1>1, <1>2, <2>1 DEF AgentsFit
  <2>3. WillsInTurn'
    BY <1>1, <1>2 DEF WillsInTurn
  <2> QED
    BY <2>2, <2>3
<1>8. ManagedNodes' = ManagedNodes
  BY <1>1 DEF ManagedNodes
<1>9. NodesInTurn => NodesInTurn'
  <2>1. \A b \in Agents : StaysCurrent(b)
    BY <1>1 DEF StaysCurrent, Current
  <2> QED
    BY <1>1, <1>8, <2>1, StayInTurn DEF NodesInTurn
<1>10. StoppedRouter' /\ (UpIsAdvertised => UpIsAdvertised')
  BY <1>1, <1>2, <1>8 DEF UpIsAdvertised, StoppedRouter
<1> QED
  BY <1>1, <1>6, <1>7, <1>9, <1>10 DEF AgentsInv, NodesInv

------------------------------------------------------------------------------
(* The router and the agents                                                 *)

\* An agent that gets up to date has none of its nodes managed.
GetsUpToDate == \A b \in Agents : UpToDate(b)' => UpToDate(b) \/ \A n \in ManagedNodes' : n.id[1] # b

\* What the router publishes is queued.
LEMMA EnqueueFacts ==
    ASSUME AgentsInv, published' \subseteq Events, Enqueue
    PROVE  outbox' \in Seq(SUBSET Events)
<1>1. outbox \in Seq(SUBSET Events)
  BY DEF AgentsInv, AgentTypes
<1>2. Append(outbox, published') \in Seq(SUBSET Events)
  BY <1>1, AppendFacts
<1> QED
  BY <1>1, <1>2 DEF Enqueue

\* Agents fit as long as only the router does something.
LEMMA AgentsStayFit ==
    ASSUME AgentsInv,
           UNCHANGED <<status, restarts, ioNode, known, interrupted, wills>>,
           \A a \in discovered' : a \in Agents /\ status[a] = "up",
           \A a \in Agents : status[a] # "up" => toAgent'[a] = toAgent[a]
    PROVE  AgentsFit' /\ WillsInTurn'
<1>1. AgentsFit /\ WillsInTurn
  BY DEF AgentsInv
<1>2. AgentsFit'
  BY <1>1 DEF AgentsFit
<1>3. WillsInTurn'
  BY <1>1 DEF WillsInTurn
<1> QED
  BY <1>2, <1>3

\* The router receives an event of an agent.
LEMMA RouterReceivesStep ==
    ASSUME RouterTypes, AgentsInv, NEW a \in Agents, RouterReceives(a)
    PROVE  /\ RouterTypes' /\ AgentsInv' /\ PublishesChanges
           /\ RouterInv /\ NodesInv => RouterInv' /\ NodesInv' /\ PublishesRoutes /\ GetsUpToDate
<1>1. /\ toRouter[a] # <<>>
      /\ toRouter' = [toRouter EXCEPT ![a] = Tail(toRouter[a])]
      /\ Enqueue
      /\ UNCHANGED <<status, restarts, ioNode, known, interrupted, offline, missed, discovered,
                     toAgent, wills, events>>
  BY DEF RouterReceives, agentVars
<1>2. AgentTypes /\ AgentsFit /\ WillsInTurn /\ StoppedRouter
  BY DEF AgentsInv
<1>3. PICK q : q = toRouter[a]
  OBVIOUS
<1>4. q \in Seq(Messages) /\ q # <<>>
  BY <1>1, <1>2, <1>3 DEF AgentTypes
<1>5. /\ Tail(q) \in Seq(Messages)
      /\ Head(q) = q[1] /\ q[1] \in Messages
      /\ Len(q) \in Nat /\ Len(q) >= 1
      /\ DOMAIN q = 1 .. Len(q)
      /\ Len(Tail(q)) = Len(q) - 1
      /\ DOMAIN Tail(q) = 1 .. (Len(q) - 1)
      /\ \A p \in 1 .. (Len(q) - 1) : Tail(q)[p] = q[p + 1]
      /\ Tail(q) = <<>> <=> Len(q) = 1
  BY <1>4, TailFacts
<1>6. PICK r : r = Tail(q)
  OBVIOUS
<1>7. toRouter'[a] = r /\ \A b \in Agents \ {a} : toRouter'[b] = toRouter[b]
  BY <1>1, <1>2, <1>3, <1>6 DEF AgentTypes
<1>8. PICK node \in IoNodes : node = q[1].node
  BY <1>5 DEF Messages
<1>9. /\ q[1].type \in {"Advertise", "Deadvertise"}
      /\ \/ q[1].type = "Advertise" /\ IoNodeAdvertised(node)
         \/ q[1].type = "Deadvertise" /\ IoNodeDeadvertised(node.id)
  BY <1>3, <1>5, <1>8 DEF RouterReceives, Messages
<1>10. RouterTypes' /\ PublishesChanges
  BY <1>9, AdvertisedStep, DeadvertisedStep
<1>11. listening' = listening /\ listening /\ ~offline
  BY <1>1, <1>2 DEF StoppedRouter, RouterReceives, IoNodeAdvertised, IoNodeDeadvertised
<1>12. StoppedRouter'
  BY <1>1, <1>11 DEF StoppedRouter
<1>13. AgentsFit' /\ WillsInTurn'
  <2>1. \A b \in discovered' : b \in Agents /\ status[b] = "up"
    BY <1>1, <1>2 DEF AgentTypes, AgentsFit
  <2> QED
    BY <1>1, <2>1, AgentsStayFit
<1>14. AgentTypes'
  <2>1. outbox' \in Seq(SUBSET Events)
    BY <1>1, <1>10, EnqueueFacts DEF PublishesChanges
  <2>2. toRouter' \in [Agents -> Seq(Messages)]
    BY <1>1, <1>2, <1>3, <1>5 DEF AgentTypes
  <2> QED
    BY <1>1, <1>2, <2>1, <2>2 DEF AgentTypes
<1>15. ASSUME RouterInv, NodesInv PROVE RouterInv' /\ NodesInv' /\ PublishesRoutes /\ GetsUpToDate
  <2>1. NodesInTurn /\ UpIsAdvertised /\ ManagedOfAgents
    BY <1>15 DEF NodesInv
  <2>2. /\ \A p \in DOMAIN q : q[p].node.id[1] = a
        /\ \A n \in ManagedNodes : n.id[1] = a => n = q[1].node
        /\ \A p \in DOMAIN q : q[p].type = "Advertise" =>
              IF p = Len(q) THEN Current(a, q[p].node) ELSE q[p + 1].node = q[p].node
    BY <1>3, <1>4, <2>1 DEF NodesInTurn, InTurn
  <2>3. 1 \in DOMAIN q /\ node.id[1] = a
    BY <1>5, <1>8, <2>2
  <2>4. /\ RouterInv' /\ PublishesRoutes
        /\ \A n : n \in ManagedNodes' <=>
              \/ n \in ManagedNodes /\ n.id # node.id
              \/ n = node /\ HasIoPoints(node) /\ q[1].type = "Advertise"
    <3>1. CASE q[1].type = "Advertise" /\ IoNodeAdvertised(node)
      <4>1. \A n \in ManagedNodes : n.id[1] = node.id[1] => n = node
        BY <1>8, <2>2, <2>3
      <4>2. RouterInv' /\ PublishesRoutes
        BY <1>15, <3>1, <4>1, AdvertisedStep
      <4>3. \A n : n \in ManagedNodes' <=> \/ n \in ManagedNodes /\ n.id # node.id
                                           \/ n = node /\ HasIoPoints(node)
        BY <1>15, <3>1, <4>1, AdvertisedStep
      <4> QED
        BY <3>1, <4>2, <4>3
    <3>2. CASE q[1].type = "Deadvertise" /\ IoNodeDeadvertised(node.id)
      <4>1. RouterInv' /\ PublishesRoutes
        BY <1>15, <3>2, DeadvertisedStep
      <4>2. \A n : n \in ManagedNodes' <=> n \in ManagedNodes /\ n.id # node.id
        BY <3>2, DeadvertisedStep
      <4> QED
        BY <3>2, <4>1, <4>2
    <3> QED
      BY <1>9, <3>1, <3>2
  <2>5. \A n \in ManagedNodes' : n.id[1] = a => n = node /\ q[1].type = "Advertise"
    BY <2>2, <1>8, <2>4
  <2>6. \A n : n.id[1] # a => (n \in ManagedNodes' <=> n \in ManagedNodes)
    BY <2>3, <2>4
  <2>7. NodesInTurn'
    <3>1. \A b \in Agents : StaysCurrent(b)
      BY <1>1 DEF StaysCurrent, Current
    <3>2. \A b \in Agents \ {a} : InTurn(b, toRouter[b], ManagedNodes)'
      BY <1>7, <2>1, <2>6, <3>1, StayInTurn DEF NodesInTurn
    <3>3. \A p \in DOMAIN r : p \in 1 .. (Len(q) - 1) /\ p \in DOMAIN q /\ p + 1 \in DOMAIN q /\ r[p] = q[p + 1]
      BY <1>5, <1>6
    <3>4. \A p \in DOMAIN r : r[p].node.id[1] = a
      BY <2>2, <3>3
    <3>5. ASSUME r # <<>>, NEW n \in ManagedNodes', n.id[1] = a PROVE n = r[1].node
      <4>1. n = q[1].node /\ q[1].type = "Advertise"
        BY <1>8, <2>5, <3>5
      <4>2. Len(q) # 1 /\ 1 \in 1 .. (Len(q) - 1)
        BY <1>5, <1>6, <3>5
      <4>3. r[1] = q[1 + 1]
        BY <1>5, <1>6, <4>2
      <4> QED
        BY <2>2, <2>3, <4>1, <4>2, <4>3
    <3>6. ASSUME NEW p \in DOMAIN r, r[p].type = "Advertise"
          PROVE  IF p = Len(r) THEN Current(a, r[p].node)' ELSE r[p + 1].node = r[p].node
      <4>1. r[p] = q[p + 1] /\ p + 1 \in DOMAIN q /\ p \in 1 .. (Len(q) - 1)
        BY <3>3
      <4>2. CASE p = Len(r)
        <5>1. p + 1 = Len(q)
          BY <1>5, <1>6, <4>2
        <5>2. Current(a, r[p].node)
          BY <2>2, <3>6, <4>1, <5>1
        <5>3. \A n : Current(a, n) => Current(a, n)'
          BY <1>1 DEF Current
        <5> QED
          BY <4>2, <5>2, <5>3
      <4>3. CASE p # Len(r)
        <5>1. p + 1 # Len(q) /\ p + 1 \in 1 .. (Len(q) - 1)
          BY <1>5, <1>6, <4>1, <4>3
        <5>2. r[p + 1] = q[(p + 1) + 1]
          BY <1>5, <1>6, <5>1
        <5>3. q[(p + 1) + 1].node = q[p + 1].node
          BY <2>2, <3>6, <4>1, <5>1
        <5> QED
          BY <4>1, <4>3, <5>2, <5>3
      <4> QED
        BY <4>2, <4>3
    <3>7. ASSUME r = <<>>, NEW n \in ManagedNodes', n.id[1] = a PROVE Current(a, n)'
      <4>1. n = q[1].node /\ q[1].type = "Advertise" /\ Len(q) = 1
        BY <1>5, <1>6, <1>8, <2>5, <3>7
      <4>2. Current(a, n)
        BY <2>2, <2>3, <4>1
      <4> QED
        BY <1>1, <4>2 DEF Current
    <3>8. InTurn(a, toRouter[a], ManagedNodes)'
      BY <1>7, <3>4, <3>5, <3>6, <3>7 DEF InTurn
    <3> QED
      BY <3>2, <3>8 DEF NodesInTurn
  <2>8. UpIsAdvertised'
    <3> SUFFICES ASSUME NEW b \in Agents, b \notin discovered, status[b] = "up"
                 PROVE  IF toRouter'[b] = <<>> THEN HasIoPoints(ioNode[b]) => ioNode[b] \in ManagedNodes'
                        ELSE toRouter'[b][Len(toRouter'[b])].type = "Advertise"
      BY <1>1, <1>11 DEF UpIsAdvertised
    <3>1. IF toRouter[b] = <<>> THEN HasIoPoints(ioNode[b]) => ioNode[b] \in ManagedNodes
          ELSE toRouter[b][Len(toRouter[b])].type = "Advertise"
      BY <1>11, <2>1 DEF UpIsAdvertised
    <3>2. ioNode[b].id[1] = b
      BY <1>2 DEF AgentsFit
    <3>3. CASE b # a
      BY <1>7, <2>6, <3>1, <3>2, <3>3
    <3>4. CASE b = a /\ r = <<>>
      <4>1. q[1].type = "Advertise" /\ Len(q) = 1
        BY <1>3, <1>4, <1>5, <1>6, <3>1, <3>4
      <4>2. Current(a, node)
        BY <2>2, <1>8, <2>3, <4>1
      <4>3. ioNode[a] = node
        BY <1>2, <2>3, <3>4, <4>2 DEF Current, WillsInTurn
      <4> QED
        BY <1>7, <2>4, <3>4, <4>1, <4>3
    <3>5. CASE b = a /\ r # <<>>
      <4>1. q[Len(q)].type = "Advertise"
        BY <1>3, <1>4, <3>1, <3>5
      <4>2. Len(r) = Len(q) - 1 /\ Len(r) \in 1 .. (Len(q) - 1) /\ Len(r) + 1 = Len(q)
        BY <1>5, <1>6, <3>5
      <4>3. r[Len(r)] = q[Len(q)]
        BY <1>5, <1>6, <4>2
      <4> QED
        BY <1>7, <3>5, <4>1, <4>3
    <3> QED
      BY <3>3, <3>4, <3>5
  <2>9. GetsUpToDate
    <3> SUFFICES ASSUME NEW b \in Agents, UpToDate(b)', ~UpToDate(b)
                 PROVE  \A n \in ManagedNodes' : n.id[1] # b
      BY DEF GetsUpToDate
    <3>1. status[b] = "up" /\ \A p \in DOMAIN toRouter'[b] : toRouter'[b][p].type = "Advertise"
      BY <1>1 DEF UpToDate
    <3>2. b = a
      BY <1>7, <3>1 DEF UpToDate
    <3>3. PICK p \in DOMAIN q : q[p].type # "Advertise"
      BY <1>3, <3>1, <3>2 DEF UpToDate
    <3>4. p = 1
      <4>1. ASSUME p # 1 PROVE FALSE
        <5>1. p - 1 \in 1 .. (Len(q) - 1) /\ (p - 1) + 1 = p
          BY <1>5, <4>1
        <5>2. r[p - 1] = q[p] /\ p - 1 \in DOMAIN r
          BY <1>5, <1>6, <5>1
        <5> QED
          BY <1>7, <3>1, <3>2, <3>3, <5>2
      <4> QED
        BY <4>1
    <3> QED
      BY <2>5, <3>2, <3>3, <3>4
  <2>10. ManagedOfAgents'
    BY <2>1, <2>3, <2>4 DEF ManagedOfAgents
  <2> QED
    BY <2>4, <2>7, <2>8, <2>9, <2>10 DEF NodesInv
<1> QED
  BY <1>10, <1>12, <1>13, <1>14, <1>15 DEF AgentsInv

\* The router evaluates its rules anew, be it that it is started or that its
\* context or rules change.
LEMMA RouterReevaluatesStep ==
    ASSUME RouterTypes, AgentsInv, UNCHANGED <<managed, offline, missed, toRouter, toAgent, wills>>,
           UNCHANGED agentVars,
           PublishesChanges, ManagedNodes' = ManagedNodes, Enqueue,
           listening' = TRUE, offline => listening,
           events' \in 0 .. MaxEvents, discovered' \subseteq Agents,
           \A a \in discovered' : status[a] = "up",
           \A a \in Agents \ discovered' : status[a] = "up" => listening /\ a \notin discovered
    PROVE  /\ AgentsInv'
           /\ NodesInv => NodesInv' /\ GetsUpToDate
<1>1. AgentTypes /\ AgentsFit /\ WillsInTurn /\ StoppedRouter
  BY DEF AgentsInv
<1>2. UNCHANGED <<status, restarts, ioNode, known, interrupted>>
  BY DEF agentVars
<1>3. published' \subseteq Events
  BY DEF PublishesChanges
<1>4. AgentsFit' /\ WillsInTurn'
  <2>1. \A a \in discovered' : a \in Agents /\ status[a] = "up"
    OBVIOUS
  <2> QED
    BY <1>2, <2>1, AgentsStayFit
<1>5. AgentTypes'
  <2>1. outbox' \in Seq(SUBSET Events)
    BY <1>3, EnqueueFacts
  <2> QED
    BY <1>1, <1>2, <2>1 DEF AgentTypes
<1>6. StoppedRouter'
  BY <1>1 DEF StoppedRouter
<1>7. ASSUME NodesInv PROVE NodesInv' /\ GetsUpToDate
  <2>1. NodesInTurn /\ UpIsAdvertised /\ ManagedOfAgents
    BY <1>7 DEF NodesInv
  <2>2. \A b \in Agents : StaysCurrent(b)
    BY <1>2 DEF StaysCurrent, Current
  <2>3. NodesInTurn'
    BY <2>1, <2>2, StayInTurn DEF NodesInTurn
  <2>4. UpIsAdvertised'
    BY <1>2, <2>1 DEF UpIsAdvertised
  <2>5. GetsUpToDate
    BY <1>2 DEF GetsUpToDate, UpToDate
  <2>6. ManagedOfAgents'
    BY <2>1 DEF ManagedOfAgents
  <2> QED
    BY <2>3, <2>4, <2>5, <2>6 DEF NodesInv
<1> QED
  BY <1>4, <1>5, <1>6, <1>7 DEF AgentsInv

\* The router starts and discovers the agents that are connected.
LEMMA RouterStartsStep ==
    ASSUME RouterTypes, AgentsInv, RouterStarts
    PROVE  /\ RouterTypes' /\ AgentsInv' /\ PublishesChanges
           /\ RouterInv /\ NodesInv => RouterInv' /\ NodesInv' /\ PublishesRoutes /\ GetsUpToDate
<1>1. /\ listening' = TRUE /\ rules' \in RuleSets /\ EvaluateRules(managed, sourceRoutes, rules', ioContext)
      /\ UNCHANGED <<ioContext, managed>> /\ Enqueue /\ ~offline
      /\ discovered' = {a \in Agents : status[a] = "up"}
      /\ UNCHANGED agentVars /\ UNCHANGED <<offline, missed, toRouter, toAgent, wills, events>>
  BY DEF RouterStarts, RouterStarted
<1>2. ioContext' \in Contexts /\ listening' \in BOOLEAN
  BY <1>1 DEF RouterTypes
<1>3. /\ RouterTypes' /\ PublishesChanges /\ ManagedNodes' = ManagedNodes
      /\ RouterInv => RouterInv' /\ PublishesRoutes
  BY <1>1, <1>2, ReevaluatedStep
<1>4. /\ events' \in 0 .. MaxEvents /\ discovered' \subseteq Agents
      /\ \A a \in discovered' : status[a] = "up"
      /\ \A a \in Agents \ discovered' : status[a] = "up" => listening /\ a \notin discovered
  BY <1>1 DEF AgentsInv, AgentTypes
<1>5. AgentsInv' /\ (NodesInv => NodesInv' /\ GetsUpToDate)
  BY <1>1, <1>3, <1>4, RouterReevaluatesStep
<1> QED
  BY <1>3, <1>5

\* The context or the rules change.
LEMMA RouterChangesStep ==
    ASSUME RouterTypes, AgentsInv, RouterChanges
    PROVE  /\ RouterTypes' /\ AgentsInv' /\ PublishesChanges
           /\ RouterInv /\ NodesInv => RouterInv' /\ NodesInv' /\ PublishesRoutes /\ GetsUpToDate
<1>1. /\ Counted /\ Enqueue
      /\ UNCHANGED agentVars /\ UNCHANGED <<offline, missed, toRouter, discovered, toAgent, wills>>
      /\ \/ \E c \in Contexts : IoContextChanged(c)
         \/ \E rs \in RuleSets : listening /\ DefineRules(rs)
  BY DEF RouterChanges
<1>2. ioContext \in Contexts /\ rules \in RuleSets
  BY DEF RouterTypes
<1> DEFINE Reevaluated ==
              /\ listening = TRUE /\ listening' = TRUE /\ managed' = managed
              /\ ioContext' \in Contexts /\ rules' \in RuleSets
              /\ \E rs, context : EvaluateRules(managed, sourceRoutes, rs, context)
<1>3. Reevaluated
  <2>1. ASSUME NEW c \in Contexts, IoContextChanged(c)
        PROVE  Reevaluated
    <3>1. /\ listening /\ listening' = listening /\ managed' = managed /\ ioContext' = c /\ rules' = rules
          /\ EvaluateRules(managed, sourceRoutes, rules, c)
      BY <2>1 DEF IoContextChanged
    <3>2. listening \in BOOLEAN
      BY DEF RouterTypes
    <3> QED
      BY <1>2, <3>1, <3>2
  <2>2. ASSUME NEW rs \in RuleSets, listening, DefineRules(rs)
        PROVE  Reevaluated
    <3>1. /\ listening' = listening /\ managed' = managed /\ ioContext' = ioContext /\ rules' = rs
          /\ EvaluateRules(managed, sourceRoutes, rs, ioContext)
      BY <2>2 DEF DefineRules
    <3>2. listening \in BOOLEAN
      BY DEF RouterTypes
    <3> QED
      BY <1>2, <2>2, <3>1, <3>2
  <2> QED
    BY <1>1, <2>1, <2>2
<1>4. PICK rs, context : EvaluateRules(managed, sourceRoutes, rs, context)
  BY <1>3
<1>5. listening' \in BOOLEAN
  BY <1>3
<1>6. /\ RouterTypes' /\ PublishesChanges /\ ManagedNodes' = ManagedNodes
      /\ RouterInv => RouterInv' /\ PublishesRoutes
  BY <1>3, <1>4, <1>5, ReevaluatedStep
<1>7. events' \in 0 .. MaxEvents
  BY <1>1, BoundsAssumption DEF AgentsInv, AgentTypes, Counted
<1>8. /\ discovered' \subseteq Agents /\ \A a \in discovered' : status[a] = "up"
      /\ \A a \in Agents \ discovered' : status[a] = "up" => listening /\ a \notin discovered
  BY <1>1, <1>3 DEF AgentsInv, AgentTypes, AgentsFit
<1>9. AgentsInv' /\ (NodesInv => NodesInv' /\ GetsUpToDate)
  BY <1>1, <1>3, <1>6, <1>7, <1>8, RouterReevaluatesStep
<1> QED
  BY <1>6, <1>9

\* Nothing is managed and nothing is underway when the router is gone.
LEMMA RouterGone ==
    ASSUME AgentsInv, SessionLost, ManagedNodes' = {}, managed' = <<>>, listening' = FALSE,
           UNCHANGED <<status, ioNode, wills>>
    PROVE  NodesInv' /\ StoppedRouter' /\ GetsUpToDate
<1>1. discovered' = {} /\ missed' = FALSE /\ \A a \in Agents : toRouter'[a] = <<>>
  BY DEF SessionLost, NothingUnderway
<1>2. NodesInTurn'
  BY <1>1 DEF NodesInTurn, InTurn
<1> QED
  BY <1>1, <1>2 DEF NodesInv, UpIsAdvertised, StoppedRouter, GetsUpToDate, ManagedOfAgents

\* The router stops.
LEMMA RouterStopsStep ==
    ASSUME RouterTypes, AgentsInv, RouterStops
    PROVE  /\ RouterTypes' /\ AgentsInv' /\ PublishesChanges /\ associations' = {}
           /\ RouterInv' /\ NodesInv' /\ PublishesRoutes /\ GetsUpToDate
<1>1. /\ Counted /\ RouterStopped /\ Enqueue /\ SessionLost
      /\ UNCHANGED <<status, restarts, ioNode, known, interrupted, offline, toAgent, wills>>
  BY DEF RouterStops, agentVars
<1>2. managed' = <<>> /\ listening' = FALSE
  BY <1>1 DEF RouterStopped
<1>3. /\ RouterTypes' /\ RouterInv' /\ PublishesChanges /\ PublishesRoutes
      /\ ManagedNodes' = {} /\ associations' = {}
  BY <1>1, StoppedStep
<1>4. NodesInv' /\ StoppedRouter' /\ GetsUpToDate
  BY <1>1, <1>2, <1>3, RouterGone
<1>5. published' \subseteq Events
  BY <1>3 DEF PublishesChanges
<1>6. discovered' = {} /\ missed' = FALSE /\ toRouter' = [a \in Agents |-> <<>>]
  BY <1>1 DEF SessionLost, NothingUnderway
<1>7. AgentsFit' /\ WillsInTurn'
  BY <1>1, <1>6, AgentsStayFit
<1>8. AgentTypes'
  <2>1. outbox' \in Seq(SUBSET Events)
    BY <1>1, <1>5, EnqueueFacts
  <2>2. toRouter' \in [Agents -> Seq(Messages)]
    <3>1. <<>> \in Seq(Messages)
      BY EmptySeq
    <3> QED
      BY <1>6, <3>1
  <2>3. events' \in 0 .. MaxEvents
    BY <1>1, BoundsAssumption DEF AgentsInv, AgentTypes, Counted
  <2> QED
    BY <1>1, <1>6, <2>1, <2>2, <2>3 DEF AgentsInv, AgentTypes
<1> QED
  BY <1>3, <1>4, <1>7, <1>8 DEF AgentsInv

\* The router crashes.
LEMMA RouterCrashesStep ==
    ASSUME RouterTypes, AgentsInv, RouterCrashes
    PROVE  RouterInv' /\ AgentsInv' /\ NodesInv'
<1>1. /\ Counted /\ SessionLost /\ managed' = <<>> /\ listening' = FALSE
      /\ associations' = {} /\ sourceRoutes' = [s \in SourceIds |-> NoRoute]
      /\ offline' = FALSE /\ outbox' = <<>>
      /\ interrupted' = {a \in Agents : status[a] # "down"}
      /\ UNCHANGED <<ioContext, rules, status, restarts, ioNode, known, toAgent, wills>>
  BY DEF RouterCrashes
<1>2. RouterInv' /\ ManagedNodes' = {}
  BY <1>1, NothingManaged
<1>3. NodesInv' /\ StoppedRouter'
  BY <1>1, <1>2, RouterGone
<1>4. discovered' = {} /\ missed' = FALSE /\ toRouter' = [a \in Agents |-> <<>>]
  BY <1>1 DEF SessionLost, NothingUnderway
<1>5. AgentsFit' /\ WillsInTurn'
  BY <1>1, <1>4 DEF AgentsInv, AgentsFit, WillsInTurn
<1>6. AgentTypes'
  <2>1. toRouter' \in [Agents -> Seq(Messages)]
    <3>1. <<>> \in Seq(Messages)
      BY EmptySeq
    <3> QED
      BY <1>4, <3>1
  <2>2. events' \in 0 .. MaxEvents
    BY <1>1, BoundsAssumption DEF AgentsInv, AgentTypes, Counted
  <2>3. outbox' \in Seq(SUBSET Events)
    BY <1>1, EmptySeq
  <2> QED
    BY <1>1, <1>4, <2>1, <2>2, <2>3 DEF AgentsInv, AgentTypes
<1> QED
  BY <1>2, <1>3, <1>5, <1>6 DEF AgentsInv

\* What is delivered is underway to the agents that are connected.
LEMMA DeliverFacts ==
    ASSUME AgentsInv, outbox # <<>>, Deliver(Head(outbox))
    PROVE  /\ toAgent' \in [Agents -> Seq(SUBSET Events)]
           /\ \A a \in Agents :
                 toAgent'[a] = IF status[a] = "up" THEN Append(toAgent[a], Head(outbox)) ELSE toAgent[a]
<1>1. toAgent \in [Agents -> Seq(SUBSET Events)] /\ outbox \in Seq(SUBSET Events)
  BY DEF AgentsInv, AgentTypes
<1>2. PICK es : es = Head(outbox)
  OBVIOUS
<1>3. es \in SUBSET Events
  BY <1>1, <1>2, TailFacts
<1>4. toAgent' = [a \in Agents |-> IF status[a] = "up" THEN Append(toAgent[a], es) ELSE toAgent[a]]
  BY <1>2 DEF Deliver
<1>5. \A a \in Agents : Append(toAgent[a], es) \in Seq(SUBSET Events)
  BY <1>1, <1>3, AppendFacts
<1> QED
  BY <1>1, <1>2, <1>4, <1>5

\* The binding of the router's agent publishes, loses its connection, or reconnects.
LEMMA RouterLinkStep ==
    ASSUME RouterTypes, AgentsInv, RouterPublishes \/ RouterDisconnected \/ RouterReconnects
    PROVE  /\ RouterTypes' /\ AgentsInv' /\ (missed => missed')
           /\ RouterInv => RouterInv'
           /\ NodesInv /\ ~missed' => NodesInv' /\ UNCHANGED toRouter
<1>1. /\ RouterRests
      /\ UNCHANGED <<status, restarts, ioNode, known, interrupted, discovered, wills>>
  BY DEF RouterPublishes, RouterDisconnected, RouterReconnects, agentVars
<1>2. AgentTypes /\ AgentsFit /\ WillsInTurn /\ StoppedRouter
  BY DEF AgentsInv
<1>3. RouterTypes' /\ (RouterInv => RouterInv') /\ listening' = listening /\ managed' = managed
  BY <1>1, NothingPublished DEF RouterRests
<1>4. /\ \/ UNCHANGED toRouter
         \/ toRouter' = [a \in Agents |-> <<>>]
      /\ ~missed' => UNCHANGED toRouter
      /\ missed' \in BOOLEAN /\ (missed => missed')
      /\ ~listening => missed' = missed
      /\ offline' \in BOOLEAN /\ events' \in 0 .. MaxEvents
  <2>1. toRouter \in [Agents -> Seq(Messages)] /\ missed \in BOOLEAN /\ events \in 0 .. MaxEvents
    BY <1>2 DEF AgentTypes
  <2>2. CASE RouterPublishes
    BY <1>2, <2>1, <2>2 DEF RouterPublishes, AgentTypes
  <2>3. CASE RouterReconnects
    BY <1>2, <2>1, <2>3 DEF RouterReconnects
  <2>4. CASE RouterDisconnected
    <3>1. /\ missed' = (missed \/ \E a \in Agents : toRouter[a] # <<>>)
          /\ toRouter' = [a \in Agents |-> <<>>]
          /\ offline' = TRUE /\ Counted
      BY <2>4 DEF RouterDisconnected, NothingUnderway
    <3>2. ~missed' => toRouter' = toRouter
      BY <2>1, <3>1
    <3>3. ~listening => missed' = missed
      BY <1>2, <2>1, <3>1 DEF StoppedRouter
    <3>4. events' \in 0 .. MaxEvents
      BY <2>1, <3>1, BoundsAssumption DEF Counted
    <3> QED
      BY <2>1, <3>1, <3>2, <3>3, <3>4
  <2> QED
    BY <2>2, <2>3, <2>4
<1>5. StoppedRouter'
  <2>1. ~listening => managed' = <<>> /\ discovered' = {} /\ ~missed'
    BY <1>1, <1>2, <1>3, <1>4 DEF StoppedRouter
  <2>2. ASSUME ~listening \/ offline', NEW a \in Agents PROVE toRouter'[a] = <<>>
    <3>1. offline' /\ ~offline => toRouter' = [b \in Agents |-> <<>>]
      BY DEF RouterPublishes, RouterDisconnected, RouterReconnects, NothingUnderway
    <3> QED
      BY <1>2, <1>4, <2>2, <3>1 DEF StoppedRouter
  <2> QED
    BY <1>3, <2>1, <2>2 DEF StoppedRouter
<1>6. /\ toAgent' \in [Agents -> Seq(SUBSET Events)]
      /\ \A a \in Agents : status[a] # "up" => toAgent'[a] = toAgent[a]
      /\ outbox' \in Seq(SUBSET Events)
  <2>1. toAgent \in [Agents -> Seq(SUBSET Events)] /\ outbox \in Seq(SUBSET Events)
    BY <1>2 DEF AgentTypes
  <2>2. UNCHANGED toAgent \/ (outbox # <<>> /\ Deliver(Head(outbox)))
    BY DEF RouterPublishes, RouterDisconnected, RouterReconnects
  <2>3. UNCHANGED outbox \/ (outbox # <<>> /\ outbox' = Tail(outbox))
    BY DEF RouterPublishes, RouterDisconnected, RouterReconnects
  <2>4. outbox' \in Seq(SUBSET Events)
    BY <2>1, <2>3, TailFacts
  <2> QED
    BY <2>1, <2>2, <2>4, DeliverFacts
<1>7. AgentTypes'
  <2>1. toRouter' \in [Agents -> Seq(Messages)]
    <3>1. <<>> \in Seq(Messages)
      BY EmptySeq
    <3> QED
      BY <1>2, <1>4, <3>1 DEF AgentTypes
  <2> QED
    BY <1>1, <1>2, <1>4, <1>6, <2>1 DEF AgentTypes
<1>8. AgentsFit' /\ WillsInTurn'
  <2>1. \A a \in discovered' : a \in Agents /\ status[a] = "up"
    BY <1>1, <1>2 DEF AgentTypes, AgentsFit
  <2> QED
    BY <1>1, <1>6, <2>1, AgentsStayFit
<1>9. ASSUME NodesInv, ~missed' PROVE NodesInv' /\ UNCHANGED toRouter
  <2>1. NodesInTurn /\ UpIsAdvertised /\ ManagedOfAgents /\ toRouter' = toRouter
    BY <1>4, <1>9 DEF NodesInv
  <2>2. ManagedNodes' = ManagedNodes
    BY <1>3 DEF ManagedNodes
  <2>3. \A b \in Agents : StaysCurrent(b)
    BY <1>1 DEF StaysCurrent, Current
  <2>4. NodesInTurn'
    BY <2>1, <2>2, <2>3, StayInTurn DEF NodesInTurn
  <2>5. UpIsAdvertised'
    BY <1>1, <1>3, <2>1, UpStays
  <2>6. ManagedOfAgents'
    BY <2>1, <2>2 DEF ManagedOfAgents
  <2> QED
    BY <2>1, <2>4, <2>5, <2>6 DEF NodesInv
<1> QED
  BY <1>3, <1>4, <1>5, <1>7, <1>8, <1>9 DEF AgentsInv

------------------------------------------------------------------------------
(* What is underway to an agent                                              *)

\* More events come after those that are underway.
LEMMA AfterAppend ==
    ASSUME NEW k, NEW q \in Seq(SUBSET Events), NEW es \in SUBSET Events,
           NEW p \in 0 .. Len(Append(q, es)), NEW e, LastWord(k, Append(q, es), p, e)
    PROVE  \/ p = Len(q) + 1 /\ e \in es
           \/ /\ p \in 0 .. Len(q) /\ LastWord(k, q, p, e)
              /\ \A f \in es : ~OfPair(f, e)
<1>1. PICK r : r = Append(q, es)
  OBVIOUS
<1>2. /\ Len(q) \in Nat /\ DOMAIN q = 1 .. Len(q)
      /\ Len(r) = Len(q) + 1 /\ DOMAIN r = 1 .. (Len(q) + 1)
      /\ \A i \in 1 .. Len(q) : r[i] = q[i]
      /\ r[Len(q) + 1] = es
  BY <1>1, AppendFacts
<1>3. /\ e \in View(k, r, p)
      /\ \A i \in DOMAIN r : i > p => \A f \in r[i] : ~OfPair(f, e)
  BY <1>1 DEF LastWord
<1>4. p \in Nat /\ p <= Len(q) + 1
  BY <1>1, <1>2
<1>5. CASE p = Len(q) + 1
  BY <1>2, <1>3, <1>5 DEF View
<1>6. CASE p # Len(q) + 1
  <2>1. p \in 0 .. Len(q) /\ Len(q) + 1 > p /\ Len(q) + 1 \in DOMAIN r
    BY <1>2, <1>4, <1>6
  <2>2. \A f \in es : ~OfPair(f, e)
    BY <1>2, <1>3, <2>1
  <2>3. p = 0 \/ p \in 1 .. Len(q)
    BY <2>1
  <2>4. e \in View(k, q, p)
    BY <1>2, <1>3, <2>3 DEF View
  <2>5. \A i \in DOMAIN q : i \in DOMAIN r /\ r[i] = q[i]
    BY <1>2
  <2>6. \A i \in DOMAIN q : i > p => \A f \in q[i] : ~OfPair(f, e)
    BY <1>3, <2>5
  <2> QED
    BY <2>1, <2>2, <2>4, <2>6 DEF LastWord
<1> QED
  BY <1>5, <1>6

\* The agent still learns of an association that these events do not concern.
LEMMA LearnsBeforeAppend ==
    ASSUME NEW k, NEW q \in Seq(SUBSET Events), NEW es \in SUBSET Events,
           NEW c, NEW route, Learns(k, q, c, route),
           \A f \in es : ~OfPair(f, c) /\ (f.src = c.src => f.route \in {NoRoute, route})
    PROVE  Learns(k, Append(q, es), c, route)
<1>1. PICK r : r = Append(q, es)
  OBVIOUS
<1>2. /\ Len(q) \in Nat /\ DOMAIN q = 1 .. Len(q)
      /\ Len(r) = Len(q) + 1 /\ DOMAIN r = 1 .. (Len(q) + 1)
      /\ \A i \in 1 .. Len(q) : r[i] = q[i]
      /\ r[Len(q) + 1] = es
  BY <1>1, AppendFacts
<1>3. PICK p, e :
         /\ p \in 0 .. Len(q) /\ e \in View(k, q, p)
         /\ LastWord(k, q, p, e)
         /\ OfPair(e, c) /\ e.rate = c.rate /\ e.route = route
         /\ \A i \in DOMAIN q : i > p => \A f \in q[i] : f.src = c.src => f.route \in {NoRoute, route}
  BY DEF Learns
<1>4. p \in 0 .. Len(r) /\ (p = 0 \/ p \in 1 .. Len(q))
  BY <1>2, <1>3
<1>5. e \in View(k, r, p)
  BY <1>2, <1>3, <1>4 DEF View
<1>6. \A i \in DOMAIN r : r[i] = es \/ (i \in DOMAIN q /\ r[i] = q[i])
  <2>1. \A i \in DOMAIN r : i = Len(q) + 1 \/ i \in 1 .. Len(q)
    BY <1>2
  <2> QED
    BY <1>2, <2>1
<1>7. \A f \in es : ~OfPair(f, e)
  BY <1>3 DEF OfPair
<1>8. \A i \in DOMAIN r : i > p => \A f \in r[i] : ~OfPair(f, e)
  BY <1>3, <1>6, <1>7 DEF LastWord
<1>9. \A i \in DOMAIN r : i > p => \A f \in r[i] : f.src = c.src => f.route \in {NoRoute, route}
  BY <1>3, <1>6
<1>10. LastWord(k, r, p, e)
  BY <1>5, <1>8 DEF LastWord
<1> QED
  BY <1>1, <1>3, <1>4, <1>5, <1>9, <1>10 DEF Learns

\* The agent learns of an association by the last of the events.
LEMMA LearnsByAppend ==
    ASSUME NEW k, NEW q \in Seq(SUBSET Events), NEW es \in SUBSET Events,
           NEW c, NEW e \in es, OfPair(e, c), e.rate = c.rate
    PROVE  Learns(k, Append(q, es), c, e.route)
<1>1. PICK r : r = Append(q, es)
  OBVIOUS
<1>2. /\ Len(q) \in Nat /\ Len(r) = Len(q) + 1 /\ DOMAIN r = 1 .. (Len(q) + 1)
      /\ r[Len(q) + 1] = es
  BY <1>1, AppendFacts
<1>3. PICK p : p = Len(q) + 1
  OBVIOUS
<1>4. p \in 0 .. Len(r) /\ p # 0 /\ \A i \in DOMAIN r : ~(i > p)
  BY <1>2, <1>3
<1>5. e \in View(k, r, p)
  BY <1>2, <1>3, <1>4 DEF View
<1>6. LastWord(k, r, p, e)
  BY <1>4, <1>5 DEF LastWord
<1> QED
  BY <1>1, <1>4, <1>5, <1>6 DEF Learns

\* The first of the events have been handled: what stays known, and what is
\* known now.
LEMMA AfterTail ==
    ASSUME NEW k, NEW q \in Seq(SUBSET Events), q # <<>>, NEW k1,
           \A e \in k1 : \/ e \in q[1]
                         \/ e \in k /\ \A f \in q[1] : ~OfPair(f, e),
           NEW p \in 0 .. Len(Tail(q)), NEW e, LastWord(k1, Tail(q), p, e)
    PROVE  \E i \in 0 .. Len(q) : e \in View(k, q, i) /\ LastWord(k, q, i, e)
<1>1. PICK t : t = Tail(q)
  OBVIOUS
<1>2. /\ Len(q) \in Nat /\ Len(q) >= 1
      /\ DOMAIN q = 1 .. Len(q)
      /\ Len(t) = Len(q) - 1 /\ DOMAIN t = 1 .. (Len(q) - 1)
      /\ \A i \in 1 .. (Len(q) - 1) : t[i] = q[i + 1]
  BY <1>1, TailFacts
<1>3. /\ e \in View(k1, t, p)
      /\ \A i \in DOMAIN t : i > p => \A f \in t[i] : ~OfPair(f, e)
  BY <1>1 DEF LastWord
<1>4. p \in Nat /\ p <= Len(q) - 1
  BY <1>1, <1>2
<1>5. \A i \in DOMAIN q : i > p + 1 => \A f \in q[i] : ~OfPair(f, e)
  <2> SUFFICES ASSUME NEW i \in DOMAIN q, i > p + 1 PROVE \A f \in q[i] : ~OfPair(f, e)
    OBVIOUS
  <2>1. i - 1 \in 1 .. (Len(q) - 1) /\ i - 1 > p /\ (i - 1) + 1 = i
    BY <1>2, <1>4
  <2>2. t[i - 1] = q[i]
    BY <1>2, <2>1
  <2> QED
    BY <1>2, <1>3, <2>1, <2>2
<1>6. CASE p > 0 \/ e \in q[1]
  <2>1. p + 1 \in 0 .. Len(q) /\ p + 1 # 0
    BY <1>2, <1>4
  <2>2. e \in q[p + 1]
    <3>1. CASE p > 0
      <4>1. p \in 1 .. (Len(q) - 1) /\ p # 0
        BY <1>2, <1>4, <3>1
      <4> QED
        BY <1>2, <1>3, <4>1 DEF View
    <3>2. CASE ~(p > 0)
      <4>1. p = 0
        BY <1>4, <3>2
      <4>2. e \in q[1] /\ p + 1 = 1
        BY <1>6, <3>2, <4>1
      <4> QED
        BY <4>2
    <3> QED
      BY <3>1, <3>2
  <2>3. e \in View(k, q, p + 1)
    BY <2>1, <2>2 DEF View
  <2>4. LastWord(k, q, p + 1, e)
    BY <1>5, <2>3 DEF LastWord
  <2> QED
    BY <2>1, <2>3, <2>4
<1>7. CASE ~(p > 0 \/ e \in q[1])
  <2>1. p = 0
    BY <1>4, <1>7
  <2>2. e \in k /\ \A f \in q[1] : ~OfPair(f, e)
    BY <1>3, <1>7, <2>1 DEF View
  <2>3. \A i \in DOMAIN q : i = 1 \/ i > p + 1
    BY <1>2, <2>1
  <2>4. \A i \in DOMAIN q : \A f \in q[i] : ~OfPair(f, e)
    BY <1>5, <2>2, <2>3
  <2>5. e \in View(k, q, 0) /\ 0 \in 0 .. Len(q)
    BY <1>2, <2>2 DEF View
  <2>6. LastWord(k, q, 0, e)
    BY <2>4, <2>5 DEF LastWord
  <2> QED
    BY <2>5, <2>6
<1> QED
  BY <1>6, <1>7

\* The agent still learns of an association.
LEMMA LearnsAfterTail ==
    ASSUME NEW k, NEW q \in Seq(SUBSET Events), q # <<>>, NEW k1, NEW c, NEW route, route # NoRoute,
           Learns(k, q, c, route),
           \A e \in q[1] : OfPair(e, c) /\ e.route # NoRoute => e \in k1,
           \A e \in k :
               /\ OfPair(e, c) /\ e.route = route
               /\ \A f \in q[1] : ~OfPair(f, e) /\ (f.src = c.src => f.route \in {NoRoute, route})
               => e \in k1
    PROVE  Learns(k1, Tail(q), c, route)
<1>1. PICK t : t = Tail(q)
  OBVIOUS
<1>2. /\ Len(q) \in Nat /\ Len(q) >= 1
      /\ DOMAIN q = 1 .. Len(q)
      /\ Len(t) = Len(q) - 1 /\ DOMAIN t = 1 .. (Len(q) - 1)
      /\ \A i \in 1 .. (Len(q) - 1) : t[i] = q[i + 1]
  BY <1>1, TailFacts
<1>3. PICK p, e :
         /\ p \in 0 .. Len(q) /\ e \in View(k, q, p)
         /\ LastWord(k, q, p, e)
         /\ OfPair(e, c) /\ e.rate = c.rate /\ e.route = route
         /\ \A i \in DOMAIN q : i > p => \A f \in q[i] : f.src = c.src => f.route \in {NoRoute, route}
  BY DEF Learns
<1>4. PICK n : n = IF p = 0 THEN 0 ELSE p - 1
  OBVIOUS
<1>5. n \in 0 .. Len(t) /\ p \in Nat
  BY <1>2, <1>3, <1>4
<1>6. \A i \in DOMAIN t : i > n => i + 1 \in DOMAIN q /\ i + 1 > p /\ t[i] = q[i + 1]
  BY <1>2, <1>4, <1>5
<1>7. \A i \in DOMAIN t : i > n => \A f \in t[i] : ~OfPair(f, e)
  BY <1>3, <1>6 DEF LastWord
<1>8. \A i \in DOMAIN t : i > n => \A f \in t[i] : f.src = c.src => f.route \in {NoRoute, route}
  BY <1>3, <1>6
<1>9. e \in View(k1, t, n)
  <2>1. CASE p = 0
    <3>1. 1 \in DOMAIN q /\ 1 > p
      BY <1>2, <2>1
    <3>2. \A f \in q[1] : ~OfPair(f, e) /\ (f.src = c.src => f.route \in {NoRoute, route})
      BY <1>3, <3>1 DEF LastWord
    <3>3. e \in k /\ n = 0
      BY <1>3, <1>4, <2>1 DEF View
    <3> QED
      BY <1>3, <3>2, <3>3 DEF View
  <2>2. CASE p = 1
    <3>1. e \in q[1] /\ n = 0
      BY <1>3, <1>4, <2>2 DEF View
    <3> QED
      BY <1>3, <3>1 DEF View
  <2>3. CASE p # 0 /\ p # 1
    <3>1. n \in 1 .. (Len(q) - 1) /\ n + 1 = p /\ n # 0
      BY <1>2, <1>4, <1>5, <2>3
    <3>2. t[n] = q[p] /\ e \in q[p]
      BY <1>2, <1>3, <2>3, <3>1 DEF View
    <3> QED
      BY <3>1, <3>2 DEF View
  <2> QED
    BY <2>1, <2>2, <2>3
<1>10. LastWord(k1, t, n, e)
  BY <1>7, <1>9 DEF LastWord
<1> QED
  BY <1>1, <1>3, <1>5, <1>8, <1>9, <1>10 DEF Learns

------------------------------------------------------------------------------
(* Both ends of associations                                                 *)

\* No pair of managed points concerns an agent of which no IO node is managed.
LEMMA NoneConcerns ==
    ASSUME NEW nodes, OneEach(nodes), NEW s, HasSource(nodes, s), NEW b, HasActor(nodes, b),
           NEW a, \A k \in DOMAIN nodes : nodes[k].id[1] # a,
           NEW node \in IoNodes, node.id[1] = a
    PROVE  s \notin DOMAIN node.ioSources /\ b \notin DOMAIN node.ioActors
<1>1. \A k \in DOMAIN nodes : nodes[k] \in IoNodes
  BY PointsAreUnique
<1>2. PICK j \in DOMAIN nodes : s \in DOMAIN nodes[j].ioSources
  BY DEF HasSource
<1>3. PICK k \in DOMAIN nodes : b \in DOMAIN nodes[k].ioActors
  BY DEF HasActor
<1>4. /\ DOMAIN nodes[j].ioSources \cap DOMAIN node.ioSources = {}
      /\ DOMAIN nodes[k].ioActors \cap DOMAIN node.ioActors = {}
  BY <1>1, NodesAssumption
<1> QED
  BY <1>2, <1>3, <1>4

\* Events are queued after those that are underway already.
LEMMA QueueFacts ==
    ASSUME NEW q \in Seq(SUBSET Events), NEW r \in Seq(SUBSET Events)
    PROVE  /\ q \o r \in Seq(SUBSET Events)
           /\ <<>> \o r = r
           /\ \A es \in SUBSET Events : q \o Append(r, es) = Append(q \o r, es)
           /\ r # <<>> => Append(q, Head(r)) \o Tail(r) = q \o r
           /\ q # <<>> => q \o r # <<>> /\ (q \o r)[1] = q[1] /\ Tail(q \o r) = Tail(q) \o r
<1>1. q \o r \in Seq(SUBSET Events) /\ <<>> \o r = r
  BY ConcatProperties, ConcatEmptySeq
<1>2. ASSUME NEW es \in SUBSET Events PROVE q \o Append(r, es) = Append(q \o r, es)
  <2>1. <<es>> \in Seq(SUBSET Events)
    OBVIOUS
  <2>2. Append(r, es) = r \o <<es>> /\ Append(q \o r, es) = (q \o r) \o <<es>>
    BY <1>1, AppendIsConcat
  <2>3. (q \o r) \o <<es>> = q \o (r \o <<es>>)
    BY <2>1, ConcatAssociative
  <2> QED
    BY <2>2, <2>3
<1>3. ASSUME r # <<>> PROVE Append(q, Head(r)) \o Tail(r) = q \o r
  <2>1. PICK h, t : h = Head(r) /\ t = Tail(r)
    OBVIOUS
  <2>2. /\ h = r[1] /\ h \in SUBSET Events /\ t \in Seq(SUBSET Events)
        /\ Len(r) \in Nat /\ Len(r) >= 1 /\ Len(t) = Len(r) - 1
        /\ \A p \in 1 .. (Len(r) - 1) : t[p] = r[p + 1]
    BY <1>3, <2>1, TailFacts
  <2>3. PICK q1 : q1 = Append(q, h)
    OBVIOUS
  <2>4. /\ q1 \in Seq(SUBSET Events) /\ Len(q) \in Nat /\ Len(q1) = Len(q) + 1
        /\ \A p \in 1 .. Len(q) : q1[p] = q[p]
        /\ q1[Len(q) + 1] = h
    BY <2>2, <2>3, AppendFacts
  <2>5. /\ q1 \o t \in Seq(SUBSET Events) /\ Len(q1 \o t) = Len(q1) + Len(t)
        /\ \A p \in 1 .. Len(q1) + Len(t) : (q1 \o t)[p] = IF p <= Len(q1) THEN q1[p] ELSE t[p - Len(q1)]
    BY <2>2, <2>4, ConcatProperties
  <2>6. /\ Len(q \o r) = Len(q) + Len(r)
        /\ \A p \in 1 .. Len(q) + Len(r) : (q \o r)[p] = IF p <= Len(q) THEN q[p] ELSE r[p - Len(q)]
    BY ConcatProperties
  <2>7. ASSUME NEW p \in 1 .. Len(q) + Len(r) PROVE (q1 \o t)[p] = (q \o r)[p]
    <3>1. CASE p <= Len(q)
      <4>1. p \in 1 .. Len(q) /\ p <= Len(q1) /\ p \in 1 .. Len(q1) + Len(t)
        BY <2>2, <2>4, <3>1
      <4> QED
        BY <2>4, <2>5, <2>6, <3>1, <4>1
    <3>2. CASE p = Len(q) + 1
      <4>1. p <= Len(q1) /\ p \in 1 .. Len(q1) + Len(t) /\ ~(p <= Len(q)) /\ p - Len(q) = 1
        BY <2>2, <2>4, <3>2
      <4> QED
        BY <2>2, <2>4, <2>5, <2>6, <3>2, <4>1
    <3>3. CASE p > Len(q) + 1
      <4>1. /\ ~(p <= Len(q1)) /\ p \in 1 .. Len(q1) + Len(t) /\ ~(p <= Len(q))
            /\ p - Len(q1) \in 1 .. (Len(r) - 1) /\ (p - Len(q1)) + 1 = p - Len(q)
        BY <2>2, <2>4, <3>3
      <4> QED
        BY <2>2, <2>5, <2>6, <4>1
    <3> QED
      BY <2>2, <2>4, <3>1, <3>2, <3>3
  <2>8. Len(q1 \o t) = Len(q \o r)
    BY <2>2, <2>4, <2>5, <2>6
  <2>9. q1 \o t = q \o r
    BY <1>1, <2>5, <2>6, <2>7, <2>8, SeqEqual
  <2> QED
    BY <2>1, <2>3, <2>9
<1>4. ASSUME q # <<>> PROVE q \o r # <<>> /\ (q \o r)[1] = q[1] /\ Tail(q \o r) = Tail(q) \o r
  <2>1. /\ Tail(q) \in Seq(SUBSET Events) /\ Len(q) \in Nat /\ Len(q) >= 1
        /\ Len(Tail(q)) = Len(q) - 1
        /\ \A p \in 1 .. (Len(q) - 1) : Tail(q)[p] = q[p + 1]
    BY <1>4, TailFacts
  <2>2. /\ Len(r) \in Nat /\ Len(q \o r) = Len(q) + Len(r)
        /\ \A p \in 1 .. Len(q) + Len(r) : (q \o r)[p] = IF p <= Len(q) THEN q[p] ELSE r[p - Len(q)]
    BY ConcatProperties, LenProperties
  <2>3. q \o r # <<>> /\ (q \o r)[1] = q[1]
    BY <2>1, <2>2, EmptySeq
  <2>4. PICK t, u : t = Tail(q) /\ u = Tail(q \o r)
    OBVIOUS
  <2>5. /\ u \in Seq(SUBSET Events) /\ Len(u) = Len(q) + Len(r) - 1
        /\ \A p \in 1 .. (Len(q) + Len(r) - 1) : u[p] = (q \o r)[p + 1]
    BY <1>1, <2>2, <2>3, <2>4, TailFacts
  <2>6. /\ t \o r \in Seq(SUBSET Events) /\ Len(t \o r) = Len(t) + Len(r)
        /\ \A p \in 1 .. Len(t) + Len(r) : (t \o r)[p] = IF p <= Len(t) THEN t[p] ELSE r[p - Len(t)]
    BY <2>1, <2>4, ConcatProperties
  <2>7. ASSUME NEW p \in 1 .. Len(u) PROVE u[p] = (t \o r)[p]
    <3>1. /\ p \in 1 .. Len(t) + Len(r) /\ p + 1 \in 1 .. Len(q) + Len(r) /\ Len(t) = Len(q) - 1
          /\ p - Len(t) = (p + 1) - Len(q) /\ (p <= Len(t) <=> p + 1 <= Len(q))
          /\ p <= Len(t) => p \in 1 .. (Len(q) - 1)
      BY <2>1, <2>2, <2>4, <2>5
    <3>2. u[p] = (q \o r)[p + 1]
      BY <2>2, <2>5, <3>1
    <3>3. CASE p <= Len(t)
      BY <2>1, <2>2, <2>4, <2>6, <3>1, <3>2, <3>3
    <3>4. CASE ~(p <= Len(t))
      BY <2>2, <2>6, <3>1, <3>2, <3>4
    <3> QED
      BY <3>3, <3>4
  <2>8. Len(u) = Len(t \o r)
    BY <2>1, <2>2, <2>4, <2>5, <2>6
  <2>9. u = t \o r
    BY <2>5, <2>6, <2>7, <2>8, SeqEqual
  <2> QED
    BY <2>3, <2>4, <2>9
<1> QED
  BY <1>1, <1>2, <1>3, <1>4

\* What is known after the events in q1 is what is known after those in q.
SameWords(k, q, q1) ==
    /\ \A truths : Told(k, q, truths) => Told(k, q1, truths)
    /\ \A c, route : Learns(k, q, c, route) => Learns(k, q1, c, route)

\* Events that an agent gets twice, one time after the other.
LEMMA Repeated ==
    ASSUME NEW k, NEW q \in Seq(SUBSET Events), NEW r \in Seq(SUBSET Events), r # <<>>
    PROVE  SameWords(k, q \o r, Append(q, Head(r)) \o r)
<1>1. PICK v, w, h : v = q \o r /\ w = Append(q, h) \o r /\ h = Head(r)
  OBVIOUS
<1>2. /\ h = r[1] /\ h \in SUBSET Events /\ Len(r) \in Nat /\ Len(r) >= 1
  BY <1>1, TailFacts
<1>3. PICK q1 : q1 = Append(q, h)
  OBVIOUS
<1>4. /\ q1 \in Seq(SUBSET Events) /\ Len(q) \in Nat /\ Len(q1) = Len(q) + 1
      /\ \A p \in 1 .. Len(q) : q1[p] = q[p]
      /\ q1[Len(q) + 1] = h
  BY <1>2, <1>3, AppendFacts
<1>5. /\ Len(w) = Len(q) + 1 + Len(r) /\ DOMAIN w = 1 .. Len(q) + 1 + Len(r)
      /\ \A p \in 1 .. Len(q) + 1 + Len(r) : w[p] = IF p <= Len(q) + 1 THEN q1[p] ELSE r[p - (Len(q) + 1)]
  BY <1>1, <1>3, <1>4, ConcatProperties, LenProperties
<1>6. /\ Len(v) = Len(q) + Len(r) /\ DOMAIN v = 1 .. Len(q) + Len(r)
      /\ \A p \in 1 .. Len(q) + Len(r) : v[p] = IF p <= Len(q) THEN q[p] ELSE r[p - Len(q)]
  BY <1>1, ConcatProperties, LenProperties
<1> DEFINE n == Len(q)
           before(p) == IF p <= n + 1 THEN p ELSE p - 1
           after(p) == IF p <= n THEN p ELSE p + 1
<1>7. /\ \A p \in 0 .. Len(w) : before(p) \in 0 .. Len(v) /\ (before(p) = 0 <=> p = 0)
      /\ \A p \in 0 .. Len(v) : after(p) \in 0 .. Len(w) /\ (after(p) = 0 <=> p = 0)
  BY <1>2, <1>4, <1>5, <1>6
<1>8. /\ \A p \in DOMAIN w : before(p) \in DOMAIN v
      /\ \A p \in DOMAIN v : after(p) \in DOMAIN w
  BY <1>2, <1>4, <1>5, <1>6
<1>9. \A p \in DOMAIN w : w[p] = v[before(p)]
  <2> SUFFICES ASSUME NEW p \in DOMAIN w PROVE w[p] = v[before(p)]
    OBVIOUS
  <2>1. p \in 1 .. n + 1 + Len(r) /\ before(p) \in 1 .. n + Len(r)
    BY <1>5, <1>6, <1>8
  <2>2. CASE p <= n
    <3>1. before(p) = p /\ p \in 1 .. Len(q) /\ p <= Len(q) + 1
      BY <1>4, <2>1, <2>2
    <3> QED
      BY <1>4, <1>5, <1>6, <2>1, <3>1
  <2>3. CASE p = n + 1
    <3>1. before(p) = p /\ ~(p <= Len(q)) /\ p - Len(q) = 1 /\ p <= Len(q) + 1
      BY <1>4, <2>1, <2>3
    <3> QED
      BY <1>2, <1>4, <1>5, <1>6, <2>1, <2>3, <3>1
  <2>4. CASE p > n + 1
    <3>1. /\ before(p) = p - 1 /\ ~(p - 1 <= Len(q)) /\ ~(p <= Len(q) + 1)
          /\ (p - 1) - Len(q) = p - (Len(q) + 1)
      BY <1>4, <2>1, <2>4
    <3> QED
      BY <1>5, <1>6, <2>1, <3>1
  <2> QED
    BY <1>4, <2>1, <2>2, <2>3, <2>4
<1>10. \A p \in 0 .. Len(v) : before(after(p)) = p
  BY <1>4, <1>6
<1>11. \A i \in DOMAIN v, p \in 0 .. Len(w) : i > before(p) => after(i) > p
  BY <1>2, <1>4, <1>5, <1>6
<1>12. \A i \in DOMAIN w, p \in 0 .. Len(v) : i > after(p) => before(i) > p
  BY <1>2, <1>4, <1>5, <1>6
<1>13. \A p \in DOMAIN v : v[p] = w[after(p)]
  <2> SUFFICES ASSUME NEW p \in DOMAIN v PROVE v[p] = w[after(p)]
    OBVIOUS
  <2>1. after(p) \in DOMAIN w /\ before(after(p)) = p
    BY <1>6, <1>8, <1>10
  <2> QED
    BY <1>9, <2>1
<1> HIDE DEF before, after, n
<1>14. \A p \in 0 .. Len(w) : View(k, w, p) = View(k, v, before(p))
  <2> SUFFICES ASSUME NEW p \in 0 .. Len(w) PROVE View(k, w, p) = View(k, v, before(p))
    OBVIOUS
  <2>1. p = 0 \/ p \in DOMAIN w
    BY <1>2, <1>4, <1>5
  <2> QED
    BY <1>7, <1>9, <2>1 DEF View
<1>15. \A p \in 0 .. Len(v) : View(k, v, p) = View(k, w, after(p))
  <2> SUFFICES ASSUME NEW p \in 0 .. Len(v) PROVE View(k, v, p) = View(k, w, after(p))
    OBVIOUS
  <2>1. p = 0 \/ p \in DOMAIN v
    BY <1>2, <1>4, <1>6
  <2> QED
    BY <1>7, <1>13, <2>1 DEF View
<1>16. ASSUME NEW truths, Told(k, v, truths) PROVE Told(k, w, truths)
  <2> SUFFICES ASSUME NEW p \in 0 .. Len(w), NEW e \in View(k, w, p), LastWord(k, w, p, e), e.route # NoRoute
               PROVE  e \in truths
    BY DEF Told
  <2>1. before(p) \in 0 .. Len(v) /\ e \in View(k, v, before(p))
    BY <1>7, <1>14
  <2>2. ASSUME NEW i \in DOMAIN v, i > before(p) PROVE \A f \in v[i] : ~OfPair(f, e)
    <3>1. after(i) \in DOMAIN w /\ after(i) > p /\ w[after(i)] = v[i]
      BY <1>8, <1>11, <1>13, <2>2
    <3> QED
      BY <3>1 DEF LastWord
  <2>3. LastWord(k, v, before(p), e)
    BY <2>1, <2>2 DEF LastWord
  <2> QED
    BY <1>16, <2>1, <2>3 DEF Told
<1>17. ASSUME NEW c, NEW route, Learns(k, v, c, route) PROVE Learns(k, w, c, route)
  <2>1. PICK p, e :
           /\ p \in 0 .. Len(v) /\ e \in View(k, v, p)
           /\ LastWord(k, v, p, e)
           /\ OfPair(e, c) /\ e.rate = c.rate /\ e.route = route
           /\ \A i \in DOMAIN v : i > p => \A f \in v[i] : f.src = c.src => f.route \in {NoRoute, route}
    BY <1>17 DEF Learns
  <2>2. after(p) \in 0 .. Len(w) /\ e \in View(k, w, after(p))
    BY <1>7, <1>15, <2>1
  <2>3. \A i \in DOMAIN w : i > after(p) => before(i) \in DOMAIN v /\ before(i) > p /\ w[i] = v[before(i)]
    BY <1>8, <1>9, <1>12, <2>1
  <2>4. \A i \in DOMAIN w : i > after(p) => \A f \in w[i] : ~OfPair(f, e)
    BY <2>1, <2>3 DEF LastWord
  <2>5. LastWord(k, w, after(p), e)
    BY <2>2, <2>4 DEF LastWord
  <2>6. \A i \in DOMAIN w : i > after(p) => \A f \in w[i] : f.src = c.src => f.route \in {NoRoute, route}
    BY <2>1, <2>3
  <2> QED
    BY <2>1, <2>2, <2>5, <2>6 DEF Learns
<1> QED
  BY <1>1, <1>16, <1>17 DEF SameWords

\* Events come last that tell the truth, and end what is not true any more.
LEMMA ToldTheTruth ==
    ASSUME NEW k, NEW q \in Seq(SUBSET Events), NEW es \in SUBSET Events,
           NEW truths, NEW truths1, Told(k, q, truths),
           \A e \in es : e.route # NoRoute => e \in truths1,
           \A e \in truths : e \in truths1 \/ \E f \in es : OfPair(f, e)
    PROVE  Told(k, IF es = {} THEN q ELSE Append(q, es), truths1)
<1>1. CASE es = {}
  BY <1>1 DEF Told
<1>2. CASE es # {}
  <2> SUFFICES ASSUME NEW p \in 0 .. Len(Append(q, es)), NEW e \in View(k, Append(q, es), p),
                      LastWord(k, Append(q, es), p, e), e.route # NoRoute
               PROVE  e \in truths1
    BY <1>2 DEF Told
  <2>1. \/ p = Len(q) + 1 /\ e \in es
        \/ /\ p \in 0 .. Len(q) /\ LastWord(k, q, p, e)
           /\ \A f \in es : ~OfPair(f, e)
    BY AfterAppend
  <2>2. CASE p \in 0 .. Len(q) /\ LastWord(k, q, p, e) /\ \A f \in es : ~OfPair(f, e)
    <3>1. e \in View(k, q, p)
      BY <2>2 DEF LastWord
    <3>2. e \in truths
      BY <2>2, <3>1 DEF Told
    <3> QED
      BY <2>2, <3>2
  <2> QED
    BY <2>1, <2>2
<1> QED
  BY <1>1, <1>2

\* What the router publishes is true, and ends what is not true any more.
LEMMA PublishedTruths ==
    ASSUME RouterTypes, RouterTypes', PublishesChanges, missed' = missed \/ associations' = {},
           ~missed' => PublishesRoutes
    PROVE  /\ \A e \in published' : e.route # NoRoute => e \in Truths'
           /\ \A e \in Truths : e \in Truths' \/ \E f \in published' : OfPair(f, e)
<1>1. ASSUME NEW e \in published', e.route # NoRoute PROVE e \in Truths'
  <2>1. PICK c \in associations' : OfPair(e, c) /\ e.rate = c.rate
    BY <1>1 DEF PublishesChanges
  <2>2. ~missed' => e.route = sourceRoutes'[c.src]
    BY <1>1, <2>1 DEF PublishesRoutes, OfPair
  <2>3. e \in Events
    BY DEF PublishesChanges
  <2> QED
    BY <2>1, <2>2, <2>3 DEF Truths
<1>2. ASSUME NEW e \in Truths, \A f \in published' : ~OfPair(f, e) PROVE e \in Truths'
  <2>1. /\ e \in Events
        /\ \E c \in associations : OfPair(e, c) /\ e.rate = c.rate /\ (~missed => e.route = sourceRoutes[c.src])
    BY DEF Truths
  <2>2. PICK c \in associations : OfPair(e, c) /\ e.rate = c.rate /\ (~missed => e.route = sourceRoutes[c.src])
    BY <2>1
  <2>3. \A f \in published' : ~OfPair(f, c)
    BY <1>2, <2>2 DEF OfPair
  <2>4. PICK d \in associations' : OfPair(d, c)
    BY <2>3 DEF PublishesChanges
  <2>5. d \in associations
    <3>1. ASSUME d \notin associations PROVE FALSE
      <4>1. PICK f \in published' : OfPair(f, d)
        BY <3>1 DEF PublishesChanges
      <4> QED
        BY <2>3, <2>4, <4>1 DEF OfPair
    <3> QED
      BY <3>1
  <2>6. d = c
    BY <2>4, <2>5 DEF RouterTypes
  <2>7. ~missed' => e.route = sourceRoutes'[c.src]
    BY <2>2, <2>4, <2>6 DEF PublishesRoutes
  <2> QED
    BY <2>1, <2>2, <2>4, <2>6, <2>7 DEF Truths
<1> QED
  BY <1>1, <1>2

\* An agent at an end of an association, which the router knows of, is told of it.
LEMMA EndsAreTold ==
    ASSUME RouterTypes, RouterInv', PublishesChanges, PublishesRoutes, GetsUpToDate,
           AgentsInv, UNCHANGED <<status, ioNode>>, NEW a \in Agents, UpToDate(a)',
           NEW c \in associations', Concerns(a, c),
           NEW k, NEW q \in Seq(SUBSET Events), NEW es \in SUBSET Events, es = published',
           UpToDate(a) /\ c \in associations => Learns(k, q, c, sourceRoutes[c.src])
    PROVE  Learns(k, IF es = {} THEN q ELSE Append(q, es), c, sourceRoutes'[c.src])
<1>1. status[a] = "up" /\ ioNode[a] \in IoNodes /\ ioNode[a].id[1] = a
  BY DEF UpToDate, AgentsInv, AgentsFit
<1>2. UpToDate(a)
  <2>1. ASSUME \A n \in ManagedNodes' : n.id[1] # a PROVE FALSE
    <3>1. OneEach(managed') /\ HasSource(managed', c.src) /\ HasActor(managed', c.act)
      BY DEF RouterInv, AssociationsOfManaged
    <3>2. \A i \in DOMAIN managed' : managed'[i].id[1] # a
      BY <2>1 DEF ManagedNodes
    <3>3. c.src \notin DOMAIN ioNode[a].ioSources /\ c.act \notin DOMAIN ioNode[a].ioActors
      BY <1>1, <3>1, <3>2, NoneConcerns
    <3> QED
      BY <3>3 DEF Concerns
  <2> QED
    BY <2>1 DEF GetsUpToDate
<1>3. CASE c \in associations
  <2>1. sourceRoutes'[c.src] = sourceRoutes[c.src]
    BY <1>3 DEF PublishesRoutes
  <2>2. Learns(k, q, c, sourceRoutes'[c.src])
    BY <1>2, <1>3, <2>1
  <2>3. PICK route : route = sourceRoutes'[c.src]
    OBVIOUS
  <2>4. \A f \in es : ~OfPair(f, c) /\ (f.src = c.src => f.route \in {NoRoute, route})
    <3> SUFFICES ASSUME NEW f \in es
                 PROVE  ~OfPair(f, c) /\ (f.src = c.src => f.route \in {NoRoute, route})
      OBVIOUS
    <3>1. CASE f.route = NoRoute
      BY <3>1 DEF PublishesChanges
    <3>2. CASE f.route # NoRoute
      <4>1. PICK d \in associations' \ associations : OfPair(f, d)
        BY <3>2 DEF PublishesChanges
      <4>2. \A x, y \in associations' : OfPair(x, y) => x = y
        BY DEF RouterInv, RouterTypes
      <4>3. ~OfPair(f, c)
        BY <1>3, <4>1, <4>2 DEF OfPair
      <4>4. f.src = c.src => f.route = route
        BY <2>3, <3>2 DEF PublishesRoutes
      <4> QED
        BY <4>3, <4>4
    <3> QED
      BY <3>1, <3>2
  <2>5. Learns(k, Append(q, es), c, route)
    BY <2>2, <2>3, <2>4, LearnsBeforeAppend
  <2> QED
    BY <2>2, <2>3, <2>5
<1>4. CASE c \notin associations
  <2>1. PICK e \in published' : OfPair(e, c) /\ e.rate = c.rate /\ e.route # NoRoute
    BY <1>4 DEF PublishesChanges
  <2>2. e.route = sourceRoutes'[c.src]
    BY <2>1 DEF PublishesRoutes, OfPair
  <2>3. Learns(k, Append(q, es), c, e.route)
    BY <2>1, LearnsByAppend
  <2> QED
    BY <2>1, <2>2, <2>3
<1> QED
  BY <1>3, <1>4

\* All agents are told of what the router publishes, those that start later as well.
LEMMA PublishStep ==
    ASSUME RouterTypes, RouterTypes', AgentsInv, KnowledgeInv, PublishesChanges,
           missed' = missed \/ associations' = {},
           ~missed' => RouterInv' /\ PublishesRoutes /\ GetsUpToDate,
           Enqueue, UNCHANGED agentVars, UNCHANGED toAgent
    PROVE  KnowledgeInv'
<1>1. /\ status' = status /\ ioNode' = ioNode /\ known' = known /\ interrupted' = interrupted
      /\ toAgent' = toAgent
  BY DEF agentVars
<1>2. PICK es, r, truths, truths1 :
         es = published' /\ r = outbox /\ truths = Truths /\ truths1 = Truths'
  OBVIOUS
<1>3. /\ es \in SUBSET Events /\ r \in Seq(SUBSET Events)
      /\ toAgent \in [Agents -> Seq(SUBSET Events)]
  BY <1>2 DEF PublishesChanges, AgentsInv, AgentTypes
<1>4. outbox' = IF es = {} THEN r ELSE Append(r, es)
  BY <1>2 DEF Enqueue
<1>5. /\ \A e \in es : e.route # NoRoute => e \in truths1
      /\ \A e \in truths : e \in truths1 \/ \E f \in es : OfPair(f, e)
  BY <1>2, PublishedTruths
<1>6. Told({}, r, truths)
  BY <1>2 DEF KnowledgeInv
<1>7. Told({}, IF es = {} THEN r ELSE Append(r, es), truths1)
  BY <1>3, <1>5, <1>6, ToldTheTruth
<1>8. Told({}, outbox, Truths)'
  BY <1>2, <1>4, <1>7
<1>9. ASSUME NEW a \in Agents PROVE KnowsItsOwn(a)'
  <2>1. PICK k, q : k = known[a] /\ q = Queue(a)
    OBVIOUS
  <2>2. EndTold(a) /\ OwnAssociations(a) /\ NothingElseTold(a)
    BY DEF KnowledgeInv, KnowsItsOwn
  <2>3. q \in Seq(SUBSET Events)
    BY <1>2, <1>3, <2>1, QueueFacts DEF Queue
  <2>4. /\ Queue(a)' = IF es = {} THEN q ELSE Append(q, es)
        /\ known'[a] = k
    <3>1. Queue(a)' = toAgent[a] \o outbox'
      BY <1>1 DEF Queue
    <3>2. toAgent[a] \o Append(r, es) = Append(toAgent[a] \o r, es)
      BY <1>3, QueueFacts
    <3> QED
      BY <1>1, <1>2, <1>4, <2>1, <3>1, <3>2 DEF Queue
  <2>5. OwnAssociations(a)'
    BY <1>1, <2>2 DEF OwnAssociations, Concerns
  <2>6. NothingElseTold(a)'
    <3> SUFFICES ASSUME a \notin interrupted PROVE Told(known'[a], Queue(a)', Truths')
      BY <1>1 DEF NothingElseTold
    <3>1. Told(k, q, truths)
      BY <1>2, <2>1, <2>2 DEF NothingElseTold
    <3>2. Told(k, IF es = {} THEN q ELSE Append(q, es), truths1)
      BY <1>3, <1>5, <2>3, <3>1, ToldTheTruth
    <3> QED
      BY <1>2, <2>4, <3>2
  <2>7. EndTold(a)'
    <3> SUFFICES ASSUME ~missed', UpToDate(a)', NEW c \in associations', Concerns(a, c)'
                 PROVE  Learns(known'[a], Queue(a)', c, sourceRoutes'[c.src])
      BY DEF EndTold
    <3>1. missed' = missed /\ RouterInv' /\ PublishesRoutes /\ GetsUpToDate /\ Concerns(a, c)
      BY <1>1 DEF Concerns
    <3>2. UpToDate(a) /\ c \in associations => Learns(k, q, c, sourceRoutes[c.src])
      BY <2>1, <2>2, <3>1 DEF EndTold
    <3>3. Learns(k, IF es = {} THEN q ELSE Append(q, es), c, sourceRoutes'[c.src])
      BY <1>1, <1>2, <1>3, <2>3, <3>1, <3>2, EndsAreTold
    <3> QED
      BY <2>4, <3>3
  <2> QED
    BY <2>5, <2>6, <2>7 DEF KnowsItsOwn
<1> QED
  BY <1>8, <1>9 DEF KnowledgeInv

\* What is true stays so as long as the router holds the same associations.
LEMMA TruthsStay ==
    ASSUME UNCHANGED <<associations, sourceRoutes>>, missed => missed'
    PROVE  \A e \in Truths : e \in Truths'
<1> SUFFICES ASSUME NEW e \in Truths PROVE e \in Truths'
  OBVIOUS
<1>1. /\ e \in Events
      /\ \E c \in associations : OfPair(e, c) /\ e.rate = c.rate /\ (~missed => e.route = sourceRoutes[c.src])
  BY DEF Truths
<1>2. PICK c \in associations : OfPair(e, c) /\ e.rate = c.rate /\ (~missed => e.route = sourceRoutes[c.src])
  BY <1>1
<1>3. c \in associations' /\ (~missed' => e.route = sourceRoutes'[c.src])
  BY <1>2
<1> QED
  BY <1>1, <1>2, <1>3 DEF Truths

\* What an agent knows stays in order when nothing of it changes.
LEMMA StillKnows ==
    ASSUME NEW b \in Agents, KnowsItsOwn(b), UNCHANGED <<associations, sourceRoutes>>,
           missed => missed', known'[b] = known[b], ioNode'[b] = ioNode[b],
           SameWords(known[b], Queue(b), Queue(b)'),
           b \in interrupted => b \in interrupted', ~missed' /\ UpToDate(b)' => UpToDate(b)
    PROVE  KnowsItsOwn(b)'
<1>1. EndTold(b) /\ OwnAssociations(b) /\ NothingElseTold(b)
  BY DEF KnowsItsOwn
<1>2. PICK k, q, q1, truths, truths1 :
         /\ k = known[b] /\ q = Queue(b) /\ q1 = Queue(b)'
         /\ truths = Truths /\ truths1 = Truths'
  OBVIOUS
<1>3. /\ Told(k, q, truths) => Told(k, q1, truths)
      /\ \A c, route : Learns(k, q, c, route) => Learns(k, q1, c, route)
  BY <1>2 DEF SameWords
<1>4. EndTold(b)'
  <2> SUFFICES ASSUME ~missed', UpToDate(b)', NEW c \in associations', Concerns(b, c)'
               PROVE  Learns(known'[b], Queue(b)', c, sourceRoutes'[c.src])
    BY DEF EndTold
  <2>1. UpToDate(b) /\ ~missed /\ c \in associations /\ Concerns(b, c)
    BY DEF Concerns
  <2>2. Learns(k, q, c, sourceRoutes[c.src])
    BY <1>1, <1>2, <2>1 DEF EndTold
  <2> QED
    BY <1>2, <1>3, <2>2
<1>5. OwnAssociations(b)'
  BY <1>1 DEF OwnAssociations, Concerns
<1>6. NothingElseTold(b)'
  <2> SUFFICES ASSUME b \notin interrupted PROVE Told(known'[b], Queue(b)', Truths')
    BY DEF NothingElseTold
  <2>1. Told(k, q1, truths)
    BY <1>1, <1>2, <1>3 DEF NothingElseTold
  <2>2. \A e \in truths : e \in truths1
    BY <1>2, TruthsStay
  <2>3. Told(k, q1, truths1)
    BY <2>1, <2>2 DEF Told
  <2> QED
    BY <1>2, <2>3
<1> QED
  BY <1>4, <1>5, <1>6 DEF KnowsItsOwn

\* So it does if what is queued is the same.
LEMMA KnowsAsBefore ==
    ASSUME NEW b \in Agents, KnowsItsOwn(b), UNCHANGED <<associations, sourceRoutes, outbox>>,
           missed => missed', known'[b] = known[b], toAgent'[b] = toAgent[b], ioNode'[b] = ioNode[b],
           b \in interrupted => b \in interrupted', ~missed' /\ UpToDate(b)' => UpToDate(b)
    PROVE  KnowsItsOwn(b)'
<1>1. Queue(b)' = Queue(b)
  BY DEF Queue
<1>2. SameWords(known[b], Queue(b), Queue(b)')
  BY <1>1 DEF SameWords
<1> QED
  BY <1>2, StillKnows

\* An agent that starts now gets to know nothing else as long as what is queued is
\* the same.
LEMMA QueuedAsBefore ==
    ASSUME KnowledgeInv, UNCHANGED <<associations, sourceRoutes, outbox>>, missed => missed'
    PROVE  Told({}, outbox, Truths)'
<1>1. PICK q, truths, truths1 : q = outbox /\ truths = Truths /\ truths1 = Truths'
  OBVIOUS
<1>2. Told({}, q, truths) /\ \A e \in truths : e \in truths1
  BY <1>1, TruthsStay DEF KnowledgeInv
<1>3. Told({}, q, truths1)
  BY <1>2 DEF Told
<1> QED
  BY <1>1, <1>3

\* An agent that knows nothing, and that nothing is underway to.
LEMMA KnowsNothing ==
    ASSUME AgentsInv', NEW b, known'[b] = {}, toAgent'[b] = <<>>, EndTold(b)', Told({}, outbox, Truths)'
    PROVE  KnowsItsOwn(b)'
<1>1. OwnAssociations(b)'
  BY DEF OwnAssociations
<1>2. outbox' \in Seq(SUBSET Events)
  BY DEF AgentsInv, AgentTypes
<1>3. <<>> \o outbox' = outbox'
  BY <1>2, ConcatEmptySeq
<1>4. Queue(b)' = outbox'
  BY <1>3 DEF Queue
<1>5. NothingElseTold(b)'
  BY <1>4 DEF NothingElseTold
<1> QED
  BY <1>1, <1>5 DEF KnowsItsOwn

\* Sending leaves what other agents have underway alone, and takes nothing away.
LEMMA SentQueues ==
    ASSUME AgentsInv, NEW a \in Agents, NEW type \in {"Advertise", "Deadvertise"},
           NEW node \in IoNodes, Send(a, type, node)
    PROVE  /\ \A b \in Agents \ {a} : toRouter'[b] = toRouter[b]
           /\ (\A p \in DOMAIN toRouter'[a] : toRouter'[a][p].type = "Advertise") =>
                  \A p \in DOMAIN toRouter[a] : toRouter[a][p].type = "Advertise"
<1>1. toRouter \in [Agents -> Seq(Messages)]
  BY DEF AgentsInv, AgentTypes
<1> DEFINE m == [type |-> type, node |-> node]
<1>2. m \in Messages
  BY DEF Messages
<1>3. CASE ~(listening /\ ~offline)
  BY <1>3 DEF Send
<1>4. CASE listening /\ ~offline
  <2>1. toRouter' = [toRouter EXCEPT ![a] = Append(toRouter[a], m)]
    BY <1>4 DEF Send
  <2> HIDE DEF m
  <2>2. PICK q : q = toRouter[a]
    OBVIOUS
  <2>3. q \in Seq(Messages) /\ toRouter'[a] = Append(q, m)
    BY <1>1, <2>1, <2>2
  <2>4. /\ DOMAIN q = 1 .. Len(q) /\ DOMAIN Append(q, m) = 1 .. (Len(q) + 1) /\ Len(q) \in Nat
        /\ \A p \in 1 .. Len(q) : Append(q, m)[p] = q[p]
    BY <1>2, <2>3, AppendFacts
  <2>5. \A p \in DOMAIN q : p \in DOMAIN Append(q, m) /\ Append(q, m)[p] = q[p]
    BY <2>4
  <2> QED
    BY <1>1, <2>1, <2>2, <2>3, <2>5
<1> QED
  BY <1>3, <1>4

\* Of an agent without a current node the router has nothing, once it has been
\* told so.
LEMMA NothingManagedOf ==
    ASSUME AgentsInv, NodesInTurn, NEW a \in Agents, \A n : ~(n.id[1] = a /\ Current(a, n)),
           \A p \in DOMAIN toRouter[a] : toRouter[a][p].type = "Advertise"
    PROVE  \A n \in ManagedNodes : n.id[1] # a
<1>1. PICK q : q = toRouter[a]
  OBVIOUS
<1>2. /\ q \in Seq(Messages)
      /\ \A p \in DOMAIN q : q[p].node.id[1] = a
      /\ \A p \in DOMAIN q : q[p].type = "Advertise" =>
            IF p = Len(q) THEN Current(a, q[p].node) ELSE q[p + 1].node = q[p].node
      /\ q = <<>> => \A n \in ManagedNodes : n.id[1] = a => Current(a, n)
  BY <1>1 DEF AgentsInv, AgentTypes, NodesInTurn, InTurn
<1>3. q = <<>>
  <2>1. ASSUME q # <<>> PROVE FALSE
    <3>1. Len(q) \in DOMAIN q
      BY <1>2, <2>1, TailFacts
    <3> QED
      BY <1>1, <1>2, <3>1
  <2> QED
    BY <2>1
<1> QED
  BY <1>2, <1>3

\* An agent that advertises a node when none of its was current is not told of
\* any association yet.
LEMMA NothingToTell ==
    ASSUME AgentsInv, ~missed => RouterInv /\ NodesInv,
           NEW a \in Agents, \A n : ~(n.id[1] = a /\ Current(a, n)),
           NEW node \in IoNodes, node.id[1] = a, Send(a, "Advertise", node), ioNode'[a] = node,
           associations' = associations
    PROVE  EndTold(a)'
<1> SUFFICES ASSUME ~missed', UpToDate(a)', NEW c \in associations, Concerns(a, c)'
             PROVE  FALSE
  BY DEF EndTold
<1>0. RouterInv /\ NodesInTurn
  BY DEF Send, NodesInv
<1>1. \A p \in DOMAIN toRouter'[a] : toRouter'[a][p].type = "Advertise"
  BY DEF UpToDate
<1>2. \A p \in DOMAIN toRouter[a] : toRouter[a][p].type = "Advertise"
  BY <1>1, SentQueues
<1>3. \A n \in ManagedNodes : n.id[1] # a
  BY <1>0, <1>2, NothingManagedOf
<1>4. \A k \in DOMAIN managed : managed[k].id[1] # a
  BY <1>3 DEF ManagedNodes
<1>5. OneEach(managed) /\ HasSource(managed, c.src) /\ HasActor(managed, c.act)
  BY <1>0 DEF RouterInv, AssociationsOfManaged
<1>6. c.src \notin DOMAIN node.ioSources /\ c.act \notin DOMAIN node.ioActors
  <2>1. PICK nodes, s, b : nodes = managed /\ s = c.src /\ b = c.act
    OBVIOUS
  <2>2. OneEach(nodes) /\ HasSource(nodes, s) /\ HasActor(nodes, b)
    BY <1>5, <2>1
  <2>3. \A k \in DOMAIN nodes : nodes[k].id[1] # a
    BY <1>4, <2>1
  <2>4. node \in IoNodes /\ node.id[1] = a
    OBVIOUS
  <2>5. s \notin DOMAIN node.ioSources /\ b \notin DOMAIN node.ioActors
    BY ONLY <2>2, <2>3, <2>4, NoneConcerns
  <2> QED
    BY <2>1, <2>5
<1>7. c.src \in DOMAIN ioNode'[a].ioSources \/ c.act \in DOMAIN ioNode'[a].ioActors
  BY DEF Concerns
<1> QED
  BY <1>6, <1>7

\* An agent starts, or is connected again.
LEMMA AdvertisedKnowledge ==
    ASSUME ~LateWills, AgentsInv, AgentsInv', KnowledgeInv, ~missed => RouterInv /\ NodesInv,
           NEW a \in Agents, AgentStarts(a) \/ AgentReconnects(a)
    PROVE  KnowledgeInv'
<1>1. /\ status[a] \in {"down", "offline"} /\ ~LastWillDue(a)
      /\ UNCHANGED <<known, interrupted, toAgent, outbox, associations, sourceRoutes>>
      /\ status' = [status EXCEPT ![a] = "up"]
      /\ missed => missed'
  BY DEF AgentStarts, AgentReconnects, RouterRests, linkVars, Send
<1>2. AgentTypes /\ AgentsFit
  BY DEF AgentsInv
<1>3. \A n : ~(n.id[1] = a /\ Current(a, n))
  BY <1>1 DEF Current, LastWillDue
<1>4. PICK node \in IoNodes :
         /\ node.id[1] = a /\ Send(a, "Advertise", node) /\ ioNode'[a] = node
         /\ \A b \in Agents \ {a} : ioNode'[b] = ioNode[b]
         /\ status[a] = "offline" => ioNode'[a] = ioNode[a]
  <2>1. CASE AgentStarts(a)
    <3>1. status[a] = "down"
      BY <2>1 DEF AgentStarts
    <3>2. PICK n \in NodesOf(a, restarts'[a]) : ioNode' = [ioNode EXCEPT ![a] = n] /\ Send(a, "Advertise", n)
      BY <2>1 DEF AgentStarts
    <3>3. n \in IoNodes /\ n.id[1] = a
      BY DEF NodesOf
    <3> QED
      BY <1>2, <3>1, <3>2, <3>3 DEF AgentTypes
  <2>2. CASE AgentReconnects(a)
    <3>1. status[a] = "offline" /\ Send(a, "Advertise", ioNode[a]) /\ ioNode' = ioNode
      BY <2>2 DEF AgentReconnects
    <3>2. ioNode[a] \in IoNodes /\ ioNode[a].id[1] = a
      BY <1>2, <3>1 DEF AgentsFit
    <3> QED
      BY <3>1, <3>2
  <2> QED
    BY <2>1, <2>2
<1>5. EndTold(a)' /\ Told({}, outbox, Truths)'
  BY <1>1, <1>3, <1>4, NothingToTell, QueuedAsBefore
<1>6. KnowsItsOwn(a)'
  <2>1. CASE status[a] = "down"
    <3>1. known'[a] = {} /\ toAgent'[a] = <<>>
      BY <1>1, <1>2, <2>1 DEF AgentsFit
    <3> QED
      BY <1>5, <3>1, KnowsNothing
  <2>2. CASE status[a] = "offline"
    <3>1. a \in interrupted' /\ ioNode'[a] = ioNode[a]
      BY <1>1, <1>2, <1>4, <2>2 DEF AgentsFit
    <3>2. OwnAssociations(a)
      BY DEF KnowledgeInv, KnowsItsOwn
    <3>3. OwnAssociations(a)'
      BY <1>1, <3>1, <3>2 DEF OwnAssociations, Concerns
    <3>4. NothingElseTold(a)'
      BY <3>1 DEF NothingElseTold
    <3> QED
      BY <1>5, <3>3, <3>4 DEF KnowsItsOwn
  <2> QED
    BY <1>1, <2>1, <2>2
<1>7. ASSUME NEW b \in Agents \ {a} PROVE KnowsItsOwn(b)'
  <2>1. toRouter'[b] = toRouter[b]
    BY <1>4, SentQueues
  <2>2. status'[b] = status[b]
    BY <1>1, <1>2 DEF AgentTypes
  <2>3. UpToDate(b)' => UpToDate(b)
    BY <2>1, <2>2 DEF UpToDate
  <2>4. KnowsItsOwn(b) /\ ioNode'[b] = ioNode[b]
    BY <1>4 DEF KnowledgeInv
  <2> QED
    BY <1>1, <2>3, <2>4, KnowsAsBefore
<1> QED
  BY <1>5, <1>6, <1>7 DEF KnowledgeInv

\* An agent without a process knows nothing.
LEMMA TerminatedKnowledge ==
    ASSUME AgentsInv, AgentsInv', KnowledgeInv, NEW a \in Agents, AgentStops(a) \/ AgentCrashes(a)
    PROVE  KnowledgeInv'
<1>1. /\ status[a] # "down" /\ Counted /\ Terminated(a)
      /\ UNCHANGED <<associations, sourceRoutes, outbox>> /\ (missed => missed')
  <2>1. status[a] # "down" /\ Counted /\ Terminated(a)
    BY DEF AgentStops, AgentCrashes
  <2>2. UNCHANGED <<associations, sourceRoutes, outbox>>
    BY <2>1 DEF Terminated, RouterRests, linkVars
  <2>3. missed => missed'
    BY DEF AgentStops, AgentCrashes, Send
  <2> QED
    BY <2>1, <2>2, <2>3
<1>2. AgentTypes /\ AgentsFit
  BY DEF AgentsInv
<1>3. /\ status'[a] = "down" /\ known'[a] = {} /\ toAgent'[a] = <<>>
      /\ interrupted' = interrupted \ {a}
      /\ \A b \in Agents \ {a} :
            /\ status'[b] = status[b] /\ ioNode'[b] = ioNode[b] /\ known'[b] = known[b]
            /\ toAgent'[b] = toAgent[b]
  BY <1>1, <1>2, TerminatedFacts
<1>4. \A b \in Agents \ {a} : toRouter'[b] = toRouter[b]
  <2>1. ioNode[a] \in IoNodes
    BY <1>1, <1>2 DEF AgentsFit
  <2>2. CASE AgentStops(a)
    <3>1. Send(a, "Deadvertise", ioNode[a])
      BY <2>2 DEF AgentStops
    <3> QED
      BY <2>1, <3>1, SentQueues
  <2>3. CASE AgentCrashes(a)
    BY <2>3 DEF AgentCrashes
  <2> QED
    BY <2>2, <2>3
<1>0. Told({}, outbox, Truths)'
  BY <1>1, QueuedAsBefore
<1>5. KnowsItsOwn(a)'
  <2>1. EndTold(a)'
    BY <1>3 DEF EndTold, UpToDate
  <2> QED
    BY <1>0, <1>3, <2>1, KnowsNothing
<1>6. ASSUME NEW b \in Agents \ {a} PROVE KnowsItsOwn(b)'
  <2>1. UpToDate(b)' => UpToDate(b)
    BY <1>3, <1>4 DEF UpToDate
  <2>2. KnowsItsOwn(b) /\ (b \in interrupted => b \in interrupted')
    BY <1>3 DEF KnowledgeInv
  <2> QED
    BY <1>1, <1>3, <2>1, <2>2, KnowsAsBefore
<1> QED
  BY <1>0, <1>5, <1>6 DEF KnowledgeInv

\* A last will, a lost connection or a discovery changes nothing of what an agent
\* knows, and gets no agent up to date.
LEMMA OtherKnowledge ==
    ASSUME AgentsInv, KnowledgeInv,
           \/ \E node \in wills : LastWillPublished(node)
           \/ \E a \in Agents : AgentDiscovered(a)
           \/ \E a \in Agents : AgentDisconnected(a)
    PROVE  KnowledgeInv'
<1>1. AgentTypes /\ AgentsFit /\ WillsInTurn
  BY DEF AgentsInv
<1>2. ASSUME NEW a \in Agents, NEW type \in {"Advertise", "Deadvertise"}, NEW node \in IoNodes,
             Send(a, type, node), RouterRests,
             UNCHANGED <<status, ioNode, known, interrupted, toAgent, outbox>>
      PROVE  KnowledgeInv'
  <2>1. \A b \in Agents : UpToDate(b)' => UpToDate(b)
    <3> SUFFICES ASSUME NEW b \in Agents, UpToDate(b)' PROVE UpToDate(b)
      OBVIOUS
    <3>1. status[b] = "up" /\ \A p \in DOMAIN toRouter'[b] : toRouter'[b][p].type = "Advertise"
      BY <1>2 DEF UpToDate
    <3>2. \A p \in DOMAIN toRouter[b] : toRouter[b][p].type = "Advertise"
      <4>1. CASE b = a
        BY <1>2, <3>1, <4>1, SentQueues
      <4>2. CASE b # a
        <5>1. toRouter'[b] = toRouter[b]
          BY <1>2, <4>2, SentQueues
        <5> QED
          BY <3>1, <5>1
      <4> QED
        BY <4>1, <4>2
    <3> QED
      BY <3>1, <3>2 DEF UpToDate
  <2>2. UNCHANGED <<associations, sourceRoutes>> /\ (missed => missed')
    BY <1>2 DEF RouterRests, Send
  <2>3. Told({}, outbox, Truths)'
    BY <1>2, <2>2, QueuedAsBefore
  <2> QED
    BY <1>2, <2>1, <2>2, <2>3, KnowsAsBefore DEF KnowledgeInv
<1>3. CASE \E node \in wills : LastWillPublished(node)
  <2>1. PICK node \in wills : LastWillPublished(node)
    BY <1>3
  <2>2. node \in IoNodes /\ node.id[1] \in Agents
    BY <1>1 DEF AgentTypes, WillsInTurn
  <2>3. /\ Send(node.id[1], "Deadvertise", node) /\ RouterRests
        /\ UNCHANGED <<status, ioNode, known, interrupted, toAgent, outbox>>
    BY <2>1 DEF LastWillPublished, agentVars, linkVars
  <2> QED
    BY <1>2, <2>2, <2>3
<1>4. CASE \E a \in Agents : AgentDiscovered(a)
  <2>1. PICK a \in Agents : AgentDiscovered(a)
    BY <1>4
  <2>2. /\ a \in discovered /\ Send(a, "Advertise", ioNode[a]) /\ RouterRests
        /\ UNCHANGED <<status, ioNode, known, interrupted, toAgent, outbox>>
    BY <2>1 DEF AgentDiscovered, agentVars, linkVars
  <2>3. ioNode[a] \in IoNodes
    BY <1>1, <2>2 DEF AgentTypes, AgentsFit
  <2> QED
    BY <1>2, <2>2, <2>3
<1>5. CASE \E a \in Agents : AgentDisconnected(a)
  <2>1. PICK a \in Agents : AgentDisconnected(a)
    BY <1>5
  <2>2. /\ status' = [status EXCEPT ![a] = "offline"]
        /\ interrupted' = interrupted \cup {a}
        /\ toAgent' = [toAgent EXCEPT ![a] = <<>>]
        /\ UNCHANGED <<associations, sourceRoutes, ioNode, known, toRouter, outbox, missed>>
    BY <2>1 DEF AgentDisconnected, RouterRests, linkVars
  <2>3. /\ status'[a] = "offline" /\ toAgent'[a] = <<>>
        /\ \A b \in Agents \ {a} : status'[b] = status[b] /\ toAgent'[b] = toAgent[b]
    BY <1>1, <2>2 DEF AgentTypes
  <2>4. KnowsItsOwn(a)'
    <3>1. OwnAssociations(a)
      BY DEF KnowledgeInv, KnowsItsOwn
    <3>2. OwnAssociations(a)'
      BY <2>2, <2>3, <3>1 DEF OwnAssociations, Concerns
    <3>3. EndTold(a)' /\ NothingElseTold(a)'
      BY <2>2, <2>3 DEF EndTold, UpToDate, NothingElseTold
    <3> QED
      BY <3>2, <3>3 DEF KnowsItsOwn
  <2>5. ASSUME NEW b \in Agents \ {a} PROVE KnowsItsOwn(b)'
    <3>1. UpToDate(b)' => UpToDate(b)
      BY <2>2, <2>3 DEF UpToDate
    <3> QED
      BY <2>2, <2>3, <3>1, KnowsAsBefore DEF KnowledgeInv
  <2>6. Told({}, outbox, Truths)'
    BY <2>2, QueuedAsBefore
  <2> QED
    BY <2>4, <2>5, <2>6 DEF KnowledgeInv
<1> QED
  BY <1>3, <1>4, <1>5

\* An agent handles Associate events: what it has been told becomes what it knows.
LEMMA AssociatedKnowledge ==
    ASSUME AgentsInv, KnowledgeInv, ~missed => RouterInv, NEW a \in Agents, AgentAssociates(a)
    PROVE  KnowledgeInv'
<1>1. /\ toAgent[a] # <<>>
      /\ known' = [known EXCEPT ![a] = Associated(a, Concerning(a, Head(toAgent[a])))]
      /\ toAgent' = [toAgent EXCEPT ![a] = Tail(toAgent[a])]
      /\ UNCHANGED <<associations, sourceRoutes, outbox, missed, status, ioNode, interrupted, toRouter>>
  BY DEF AgentAssociates, RouterRests, linkVars
<1>2. AgentTypes /\ AgentsFit
  BY DEF AgentsInv
<1>3. PICK k, q, k1, es : /\ k = known[a] /\ q = Queue(a) /\ k1 = known'[a]
                          /\ es = Concerning(a, Head(toAgent[a]))
  OBVIOUS
<1>4. /\ q \in Seq(SUBSET Events) /\ q # <<>>
      /\ q[1] = toAgent[a][1] /\ Tail(q) = Tail(toAgent[a]) \o outbox
  BY <1>1, <1>2, <1>3, QueueFacts DEF AgentTypes, Queue
<1>5. /\ Head(toAgent[a]) = q[1]
      /\ k1 = Associated(a, es) /\ Queue(a)' = Tail(q)
      /\ \A b \in Agents \ {a} : known'[b] = known[b] /\ toAgent'[b] = toAgent[b]
  <2>1. Head(toAgent[a]) = toAgent[a][1]
    BY <1>1, <1>2, TailFacts DEF AgentTypes
  <2>2. toAgent'[a] = Tail(toAgent[a])
    BY <1>1, <1>2 DEF AgentTypes
  <2>3. Queue(a)' = Tail(toAgent[a]) \o outbox
    BY <1>1, <2>2 DEF Queue
  <2> QED
    BY <1>1, <1>2, <1>3, <1>4, <2>1, <2>3 DEF AgentTypes
<1>6. \A e : e \in es <=> e \in q[1] /\ Concerns(a, e)
  BY <1>3, <1>5 DEF Concerning, Concerns
<1>7. EndTold(a) /\ OwnAssociations(a) /\ NothingElseTold(a)
  BY DEF KnowledgeInv, KnowsItsOwn
<1>8. \A e \in k : Concerns(a, e) /\ e.route # NoRoute
  BY <1>3, <1>7 DEF OwnAssociations
<1>9. \A e \in k1 : \/ e \in es /\ e.route # NoRoute
                    \/ e \in k /\ \A f \in q[1] : ~OfPair(f, e)
  <2>1. \A e \in k1 : \/ e \in es /\ e.route # NoRoute
                      \/ e \in k /\ \A f \in es : ~OfPair(f, e)
    BY <1>3, <1>5 DEF Associated, OfPair
  <2>2. \A e \in k, f \in q[1] : OfPair(f, e) => f \in es
    BY <1>6, <1>8 DEF OfPair, Concerns
  <2> QED
    BY <2>1, <2>2
<1>10. \A e \in es : e.route # NoRoute => e \in k1
  BY <1>5 DEF Associated
<1>11. \A e \in k : (\A f \in q[1] : ~OfPair(f, e) /\ (f.src = e.src => f.route \in {NoRoute, e.route}))
                       => e \in k1
  <2>1. \A e \in k : (\A f \in es : ~OfPair(f, e) /\ (f.src = e.src => f.route \in {NoRoute, e.route}))
                       => e \in k1
    BY <1>3, <1>5 DEF Associated, OfPair
  <2> QED
    BY <1>6, <2>1
<1>12. EndTold(a)'
  <2> SUFFICES ASSUME ~missed', UpToDate(a)', NEW c \in associations, Concerns(a, c)'
               PROVE  Learns(k1, Tail(q), c, sourceRoutes[c.src])
    BY <1>1, <1>3, <1>5 DEF EndTold
  <2>1. UpToDate(a) /\ Concerns(a, c) /\ ~missed
    BY <1>1 DEF UpToDate, Concerns
  <2>2. PICK route : route = sourceRoutes[c.src]
    OBVIOUS
  <2>3. Learns(k, q, c, route) /\ route # NoRoute
    BY <1>3, <1>7, <2>1, <2>2 DEF EndTold, RouterInv, AssociationsOfManaged
  <2>4. \A e \in q[1] : OfPair(e, c) /\ e.route # NoRoute => e \in k1
    BY <1>6, <1>10, <2>1 DEF OfPair, Concerns
  <2>5. \A e \in k :
           /\ OfPair(e, c) /\ e.route = route
           /\ \A f \in q[1] : ~OfPair(f, e) /\ (f.src = c.src => f.route \in {NoRoute, route})
           => e \in k1
    BY <1>11 DEF OfPair
  <2>6. Learns(k1, Tail(q), c, route)
    BY <1>4, <2>3, <2>4, <2>5, LearnsAfterTail
  <2> QED
    BY <2>2, <2>6
<1>13. OwnAssociations(a)'
  <2>1. \A e \in k1 : Concerns(a, e) /\ e.route # NoRoute
    BY <1>6, <1>8, <1>9
  <2>2. \A e : Concerns(a, e)' <=> Concerns(a, e)
    BY <1>1 DEF Concerns
  <2> QED
    BY <1>3, <2>1, <2>2 DEF OwnAssociations
<1>14. PICK truths, truths1 : truths = Truths /\ truths1 = Truths'
  OBVIOUS
<1>15. \A e \in truths : e \in truths1
  BY <1>1, <1>14, TruthsStay
<1>16. NothingElseTold(a)'
  <2> SUFFICES ASSUME a \notin interrupted PROVE Told(k1, Tail(q), truths1)
    BY <1>1, <1>3, <1>5, <1>14 DEF NothingElseTold
  <2>1. Told(k, q, truths)
    BY <1>3, <1>7, <1>14 DEF NothingElseTold
  <2>2. \A f \in k1 : \/ f \in q[1]
                      \/ f \in k /\ \A g \in q[1] : ~OfPair(g, f)
    BY <1>6, <1>9
  <2>3. ASSUME NEW p \in 0 .. Len(Tail(q)), NEW e \in View(k1, Tail(q), p),
               LastWord(k1, Tail(q), p, e), e.route # NoRoute
        PROVE  e \in truths1
    <3>1. PICK i \in 0 .. Len(q) : e \in View(k, q, i) /\ LastWord(k, q, i, e)
      BY <1>4, <2>2, <2>3, AfterTail
    <3> QED
      BY <1>15, <2>1, <2>3, <3>1 DEF Told
  <2> QED
    BY <2>3 DEF Told
<1>17. ASSUME NEW b \in Agents \ {a} PROVE KnowsItsOwn(b)'
  <2>1. UpToDate(b)' => UpToDate(b)
    BY <1>1 DEF UpToDate
  <2> QED
    BY <1>1, <1>5, <2>1, KnowsAsBefore DEF KnowledgeInv
<1>18. Told({}, outbox, Truths)'
  BY <1>1, QueuedAsBefore
<1> QED
  BY <1>12, <1>13, <1>16, <1>17, <1>18 DEF KnowledgeInv, KnowsItsOwn

\* What the router's agent publishes, maybe twice, is what agents get to know anyway.
LEMMA LinkKnowledge ==
    ASSUME AgentsInv, AgentsInv', KnowledgeInv, missed => missed', ~missed' => UNCHANGED toRouter,
           RouterPublishes \/ RouterDisconnected \/ RouterReconnects
    PROVE  KnowledgeInv'
<1>1. /\ UNCHANGED <<associations, sourceRoutes>>
      /\ UNCHANGED <<status, ioNode, known, interrupted>>
  BY DEF RouterPublishes, RouterDisconnected, RouterReconnects, RouterRests, agentVars
<1>2. /\ toAgent \in [Agents -> Seq(SUBSET Events)] /\ outbox \in Seq(SUBSET Events)
      /\ AgentsFit
  BY DEF AgentsInv, AgentTypes
<1>3. /\ \A b \in Agents : ~missed' /\ UpToDate(b)' => UpToDate(b)
      /\ \A b \in Agents : KnowsItsOwn(b)
  BY <1>1 DEF UpToDate, KnowledgeInv
<1>4. ASSUME UNCHANGED <<toAgent, outbox>> PROVE KnowledgeInv'
  BY <1>1, <1>3, <1>4, KnowsAsBefore, QueuedAsBefore DEF KnowledgeInv
<1>5. ASSUME outbox # <<>>, Deliver(Head(outbox)), UNCHANGED outbox PROVE KnowledgeInv'
  <2>1. ASSUME NEW b \in Agents PROVE KnowsItsOwn(b)'
    <3>1. CASE status[b] # "up"
      <4>1. toAgent'[b] = toAgent[b]
        BY <1>5, <3>1, DeliverFacts
      <4> QED
        BY <1>1, <1>3, <1>5, <4>1, KnowsAsBefore
    <3>2. CASE status[b] = "up"
      <4>1. PICK k, q, r : k = known[b] /\ q = toAgent[b] /\ r = outbox
        OBVIOUS
      <4>2. q \in Seq(SUBSET Events) /\ r \in Seq(SUBSET Events) /\ r # <<>>
        BY <1>2, <1>5, <4>1
      <4>3. toAgent'[b] = Append(q, Head(r))
        BY <1>5, <3>2, <4>1, DeliverFacts
      <4>4. Queue(b) = q \o r /\ Queue(b)' = Append(q, Head(r)) \o r
        BY <1>5, <4>1, <4>3 DEF Queue
      <4>5. SameWords(k, q \o r, Append(q, Head(r)) \o r)
        BY <4>2, Repeated
      <4>6. SameWords(known[b], Queue(b), Queue(b)')
        BY <4>1, <4>4, <4>5
      <4> QED
        BY <1>1, <1>3, <4>6, StillKnows
    <3> QED
      BY <3>1, <3>2
  <2> QED
    BY <1>1, <1>5, <2>1, QueuedAsBefore DEF KnowledgeInv
<1>6. ASSUME outbox # <<>>, Deliver(Head(outbox)), outbox' = Tail(outbox) PROVE KnowledgeInv'
  <2>1. PICK r, truths, truths1 : r = outbox /\ truths = Truths /\ truths1 = Truths'
    OBVIOUS
  <2>2. Told({}, r, truths) /\ \A e \in truths : e \in truths1
    BY <1>1, <2>1, TruthsStay DEF KnowledgeInv
  <2>3. ASSUME NEW p \in 0 .. Len(Tail(r)), NEW e \in View({}, Tail(r), p),
               LastWord({}, Tail(r), p, e), e.route # NoRoute
        PROVE  e \in truths1
    <3>1. r \in Seq(SUBSET Events) /\ r # <<>>
      BY <1>2, <1>6, <2>1
    <3>2. PICK i \in 0 .. Len(r) : e \in View({}, r, i) /\ LastWord({}, r, i, e)
      BY <2>3, <3>1, AfterTail
    <3> QED
      BY <2>2, <2>3, <3>2 DEF Told
  <2>4. Told({}, Tail(r), truths1)
    BY <2>3 DEF Told
  <2>5. Told({}, outbox, Truths)'
    BY <1>6, <2>1, <2>4
  <2>6. ASSUME NEW b \in Agents PROVE KnowsItsOwn(b)'
    <3>1. CASE status[b] = "up"
      <4>1. Queue(b)' = Append(toAgent[b], Head(outbox)) \o Tail(outbox)
        BY <1>6, <3>1, DeliverFacts DEF Queue
      <4>2. Queue(b)' = Queue(b)
        BY <1>2, <1>6, <4>1, QueueFacts DEF Queue
      <4>3. SameWords(known[b], Queue(b), Queue(b)')
        BY <4>2 DEF SameWords
      <4> QED
        BY <1>1, <1>3, <4>3, StillKnows
    <3>2. CASE status[b] = "offline"
      <4>1. EndTold(b)' /\ NothingElseTold(b)'
        BY <1>1, <1>2, <3>2 DEF EndTold, UpToDate, NothingElseTold, AgentsFit
      <4>2. OwnAssociations(b)'
        BY <1>1, <1>3 DEF KnowsItsOwn, OwnAssociations, Concerns
      <4> QED
        BY <4>1, <4>2 DEF KnowsItsOwn
    <3>3. CASE status[b] = "down"
      <4>1. known'[b] = {} /\ toAgent'[b] = <<>>
        BY <1>1, <1>2, <1>6, <3>3, DeliverFacts DEF AgentsFit
      <4>2. EndTold(b)'
        BY <1>1, <3>3 DEF EndTold, UpToDate
      <4> QED
        BY <2>5, <4>1, <4>2, KnowsNothing
    <3> QED
      BY <3>1, <3>2, <3>3 DEF AgentsInv, AgentTypes
  <2> QED
    BY <2>5, <2>6 DEF KnowledgeInv
<1> QED
  BY <1>4, <1>5, <1>6 DEF RouterPublishes, RouterDisconnected, RouterReconnects

\* When the router crashes, agents may have missed something.
LEMMA CrashKnowledge ==
    ASSUME AgentsInv, AgentsInv', KnowledgeInv, RouterCrashes
    PROVE  KnowledgeInv'
<1>0. /\ associations' = {} /\ interrupted' = {a \in Agents : status[a] # "down"}
      /\ outbox' = <<>>
      /\ UNCHANGED <<status, ioNode, known, toAgent>>
  BY DEF RouterCrashes
<1>1. Told({}, outbox, Truths)'
  <2>1. PICK truths1 : truths1 = Truths'
    OBVIOUS
  <2>2. \A p \in 0 .. Len(<<>>) : p = 0
    OBVIOUS
  <2>3. Told({}, <<>>, truths1)
    BY <2>2 DEF Told, View
  <2> QED
    BY <1>0, <2>1, <2>3
<1>2. ASSUME NEW a \in Agents PROVE KnowsItsOwn(a)'
  <2>1. EndTold(a)'
    BY <1>0 DEF EndTold
  <2>2. OwnAssociations(a)
    BY DEF KnowledgeInv, KnowsItsOwn
  <2>3. OwnAssociations(a)'
    BY <1>0, <2>2 DEF OwnAssociations, Concerns
  <2>4. CASE status[a] = "down"
    <3>1. known'[a] = {} /\ toAgent'[a] = <<>>
      BY <1>0, <2>4 DEF AgentsInv, AgentsFit, AgentTypes
    <3> QED
      BY <1>1, <2>1, <3>1, KnowsNothing
  <2>5. CASE status[a] # "down"
    <3>1. NothingElseTold(a)'
      BY <1>0, <2>5 DEF NothingElseTold
    <3> QED
      BY <2>1, <2>3, <3>1 DEF KnowsItsOwn
  <2> QED
    BY <2>4, <2>5
<1> QED
  BY <1>1, <1>2 DEF KnowledgeInv

------------------------------------------------------------------------------
(* The inductive invariant                                                   *)

LEMMA InitInv == Init => IoRoutingInv
<1> SUFFICES ASSUME Init PROVE IoRoutingInv
  OBVIOUS
<1>1. /\ listening = FALSE /\ ioContext \in Contexts /\ rules \in RuleSets /\ managed = <<>>
      /\ sourceRoutes = [s \in SourceIds |-> NoRoute] /\ associations = {}
      /\ status = [a \in Agents |-> "down"] /\ restarts = [a \in Agents |-> 0]
      /\ ioNode = [a \in Agents |-> NoNode] /\ known = [a \in Agents |-> {}]
      /\ interrupted = {} /\ toRouter = [a \in Agents |-> <<>>] /\ discovered = {}
      /\ toAgent = [a \in Agents |-> <<>>] /\ wills = {} /\ events = 0
      /\ offline = FALSE /\ outbox = <<>> /\ missed = FALSE
  BY DEF Init, RouterInit
<1>2. ManagedNodes = {}
  BY <1>1 DEF ManagedNodes
<1>3. RouterInv
  <2>1. MapOfNodes(managed) /\ OneEach(managed)
    BY <1>1, EmptySeq DEF MapOfNodes, OneEach
  <2> QED
    BY <1>1, <2>1 DEF RouterInv, RouterTypes, OwnRoutes, AssociationsOfManaged
<1>4. AgentTypes
  <2>1. <<>> \in Seq(Messages) /\ <<>> \in Seq(SUBSET Events)
    BY EmptySeq
  <2>2. 0 \in 0 .. MaxRestarts /\ 0 \in 0 .. MaxEvents
    BY BoundsAssumption
  <2>3. /\ status \in [Agents -> {"down", "offline", "up"}]
        /\ restarts \in [Agents -> 0 .. MaxRestarts]
        /\ ioNode \in [Agents -> IoNodes \cup {NoNode}]
    BY <1>1, <2>2
  <2>4. /\ known \in [Agents -> SUBSET Events]
        /\ toRouter \in [Agents -> Seq(Messages)]
        /\ toAgent \in [Agents -> Seq(SUBSET Events)]
        /\ outbox \in Seq(SUBSET Events)
    BY <1>1, <2>1
  <2> QED
    BY <1>1, <2>2, <2>3, <2>4 DEF AgentTypes
<1>5. AgentsInv
  BY <1>1, <1>4 DEF AgentsInv, AgentsFit, WillsInTurn, StoppedRouter
<1>6. NodesInv
  BY <1>1, <1>2 DEF NodesInv, NodesInTurn, InTurn, UpIsAdvertised, ManagedOfAgents
<1>7. KnowledgeInv
  <2>1. Told({}, <<>>, Truths)
    <3>1. \A p \in 0 .. Len(<<>>) : p = 0
      OBVIOUS
    <3> QED
      BY <3>1 DEF Told, View
  <2>2. ASSUME NEW a \in Agents PROVE KnowsItsOwn(a)
    <3>1. known[a] = {} /\ toAgent[a] = <<>>
      BY <1>1
    <3>2. Queue(a) = <<>>
      BY <1>1, <3>1, EmptySeq, ConcatEmptySeq DEF Queue
    <3>3. EndTold(a) /\ OwnAssociations(a)
      BY <1>1, <3>1 DEF EndTold, OwnAssociations
    <3>4. NothingElseTold(a)
      BY <2>1, <3>1, <3>2 DEF NothingElseTold
    <3> QED
      BY <3>3, <3>4 DEF KnowsItsOwn
  <2> QED
    BY <1>1, <2>1, <2>2 DEF KnowledgeInv
<1> QED
  BY <1>3, <1>5, <1>6, <1>7 DEF IoRoutingInv, RouterInv

\* A step of agents is one at which the router rests.
LEMMA RestingStep ==
    ASSUME IoRoutingInv, RouterRests, AgentsInv', KnowledgeInv', missed => missed',
           NodesInv /\ ~missed' => NodesInTurn' /\ UpIsAdvertised'
    PROVE  IoRoutingInv'
<1>1. RouterTypes /\ (~missed => RouterInv /\ NodesInv)
  BY DEF IoRoutingInv
<1>2. RouterTypes' /\ (RouterInv => RouterInv')
  BY <1>1, NothingPublished DEF RouterRests
<1>3. ManagedOfAgents => ManagedOfAgents'
  BY DEF RouterRests, ManagedOfAgents, ManagedNodes
<1>4. ~missed' => RouterInv' /\ NodesInv'
  BY <1>1, <1>2, <1>3 DEF NodesInv
<1> QED
  BY <1>2, <1>4 DEF IoRoutingInv

\* A step of the router by which it publishes what changes.
LEMMA PublishingStep ==
    ASSUME IoRoutingInv, RouterTypes', AgentsInv', PublishesChanges, missed' = missed,
           RouterInv /\ NodesInv => RouterInv' /\ NodesInv' /\ PublishesRoutes /\ GetsUpToDate,
           Enqueue, UNCHANGED agentVars, UNCHANGED toAgent
    PROVE  IoRoutingInv'
<1>1. RouterTypes /\ AgentsInv /\ KnowledgeInv /\ (~missed => RouterInv /\ NodesInv)
  BY DEF IoRoutingInv
<1>2. ~missed' => RouterInv' /\ NodesInv' /\ PublishesRoutes /\ GetsUpToDate
  BY <1>1
<1>3. KnowledgeInv'
  BY <1>1, <1>2, PublishStep
<1> QED
  BY <1>2, <1>3 DEF IoRoutingInv

LEMMA NextInv ==
    ASSUME ~LateWills, IoRoutingInv, [Next]_vars
    PROVE  IoRoutingInv'
<1>1. /\ RouterTypes /\ AgentsInv /\ KnowledgeInv
      /\ ~missed => RouterInv /\ NodesInv
  BY DEF IoRoutingInv
<1>2. ASSUME NEW a \in Agents, AgentStarts(a) PROVE IoRoutingInv'
  <2>1. RouterRests
    BY <1>2 DEF AgentStarts
  <2>2. /\ AgentsInv' /\ (missed => missed')
        /\ NodesInv /\ ~missed' => NodesInTurn' /\ UpIsAdvertised'
    BY <1>1, <1>2, AgentStartsStep
  <2>3. KnowledgeInv'
    BY <1>1, <1>2, <2>2, AdvertisedKnowledge
  <2> QED
    BY <2>1, <2>2, <2>3, RestingStep
<1>3. ASSUME NEW a \in Agents, AgentStops(a) PROVE IoRoutingInv'
  <2>1. RouterRests
    BY <1>3 DEF AgentStops, Terminated
  <2>2. /\ AgentsInv' /\ (missed => missed')
        /\ NodesInv /\ ~missed' => NodesInTurn' /\ UpIsAdvertised'
    BY <1>1, <1>3, AgentStopsStep
  <2>3. KnowledgeInv'
    BY <1>1, <1>3, <2>2, TerminatedKnowledge
  <2> QED
    BY <2>1, <2>2, <2>3, RestingStep
<1>4. ASSUME NEW a \in Agents, AgentCrashes(a) PROVE IoRoutingInv'
  <2>1. RouterRests
    BY <1>4 DEF AgentCrashes, Terminated
  <2>2. /\ AgentsInv' /\ (missed => missed')
        /\ NodesInv /\ ~missed' => NodesInTurn' /\ UpIsAdvertised'
    BY <1>1, <1>4, AgentCrashesStep
  <2>3. KnowledgeInv'
    BY <1>1, <1>4, <2>2, TerminatedKnowledge
  <2> QED
    BY <2>1, <2>2, <2>3, RestingStep
<1>5. ASSUME NEW a \in Agents, AgentDisconnected(a) PROVE IoRoutingInv'
  <2>1. RouterRests
    BY <1>5 DEF AgentDisconnected
  <2>2. /\ AgentsInv' /\ (missed => missed')
        /\ NodesInv /\ ~missed' => NodesInTurn' /\ UpIsAdvertised'
    BY <1>1, <1>5, AgentDisconnectedStep
  <2>3. KnowledgeInv'
    BY <1>1, <1>5, <2>2, OtherKnowledge
  <2> QED
    BY <2>1, <2>2, <2>3, RestingStep
<1>6. ASSUME NEW a \in Agents, AgentReconnects(a) PROVE IoRoutingInv'
  <2>1. RouterRests
    BY <1>6 DEF AgentReconnects
  <2>2. /\ AgentsInv' /\ (missed => missed')
        /\ NodesInv /\ ~missed' => NodesInTurn' /\ UpIsAdvertised'
    BY <1>1, <1>6, AgentReconnectsStep
  <2>3. KnowledgeInv'
    BY <1>1, <1>6, <2>2, AdvertisedKnowledge
  <2> QED
    BY <2>1, <2>2, <2>3, RestingStep
<1>7. ASSUME NEW a \in Agents, AgentDiscovered(a) PROVE IoRoutingInv'
  <2>1. RouterRests
    BY <1>7 DEF AgentDiscovered
  <2>2. /\ AgentsInv' /\ (missed => missed')
        /\ NodesInv /\ ~missed' => NodesInTurn' /\ UpIsAdvertised'
    BY <1>1, <1>7, AgentDiscoveredStep
  <2>3. KnowledgeInv'
    BY <1>1, <1>7, <2>2, OtherKnowledge
  <2> QED
    BY <2>1, <2>2, <2>3, RestingStep
<1>8. ASSUME NEW a \in Agents, AgentAssociates(a) PROVE IoRoutingInv'
  <2>1. RouterRests
    BY <1>8 DEF AgentAssociates
  <2>2. /\ AgentsInv' /\ (missed => missed')
        /\ NodesInv /\ ~missed' => NodesInTurn' /\ UpIsAdvertised'
    BY <1>1, <1>8, AgentAssociatesStep
  <2>3. KnowledgeInv'
    BY <1>1, <1>8, <2>2, AssociatedKnowledge
  <2> QED
    BY <2>1, <2>2, <2>3, RestingStep
<1>9. ASSUME NEW node \in wills, LastWillPublished(node) PROVE IoRoutingInv'
  <2>1. RouterRests
    BY <1>9 DEF LastWillPublished
  <2>2. /\ AgentsInv' /\ (missed => missed')
        /\ NodesInv /\ ~missed' => NodesInTurn' /\ UpIsAdvertised'
    BY <1>1, <1>9, LastWillStep
  <2>3. KnowledgeInv'
    BY <1>1, <1>9, OtherKnowledge
  <2> QED
    BY <2>1, <2>2, <2>3, RestingStep
<1>10. ASSUME NEW a \in Agents, RouterReceives(a) PROVE IoRoutingInv'
  <2>1. /\ RouterTypes' /\ AgentsInv' /\ PublishesChanges
        /\ RouterInv /\ NodesInv => RouterInv' /\ NodesInv' /\ PublishesRoutes /\ GetsUpToDate
    BY <1>1, <1>10, RouterReceivesStep
  <2>2. missed' = missed /\ Enqueue /\ UNCHANGED agentVars /\ UNCHANGED toAgent
    BY <1>10 DEF RouterReceives
  <2> QED
    BY <2>1, <2>2, PublishingStep
<1>11. ASSUME RouterStarts PROVE IoRoutingInv'
  <2>1. /\ RouterTypes' /\ AgentsInv' /\ PublishesChanges
        /\ RouterInv /\ NodesInv => RouterInv' /\ NodesInv' /\ PublishesRoutes /\ GetsUpToDate
    BY <1>1, <1>11, RouterStartsStep
  <2>2. missed' = missed /\ Enqueue /\ UNCHANGED agentVars /\ UNCHANGED toAgent
    BY <1>11 DEF RouterStarts
  <2> QED
    BY <2>1, <2>2, PublishingStep
<1>12. ASSUME RouterChanges PROVE IoRoutingInv'
  <2>1. /\ RouterTypes' /\ AgentsInv' /\ PublishesChanges
        /\ RouterInv /\ NodesInv => RouterInv' /\ NodesInv' /\ PublishesRoutes /\ GetsUpToDate
    BY <1>1, <1>12, RouterChangesStep
  <2>2. missed' = missed /\ Enqueue /\ UNCHANGED agentVars /\ UNCHANGED toAgent
    BY <1>12 DEF RouterChanges
  <2> QED
    BY <2>1, <2>2, PublishingStep
<1>13. ASSUME RouterPublishes \/ RouterDisconnected \/ RouterReconnects PROVE IoRoutingInv'
  <2>1. /\ RouterTypes' /\ AgentsInv' /\ (missed => missed')
        /\ RouterInv => RouterInv'
        /\ NodesInv /\ ~missed' => NodesInv' /\ UNCHANGED toRouter
    BY <1>1, <1>13, RouterLinkStep
  <2>2. ~missed' => RouterInv' /\ NodesInv' /\ UNCHANGED toRouter
    BY <1>1, <2>1
  <2>3. KnowledgeInv'
    BY <1>1, <1>13, <2>1, <2>2, LinkKnowledge
  <2> QED
    BY <2>1, <2>2, <2>3 DEF IoRoutingInv
<1>14. ASSUME RouterStops PROVE IoRoutingInv'
  <2>1. /\ RouterTypes' /\ AgentsInv' /\ PublishesChanges /\ associations' = {}
        /\ RouterInv' /\ NodesInv' /\ PublishesRoutes /\ GetsUpToDate
    BY <1>1, <1>14, RouterStopsStep
  <2>2. Enqueue /\ UNCHANGED agentVars /\ UNCHANGED toAgent
    BY <1>14 DEF RouterStops
  <2>3. KnowledgeInv'
    BY <1>1, <2>1, <2>2, PublishStep
  <2> QED
    BY <2>1, <2>3 DEF IoRoutingInv
<1>15. ASSUME RouterCrashes PROVE IoRoutingInv'
  <2>1. RouterInv' /\ AgentsInv' /\ NodesInv'
    BY <1>1, <1>15, RouterCrashesStep
  <2>2. KnowledgeInv'
    BY <1>1, <1>15, <2>1, CrashKnowledge
  <2> QED
    BY <2>1, <2>2 DEF IoRoutingInv, RouterInv
<1>16. ASSUME UNCHANGED vars PROVE IoRoutingInv'
  <2>1. /\ UNCHANGED <<listening, ioContext, rules, managed, sourceRoutes, associations>>
        /\ UNCHANGED <<status, restarts, ioNode, known, interrupted, offline, outbox, missed>>
        /\ UNCHANGED <<toRouter, discovered, toAgent, wills, events>>
    BY <1>16 DEF vars, routerVars, agentVars, linkVars
  <2>2. ManagedNodes' = ManagedNodes
    BY <2>1 DEF ManagedNodes
  <2>3. RouterTypes' /\ (RouterInv => RouterInv')
    <3>1. RouterTypes'
      BY <1>1, <2>1 DEF RouterTypes
    <3>2. AssociationsOfManaged => AssociationsOfManaged'
      BY <2>1 DEF AssociationsOfManaged
    <3> QED
      BY <2>1, <3>1, <3>2 DEF RouterInv
  <2>4. AgentsInv'
    BY <1>1, <2>1 DEF AgentsInv, AgentTypes, AgentsFit, WillsInTurn, StoppedRouter
  <2>5. NodesInv => NodesInv'
    <3>1. ASSUME NodesInv PROVE NodesInTurn'
      <4>1. \A b \in Agents : StaysCurrent(b)
        BY <2>1 DEF StaysCurrent, Current
      <4>2. ASSUME NEW b \in Agents PROVE InTurn(b, toRouter[b], ManagedNodes)'
        <5>1. InTurn(b, toRouter[b], ManagedNodes)
          BY <3>1 DEF NodesInv, NodesInTurn
        <5> QED
          BY <2>1, <2>2, <4>1, <5>1, StayInTurn
      <4> QED
        BY <4>2 DEF NodesInTurn
    <3>2. UpIsAdvertised => UpIsAdvertised'
      BY <2>1, <2>2 DEF UpIsAdvertised
    <3>3. ManagedOfAgents => ManagedOfAgents'
      BY <2>2 DEF ManagedOfAgents
    <3> QED
      BY <3>1, <3>2, <3>3 DEF NodesInv
  <2>6. KnowledgeInv'
    <3>1. Told({}, outbox, Truths)'
      BY <1>1, <2>1, QueuedAsBefore
    <3>2. ASSUME NEW b \in Agents PROVE KnowsItsOwn(b)'
      <4>1. KnowsItsOwn(b)
        BY <1>1 DEF KnowledgeInv
      <4>2. UpToDate(b)' => UpToDate(b)
        BY <2>1 DEF UpToDate
      <4> QED
        BY <2>1, <4>1, <4>2, KnowsAsBefore
    <3> QED
      BY <3>1, <3>2 DEF KnowledgeInv
  <2> QED
    BY <1>1, <2>1, <2>3, <2>4, <2>5, <2>6 DEF IoRoutingInv
<1> QED
  BY <1>2, <1>3, <1>4, <1>5, <1>6, <1>7, <1>8, <1>9, <1>10, <1>11, <1>12, <1>13, <1>14, <1>15, <1>16 DEF Next

------------------------------------------------------------------------------
(* Theorems                                                                  *)
(*                                                                           *)
(* Their hypothesis ~LateWills says that a restarted agent has its former    *)
(* identity, and with it its former MQTT client id: the broker publishes the *)
(* last will of the former session before the agent is connected again.      *)

\* The inductive invariant holds.  Of a router that has missed nothing since it
\* started it says that each agent advertises and deadvertises its IO node in turn,
\* also by its last will (_joinBinding), so that the router manages one node of
\* each agent (_ioNodeAdvertised, _ioNodesDeadvertised), and tells each agent of its
\* associations (_act).  Of any router, also of one that has lost its connection
\* and does not discover IO nodes again (onCommunicationManagerStarting), it says
\* that the last which is queued, underway or known of a pair is what it holds.
THEOREM IoRoutingInvariant ==
    ASSUME ~LateWills PROVE Spec => []IoRoutingInv
<1>1. Init => IoRoutingInv
  BY InitInv
<1>2. IoRoutingInv /\ [Next]_vars => IoRoutingInv'
  BY NextInv
<1> QED
  BY <1>1, <1>2, PTL DEF Spec

\* The association that an agent which has missed nothing knows of is one that
\* the router holds, when no message is underway.  It has the route of its source
\* if the router has missed nothing either.
LEMMA KnownIsTrue ==
    ASSUME IoRoutingInv, Quiet, NEW a \in Agents \ interrupted, NEW k \in known[a]
    PROVE  \E c \in associations :
              OfPair(k, c) /\ k.rate = c.rate /\ (~missed => k.route = sourceRoutes[c.src])
<1>1. Queue(a) = <<>>
  BY EmptySeq, ConcatEmptySeq DEF Quiet, Queue
<1>2. OwnAssociations(a) /\ Told(known[a], <<>>, Truths)
  BY <1>1 DEF IoRoutingInv, KnowledgeInv, KnowsItsOwn, NothingElseTold
<1>3. k.route # NoRoute
  BY <1>2 DEF OwnAssociations
<1>4. 0 \in 0 .. Len(<<>>) /\ k \in View(known[a], <<>>, 0)
  BY DEF View
<1>5. LastWord(known[a], <<>>, 0, k)
  BY <1>4 DEF LastWord
<1>6. k \in Truths
  BY <1>2, <1>3, <1>4, <1>5 DEF Told
<1> QED
  BY <1>6 DEF Truths

\* An association is a source, an actor and a rate.
LEMMA SameAssociation ==
    ASSUME NEW c \in Associations, NEW k, OfPair(k, c), k.rate = c.rate
    PROVE  [src |-> k.src, act |-> k.act, rate |-> k.rate] = c
BY DEF Associations, OfPair

\* The router manages the IO nodes of the agents that are connected.
LEMMA InformedRouterKnowsNodes == IoRoutingInv => RouterKnowsNodes
<1> SUFFICES ASSUME IoRoutingInv, Informed
             PROVE  ManagedNodes = {ioNode[a] : a \in {b \in Agents : status[b] = "up" /\ HasIoPoints(ioNode[b])}}
  BY DEF RouterKnowsNodes, ManagedNodes
<1>1. RouterInv /\ NodesInTurn /\ UpIsAdvertised /\ ManagedOfAgents
  BY DEF IoRoutingInv, NodesInv, Informed
<1>2. listening /\ wills = {} /\ discovered = {} /\ \A a \in Agents : toRouter[a] = <<>>
  BY DEF Informed, Quiet
<1>3. ASSUME NEW n \in ManagedNodes
      PROVE  \E a \in Agents : status[a] = "up" /\ ioNode[a] = n /\ HasIoPoints(n)
  <2>1. PICK a \in Agents : a = n.id[1]
    BY <1>1 DEF ManagedOfAgents
  <2>2. Current(a, n)
    BY <1>1, <1>2, <2>1 DEF NodesInTurn, InTurn
  <2>3. status[a] = "up" /\ ioNode[a] = n
    BY <1>2, <2>2 DEF Current
  <2>4. HasIoPoints(n)
    BY <1>1 DEF RouterInv, RouterTypes, MapOfNodes, ManagedNodes
  <2> QED
    BY <2>3, <2>4
<1>4. ASSUME NEW a \in Agents, status[a] = "up", HasIoPoints(ioNode[a])
      PROVE  ioNode[a] \in ManagedNodes
  BY <1>1, <1>2, <1>4 DEF UpIsAdvertised
<1> QED
  BY <1>3, <1>4

\* An association uses the route of its source.
LEMMA InformedRouteOfSource == IoRoutingInv => RouteOfSource
<1> SUFFICES ASSUME IoRoutingInv, Informed, NEW a \in Agents \ interrupted, NEW k \in known[a]
             PROVE  k.route = SourceIn(managed, k.src).route
  BY DEF RouteOfSource
<1>1. OneEach(managed) /\ OwnRoutes(managed, sourceRoutes) /\ AssociationsOfManaged /\ RouterTypes
  BY DEF IoRoutingInv, RouterInv, Informed
<1>2. PICK c \in associations : OfPair(k, c) /\ k.route = sourceRoutes[c.src]
  BY KnownIsTrue DEF Informed
<1>3. k.src = c.src /\ c.src \in SourceIds /\ sourceRoutes[c.src] # NoRoute
  BY <1>1, <1>2 DEF AssociationsOfManaged, RouterTypes, Associations, OfPair
<1>4. PICK j \in DOMAIN managed :
         c.src \in DOMAIN managed[j].ioSources /\ sourceRoutes[c.src] = managed[j].ioSources[c.src].route
  BY <1>1, <1>3 DEF OwnRoutes
<1>5. SourceIn(managed, c.src) = managed[j].ioSources[c.src]
  BY <1>1, <1>4, PointsAreUnique
<1> QED
  BY <1>2, <1>3, <1>4, <1>5

\* RouterConsistent holds, whatever agents, IO points and rules there are: an IO
\* router that has received what it is told since it started, through lost
\* connections and restarts of agents (_ioNodeAdvertised, _ioNodesDeadvertised),
\* manages the IO nodes that are there, and sources publish to their own routes
\* (associate).  It says nothing of a router that has lost its connection and missed
\* something: that one does not discover IO nodes again.
THEOREM RouterIsConsistent ==
    ASSUME ~LateWills PROVE Spec => []RouterConsistent
<1>1. IoRoutingInv => TypeOK
  <2> SUFFICES ASSUME IoRoutingInv PROVE TypeOK
    OBVIOUS
  <2>1. RouterTypes /\ MapOfNodes(managed) /\ AgentTypes
    BY DEF IoRoutingInv, RouterTypes, AgentsInv
  <2>2. managed \in Seq(IoNodes) /\ \A j, k \in DOMAIN managed : managed[j].id = managed[k].id => j = k
    BY <2>1 DEF MapOfNodes
  <2>3. DOMAIN sourceRoutes = SourceIds
    BY <2>1 DEF RouterTypes
  <2>4. \A c \in associations : c.src \in SourceIds /\ c.act \in ActorIds /\ c.rate \in Nat
    BY <2>1 DEF RouterTypes, Associations
  <2> QED
    BY <2>1, <2>2, <2>3, <2>4 DEF TypeOK, RouterTypes, AgentTypes
<1>2. IoRoutingInv => RouterConsistent
  BY <1>1, InformedRouterKnowsNodes, InformedRouteOfSource DEF RouterConsistent
<1> QED
  BY <1>2, IoRoutingInvariant, PTL

\* AssociationsEstablished holds: what a router that has missed nothing publishes
\* when it evaluates its rules (_act) is enough for both ends of an association to
\* know of it, although what it publishes while an agent is not connected is lost.
THEOREM AssociationsAreEstablished ==
    ASSUME ~LateWills PROVE Spec => []AssociationsEstablished
<1>1. IoRoutingInv => AssociationsEstablished
  <2> SUFFICES ASSUME IoRoutingInv, Informed, NEW c \in associations,
                      NEW a \in Agents, status[a] = "up", Concerns(a, c)
               PROVE  \E k \in known[a] : [src |-> k.src, act |-> k.act, rate |-> k.rate] = c
    BY DEF AssociationsEstablished, Concerns
  <2>1. ~missed /\ toRouter[a] = <<>> /\ Queue(a) = <<>>
    BY EmptySeq, ConcatEmptySeq DEF Informed, Quiet, Queue
  <2>2. EndTold(a)
    BY DEF IoRoutingInv, KnowledgeInv, KnowsItsOwn
  <2>3. Learns(known[a], <<>>, c, sourceRoutes[c.src])
    BY <2>1, <2>2 DEF EndTold, UpToDate
  <2>4. PICK p \in 0 .. Len(<<>>) : \E e \in View(known[a], <<>>, p) :
           OfPair(e, c) /\ e.rate = c.rate
    BY <2>3 DEF Learns
  <2>5. p = 0
    OBVIOUS
  <2>6. PICK k \in known[a] : OfPair(k, c) /\ k.rate = c.rate
    BY <2>4, <2>5 DEF View
  <2>7. c \in Associations
    BY DEF IoRoutingInv, RouterTypes
  <2> QED
    BY <2>6, <2>7, SameAssociation
<1> QED
  BY <1>1, IoRoutingInvariant, PTL

\* NoGhostAssociations holds: an agent that has not lost its connection is told of
\* each association that has ended (disassociate), also by a router that stops,
\* and although the router may have missed something: what it publishes while it
\* is not connected is queued and published when it has reconnected.
THEOREM NoGhostsAreLeft ==
    ASSUME ~LateWills PROVE Spec => []NoGhostAssociations
<1>1. IoRoutingInv => NoGhostAssociations
  <2> SUFFICES ASSUME IoRoutingInv, Quiet, NEW a \in Agents \ interrupted, NEW k \in known[a]
               PROVE  [src |-> k.src, act |-> k.act, rate |-> k.rate] \in associations
    BY DEF NoGhostAssociations
  <2>1. PICK c \in associations : OfPair(k, c) /\ k.rate = c.rate
    BY KnownIsTrue
  <2>2. c \in Associations
    BY DEF IoRoutingInv, RouterTypes
  <2> QED
    BY <2>1, <2>2, SameAssociation
<1> QED
  BY <1>1, IoRoutingInvariant, PTL

==============================================================================

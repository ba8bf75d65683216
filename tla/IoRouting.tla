------------------------------ MODULE IoRouting ------------------------------
(***************************************************************************)
(* IO routing between agents: one RuleBasedIoRouter, the agents that host  *)
(* IO nodes, and the broker between them.                                  *)
(*                                                                         *)
(* An agent advertises its IO node when it joins and on each reconnection, *)
(* resolves it when discovered, and has it deadvertised by its unjoin      *)
(* event or its last will (communication-manager.ts: _joinBinding,         *)
(* _observeDiscoverIoNodes).  A restarted agent has a new IO node with a   *)
(* new object id, but IO points keep the ids of the configuration.         *)
(* Module IoAssociation has the bookkeeping of an agent in detail; here an *)
(* agent knows, for each pair it has an end of, the route and the rate it  *)
(* has been associated with.                                               *)
(*                                                                         *)
(* Messages between one agent and the router keep their order, as          *)
(* publications of one client do.  The last will comes in order as well if *)
(* the restarted agent has the same identity, hence the same client id:    *)
(* the broker then ends the old session first.                             *)
(*                                                                         *)
(* The router's own agent may lose its connection as well.  What it        *)
(* publishes meanwhile is queued in its binding until it reconnects, but   *)
(* what others publish meanwhile never reaches it: it only discovers IO    *)
(* nodes when it is started.                                               *)
(***************************************************************************)
EXTENDS RuleBasedIoRouter

CONSTANTS
    Agents,         \* agents that host an IO node
    MaxRestarts,    \* bound on the incarnations of each agent
    LateWills,      \* a restarted agent has a new identity
    MaxEvents       \* bound on stops, crashes, losses, and changes

\* The k-th incarnation of an agent advertises an IO node of its own; all
\* nodes with its id are ways to configure it.
NodesOf(a, k) == {n \in IoNodes : n.id = <<a, k>>}

\* Every agent has an IO node to advertise.  The object ids of IO points are
\* unique, so that an IO point is part of one agent only.
ASSUME NodesAssumption ==
    /\ \A a \in Agents, k \in 1 .. MaxRestarts : NodesOf(a, k) # {}
    /\ \A n, m \in IoNodes :
          \/ n.id[1] = m.id[1]
          \/ /\ DOMAIN n.ioSources \cap DOMAIN m.ioSources = {}
             /\ DOMAIN n.ioActors \cap DOMAIN m.ioActors = {}

ASSUME BoundsAssumption ==
    MaxRestarts \in Nat /\ MaxEvents \in Nat /\ LateWills \in BOOLEAN

\* No IO node: the agent is not running.
NoNode == [id |-> <<>>, ioSources |-> <<>>, ioActors |-> <<>>]

VARIABLES
    status,         \* of an agent: "down", "offline" or "up"
    restarts,       \* number of incarnations of an agent
    ioNode,         \* the IO node of an agent's current incarnation
    known,          \* associations that an agent knows of
    interrupted,    \* agents that may have missed Associate events while
                    \* they kept their associations
    offline,        \* the router's agent has lost its connection
    outbox,         \* publications queued in the binding of the router's agent
    missed,         \* a message has not reached the router since it started
    toRouter,       \* messages from each agent to the router
    discovered,     \* agents that a Discover event is underway to
    toAgent,        \* Associate events underway to each agent
    wills,          \* IO nodes whose last will has not been published yet
    events          \* number of events counted against MaxEvents

agentVars == <<status, restarts, ioNode, known, interrupted>>
linkVars == <<offline, outbox>>
vars == <<routerVars, agentVars, linkVars, missed, toRouter, discovered, toAgent, wills,
          events>>

Messages == [type : {"Advertise", "Deadvertise"}, node : IoNodes]

TypeOK ==
    /\ listening \in BOOLEAN
    /\ ioContext \in Contexts
    /\ rules \in RuleSets
    /\ managed \in Seq(IoNodes)
    /\ \A j, k \in DOMAIN managed : managed[j].id = managed[k].id => j = k
    /\ DOMAIN sourceRoutes = SourceIds
    /\ \A c \in associations : c.src \in SourceIds /\ c.act \in ActorIds /\ c.rate \in Nat
    /\ status \in [Agents -> {"down", "offline", "up"}]
    /\ restarts \in [Agents -> 0 .. MaxRestarts]
    /\ ioNode \in [Agents -> IoNodes \cup {NoNode}]
    /\ offline \in BOOLEAN
    /\ missed \in BOOLEAN
    /\ toRouter \in [Agents -> Seq(Messages)]
    /\ discovered \subseteq Agents
    /\ interrupted \subseteq Agents
    /\ wills \subseteq IoNodes
    /\ events \in 0 .. MaxEvents

Init ==
    /\ RouterInit
    /\ status = [a \in Agents |-> "down"]
    /\ restarts = [a \in Agents |-> 0]
    /\ ioNode = [a \in Agents |-> NoNode]
    /\ known = [a \in Agents |-> {}]
    /\ interrupted = {}
    /\ offline = FALSE
    /\ outbox = <<>>
    /\ missed = FALSE
    /\ toRouter = [a \in Agents |-> <<>>]
    /\ discovered = {}
    /\ toAgent = [a \in Agents |-> <<>>]
    /\ wills = {}
    /\ events = 0

\* Something happens that the model bounds.
Counted == events < MaxEvents /\ events' = events + 1

------------------------------------------------------------------------------
(* Messages                                                                *)

\* An event of agent a reaches the router if it is connected.
Send(a, type, node) ==
    /\ toRouter' = IF listening /\ ~offline
                   THEN [toRouter EXCEPT ![a] = Append(@, [type |-> type, node |-> node])]
                   ELSE toRouter
    /\ missed' = (missed \/ (listening /\ offline))

\* The Associate events among es that concern an IO point of agent a: all of them
\* are delivered to all agents.
Concerning(a, es) ==
    {e \in es : \/ e.src \in DOMAIN ioNode[a].ioSources
                \/ e.act \in DOMAIN ioNode[a].ioActors}

\* What the router publishes is queued first.
Enqueue == outbox' = IF published' = {} THEN outbox ELSE Append(outbox, published')

\* Associate events go to the agents that are connected.
Deliver(es) ==
    toAgent' = [a \in Agents |-> IF status[a] = "up" THEN Append(toAgent[a], es) ELSE toAgent[a]]

------------------------------------------------------------------------------
(* Agents                                                                  *)

\* An earlier session of the agent has a last will that is not published yet.
LastWillDue(a) == \E n \in wills : n.id[1] = a

\* The agent is started, maybe once more, and advertises its new IO node.
AgentStarts(a) ==
    /\ status[a] = "down"
    /\ restarts[a] < MaxRestarts
    /\ LateWills \/ ~LastWillDue(a)
    /\ restarts' = [restarts EXCEPT ![a] = @ + 1]
    /\ status' = [status EXCEPT ![a] = "up"]
    /\ \E n \in NodesOf(a, restarts'[a]) :
          /\ ioNode' = [ioNode EXCEPT ![a] = n]
          /\ Send(a, "Advertise", n)
    /\ RouterRests
    /\ UNCHANGED <<linkVars, known, interrupted, discovered, toAgent, wills, events>>

\* Without a process: no associations, and nothing gets through to it.
Terminated(a) ==
    /\ status' = [status EXCEPT ![a] = "down"]
    /\ ioNode' = [ioNode EXCEPT ![a] = NoNode]
    /\ known' = [known EXCEPT ![a] = {}]
    /\ interrupted' = interrupted \ {a}
    /\ discovered' = discovered \ {a}
    /\ toAgent' = [toAgent EXCEPT ![a] = <<>>]
    /\ RouterRests
    /\ UNCHANGED <<linkVars, restarts>>

\* stop(): the unjoin event deadvertises the IO node.
AgentStops(a) ==
    /\ status[a] = "up"
    /\ Counted
    /\ Terminated(a)
    /\ Send(a, "Deadvertise", ioNode[a])
    /\ UNCHANGED wills

\* The agent crashes, maybe while it is offline and its last will is due or
\* has been published already.
AgentCrashes(a) ==
    /\ status[a] # "down"
    /\ Counted
    /\ Terminated(a)
    /\ wills' = IF status[a] = "up" THEN wills \cup {ioNode[a]} ELSE wills
    /\ UNCHANGED <<missed, toRouter>>

\* The broker notices a broken connection when its keep alive time is over,
\* or when a client with the same client id connects.
LastWillPublished(n) ==
    /\ n \in wills
    /\ wills' = wills \ {n}
    /\ Send(n.id[1], "Deadvertise", n)
    /\ RouterRests
    /\ UNCHANGED <<agentVars, linkVars, discovered, toAgent, events>>

\* The connection is lost; the agent keeps what it knows of associations.
AgentDisconnected(a) ==
    /\ status[a] = "up"
    /\ Counted
    /\ status' = [status EXCEPT ![a] = "offline"]
    /\ interrupted' = interrupted \cup {a}
    /\ discovered' = discovered \ {a}
    /\ toAgent' = [toAgent EXCEPT ![a] = <<>>]
    /\ wills' = wills \cup {ioNode[a]}
    /\ RouterRests
    /\ UNCHANGED <<linkVars, missed, restarts, ioNode, known, toRouter>>

\* Fault: the join events are only published once.
AgentReconnectsSilently(a) ==
    /\ status[a] = "offline"
    /\ ~LastWillDue(a)
    /\ status' = [status EXCEPT ![a] = "up"]
    /\ RouterRests
    /\ UNCHANGED <<linkVars, missed, restarts, ioNode, known, interrupted, toRouter,
                   discovered, toAgent, wills, events>>

\* The agent reconnects with the same client id, so the last will has been
\* published.  The join events are published again.
AgentReconnects(a) ==
    /\ status[a] = "offline"
    /\ ~LastWillDue(a)
    /\ status' = [status EXCEPT ![a] = "up"]
    /\ Send(a, "Advertise", ioNode[a])
    /\ RouterRests
    /\ UNCHANGED <<linkVars, restarts, ioNode, known, interrupted, discovered,
                   toAgent, wills, events>>

\* The IO node is resolved when it is discovered.
AgentDiscovered(a) ==
    /\ a \in discovered
    /\ discovered' = discovered \ {a}
    /\ Send(a, "Advertise", ioNode[a])
    /\ RouterRests
    /\ UNCHANGED <<agentVars, linkVars, toAgent, wills, events>>

\* What an agent knows after Associate events: a source that changes its
\* route leaves the actors on its former one.
Associated(a, es) ==
    {k \in known[a] :
        /\ \A e \in es : <<e.src, e.act>> # <<k.src, k.act>>
        /\ ~\E e \in es : /\ e.src = k.src
                          /\ e.src \in DOMAIN ioNode[a].ioSources
                          /\ e.route \notin {NoRoute, k.route}}
    \cup {e \in es : e.route # NoRoute}

\* _handleAssociate()
AgentAssociates(a) ==
    /\ toAgent[a] # <<>>
    /\ known' = [known EXCEPT ![a] = Associated(a, Concerning(a, Head(toAgent[a])))]
    /\ toAgent' = [toAgent EXCEPT ![a] = Tail(@)]
    /\ RouterRests
    /\ UNCHANGED <<linkVars, missed, status, restarts, ioNode, interrupted, toRouter,
                   discovered, wills, events>>

------------------------------------------------------------------------------
(* The router                                                              *)

\* An IO node is advertised, resolved or deadvertised.
RouterReceives(a) ==
    /\ toRouter[a] # <<>>
    /\ \/ /\ Head(toRouter[a]).type = "Advertise"
          /\ IoNodeAdvertised(Head(toRouter[a]).node)
       \/ /\ Head(toRouter[a]).type = "Deadvertise"
          /\ IoNodeDeadvertised(Head(toRouter[a]).node.id)
    /\ toRouter' = [toRouter EXCEPT ![a] = Tail(@)]
    /\ Enqueue
    /\ UNCHANGED <<agentVars, offline, missed, discovered, toAgent, wills, events>>

\* The router's agent joins, once its former session has been left: it observes
\* IO nodes, then discovers those that have been advertised before.
RouterStarts ==
    /\ ~offline /\ outbox = <<>>
    /\ RouterStarted
    /\ Enqueue
    /\ discovered' = {a \in Agents : status[a] = "up"}
    /\ UNCHANGED <<agentVars, offline, missed, toRouter, toAgent, wills, events>>

\* The context is updated by an event, or the rules change.
RouterChanges ==
    /\ Counted
    /\ \/ \E c \in Contexts \ {ioContext} : ~offline /\ IoContextChanged(c)
       \/ \E rs \in RuleSets \ {rules} : listening /\ DefineRules(rs)
    /\ Enqueue
    /\ UNCHANGED <<agentVars, offline, missed, toRouter, discovered, toAgent, wills>>

\* The binding of the router's agent publishes what it has queued.
RouterPublishes ==
    /\ ~offline
    /\ outbox # <<>>
    /\ Deliver(Head(outbox))
    /\ outbox' = Tail(outbox)
    /\ RouterRests
    /\ UNCHANGED <<agentVars, offline, missed, toRouter, discovered, wills, events>>

\* What is underway to the router is lost.
NothingUnderway == toRouter' = [a \in Agents |-> <<>>]

\* The router's agent loses its connection, maybe when a publication has been
\* delivered but its callback has not been called: that one is published again.
RouterDisconnected ==
    /\ Counted
    /\ ~offline
    /\ listening \/ outbox # <<>>
    /\ offline' = TRUE
    /\ missed' = (missed \/ \E a \in Agents : toRouter[a] # <<>>)
    /\ NothingUnderway
    /\ \/ UNCHANGED toAgent
       \/ outbox # <<>> /\ Deliver(Head(outbox))
    /\ RouterRests
    /\ UNCHANGED <<agentVars, outbox, discovered, wills>>

\* It reconnects: the router observes IO nodes again, but does not discover them.
RouterReconnects ==
    /\ offline
    /\ offline' = FALSE
    /\ RouterRests
    /\ UNCHANGED <<agentVars, outbox, missed, toRouter, discovered, toAgent, wills, events>>

\* A late answer to the router's Discover event finds no observer.
SessionLost ==
    /\ NothingUnderway
    /\ discovered' = {}
    /\ missed' = FALSE

\* The router's agent is stopped, maybe without a connection.
RouterStops ==
    /\ Counted
    /\ RouterStopped
    /\ Enqueue
    /\ SessionLost
    /\ UNCHANGED <<agentVars, offline, toAgent, wills>>

\* The router's agent crashes, or a publication fails after it has been stopped,
\* which ends its client: nobody is told, and it forgets everything.
RouterCrashes ==
    /\ Counted
    /\ listening \/ offline \/ outbox # <<>>
    /\ listening' = FALSE
    /\ managed' = <<>>
    /\ sourceRoutes' = [s \in SourceIds |-> NoRoute]
    /\ associations' = {}
    /\ published' = {}
    /\ offline' = FALSE
    /\ outbox' = <<>>
    /\ interrupted' = {a \in Agents : status[a] # "down"}
    /\ SessionLost
    /\ UNCHANGED <<ioContext, rules, status, restarts, ioNode, known, toAgent, wills>>

Next ==
    \/ \E a \in Agents :
          \/ AgentStarts(a)
          \/ AgentStops(a)
          \/ AgentCrashes(a)
          \/ AgentDisconnected(a)
          \/ AgentReconnects(a)
          \/ AgentDiscovered(a)
          \/ AgentAssociates(a)
          \/ RouterReceives(a)
    \/ \E n \in wills : LastWillPublished(n)
    \/ RouterStarts
    \/ RouterChanges
    \/ RouterPublishes
    \/ RouterDisconnected
    \/ RouterReconnects
    \/ RouterStops
    \/ RouterCrashes

Spec == Init /\ [][Next]_vars

------------------------------------------------------------------------------
(* Properties                                                              *)

\* No message is underway.
Quiet ==
    /\ \A a \in Agents : toRouter[a] = <<>> /\ toAgent[a] = <<>>
    /\ outbox = <<>>
    /\ discovered = {}
    /\ wills = {}

\* A router that has received all messages since it started.
Informed == Quiet /\ listening /\ ~missed

\* A router that is informed manages exactly the IO nodes with IO points of the
\* connected agents: through restarts of agents and router, lost connections, and
\* nodes that are both advertised and discovered.
RouterKnowsNodes ==
    Informed =>
        {managed[k] : k \in DOMAIN managed} =
            {ioNode[a] : a \in {b \in Agents : status[b] = "up" /\ HasIoPoints(ioNode[b])}}

\* When the router is informed, the agents at both ends of each association that
\* it holds know of it, with its update rate: also if it has been established
\* while the router was not connected.
AssociationsEstablished ==
    Informed =>
        \A c \in associations, a \in {b \in Agents : status[b] = "up"} :
            \/ /\ c.src \notin DOMAIN ioNode[a].ioSources
               /\ c.act \notin DOMAIN ioNode[a].ioActors
            \/ \E k \in known[a] : [src |-> k.src, act |-> k.act, rate |-> k.rate] = c

\* When all messages have been received, an agent that has not lost its
\* connection knows of no association that the router does not hold, whatever
\* the router has missed.
NoGhostAssociations ==
    Quiet =>
        \A a \in Agents \ interrupted : \A k \in known[a] :
            [src |-> k.src, act |-> k.act, rate |-> k.rate] \in associations

\* When the router is informed, an association uses the route that its source is
\* configured with now: an actor does not listen on a former route after the
\* source's agent has been restarted with another one.
RouteOfSource ==
    Informed =>
        \A a \in Agents \ interrupted : \A k \in known[a] :
            k.route = SourceIn(managed, k.src).route

\* The router manages the IO nodes that are there, and publishes to sources
\* the routes of their own IO nodes.
RouterConsistent == TypeOK /\ RouterKnowsNodes /\ RouteOfSource

==============================================================================

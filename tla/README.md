# Verification of coaty-js

TLA+ models of the Coaty JS framework (`src/`): what the communication layer
of an agent, its controllers and its databases promise, checked with TLC on
small instances and, for the modules at the core, proved with TLAPS for all
instances.

The source is single-threaded JavaScript. A handler, a promise continuation or
a synchronous RxJS callback runs to completion, so **one handler is one
action**; all interleaving is between handlers, between callbacks and the code
that calls them, and between an agent and the broker or a database server.
Nothing of the communication layer is persisted: a crash of an agent looks to
others like a lost connection.

## Inventory

Paths are relative to `src/src/`.

| Component | State | Operations | What is hard | What makes it correct |
|---|---|---|---|---|
| Binding protocol, `com/communication-binding.ts` | state, listeners | join, unjoin, publish, subscribe, unsubscribe | calls in any order | joined and unjoined once; promise of unjoin |
| MQTT binding, `com/mqtt/mqtt-binding.ts` | client, publication queue, drain flag, issued subscriptions, join options | the above; handlers connect, offline, close, error, message; publish callbacks | reconnects, callbacks that never run, last will | order, no loss, no stall, subscriptions in sync, join events first, unjoin event last |
| MQTT topics, `com/mqtt/mqtt-topic.ts` | none | build, parse, validate, match | wildcards | filters match exactly the intended topics |
| Communication manager, lifecycle | binding, operating and communication state | start, restart, stop, onDispose | a binding unjoins in the background of its successor | one live binding, states as reported, restart completes |
| Communication manager, requests | `_observedRequests` and subscribers | observe, (un)subscribe, dispatch | callbacks change what is being walked through | nobody left out, nobody served twice |
| Communication manager, responses | `_observedResponses` | publish a request, subscribe to its responses | publishing on the first subscription, late responses | no response missed, none misdirected |
| Communication manager, IO | `_ioSourceItems`, `_ioActorItems`, observed IO states | handle Associate events, observe, stop | route changes, order of events | subscribed routes, both ends agree, states current |
| Communication events, `com/*.ts` | none | validate, convert to and from JSON, match | both ends validate | what one end accepts the other does |
| IO routers, `io-routing/*router.ts` | managed nodes, routes, current associations | IO nodes (de)advertised, rules evaluated | lost and late events | associations of agents follow the rules |
| IO controllers, `io-routing/io-*-controller.ts` | subjects and subscriptions per IO point | publish, observe, restart | pacing, reregistration, observers that publish | states as reported, values in order, the last one arrives |
| Controllers, `controller/` | object registry, object cache, pending requests | advertise, deadvertise, resolve | late answers | registry follows the objects alive; no caller rejected |
| Container, runtime, `runtime/` | controllers, identity | resolve, register, shutdown | callbacks that register controllers | each controller starts and stops in turn |
| Object model, `model/` | none | match filters and joins, check types | types of values | matches as documented |
| Database core and in-memory adapter, `db/` | collections, iterators | insert, update, delete, find, query, join, aggregate | callbacks that change what is iterated | results as documented, iterations end |
| PostgreSQL and SQLite adapters, `db/adapter-*` | pool, clients, connection, transaction in progress | transaction, statement, query in chunks or row by row | shared connections, breaks, failing steps | transactions are atomic, clients are released |
| Historian, `db/historian-controller.ts` | database context | store, advertise and retrieve snapshots | objects that change, collections that are cleared | stored before advertised, as taken |
| Sensor Things, `sensor-things/` | sensors, timers, subscriptions, observed things and sensors | register, unregister, publish, query, observe | sources that come, go, crash and lose their connection | registered sensors are found, others are gone |
| Utilities, `util/` | none | async loops, timeouts, binary search, deep compare | boundaries | as documented |
| Platform glue, `runtime-node/`, `runtime-angular/` | none | | | |

**Interaction.** Application code and controllers call the communication
manager. The manager calls the binding (join, unjoin, publish, subscribe,
unsubscribe); the binding emits communication states and inbound events to the
manager, which dispatches them to RxJS subscribers, synchronously. IO routers
publish Associate events, which the managers of other agents handle by
themselves; they report IO states to IO controllers. The container tells
controllers when the manager starts and stops. The binding drives an MQTT.js
client, which reaches the broker and, through it, other agents. The historian
calls a database context, which calls an adapter in promises of its own.

The hazards of this code, each at its line, are listed in `PROJECT.json`
together with the properties that cover them.

## Modules

| Module | Models | Extended or used by |
|---|---|---|
| `BindingLifecycle` | the abstract binding: lifecycle, link to the infrastructure, promise of `unjoin()` | refined by `MqttBinding`; used by each binding in `Container` |
| `MqttBinding` | `MqttBinding` on `CommunicationBinding` with MQTT.js and the broker | `MCMqttBinding`, `MqttBindingProofs` |
| `ManagerLifecycle` | start, restart, stop and dispose of the manager over a row of bindings | `Container` |
| `Container` | controllers of a container and their callbacks | `MCManagerLifecycle`, `ContainerProofs` |
| `ObservedRequests` | observables for one kind of inbound event, their subscribers and the dispatch loop | run directly, `ObservedRequestsProofs` |
| `ResponseEvents` | requests with responses: correlation ids, lazy publication, dispatch, stop | `ObjectCache` |
| `ObjectCache` | the object cache as a client of `ResponseEvents` | `MCObjectCache`, `ObjectCacheProofs` |
| `IoAssociation` | IO associations in the manager of one agent | run directly, `IoAssociationProofs` |
| `RuleBasedIoRouter` | the rule-based IO router and its base class: managed nodes, rules, rates, routes | `IoRouting` |
| `IoRouting` | a router, the agents that host IO nodes, and the broker between them | `MCIoRouting`, `IoRoutingProofs` |
| `IoSourceController`, `IoActorController` | the IO controllers of an IO source and an IO actor | `IoPoints` |
| `IoPoints` | both, each with its manager, and the values between them | run directly, `IoPointsProofs` |
| `JsonValues` | JavaScript values; equality, containment and copies | `CoreTypes`, `ObjectMatcher` |
| `CoreTypes` | type checks of Coaty and Sensor Things objects | `CommunicationEvents` |
| `ObjectMatcher` | filters, LIKE patterns and the matching of objects | `CommunicationEvents` |
| `CommunicationEvents` | event data: validation, JSON, responses against requests, filters of observers | `MessageData` |
| `MqttTopics` | topics; what is published and subscribed on them, and inbound messages | `MessageData` |
| `PostgresFilters` | WHERE clauses of the PostgreSQL adapter, and what the server selects by them | `MessageData` |
| `MessageData` | binary search and insertion; evaluates these pure algorithms, one subject at a time | `MCMessageData` |
| `SensorNetwork` | messages between a source agent and an observer agent | `SensorSource`, `SensorObserver` |
| `SensorSource` | the sensor source controller and the thing that its agent advertises | `SensorThings` |
| `SensorObserver` | the observer controllers of things, sensors and observations, and the object lifecycle registry | `SensorThings` |
| `SensorThings` | both agents together | run directly |
| `InMemoryAdapter` | what operations of the in-memory adapter compute | `Database` |
| `Database` | a database context: calls in microtasks, iterators with callbacks | `Historian` |
| `Historian` | the historian with other users of its database | `MCDatabase` |
| `SqlTransactions` | transactions, statements and the pool or connection they run on | `SqlCursors`, `SqliteRows` |
| `SqlCursors` | PostgreSQL queries in chunks from a cursor | `SqlAdapters` |
| `SqliteRows` | SQLite queries row by row | `SqlAdapters` |
| `SqlAdapters` | all of them with several callers | `MCSqlTransactions`, `SqlAdaptersProofs` |

Operators named "Fault: ..." in the comments are plausible mistakes. No
specification uses them; substituting one for the operator after it shows that
a property can fail. A property of a run may be a conjunction of named parts,
stated one by one before it; each part has such a fault as well.

## How state and actions correspond to the code

### MqttBinding

| Variable | Code |
|---|---|
| `state` | `CommunicationBinding._state` |
| `client` | `_client`: `none` (undefined), `offline`, `connected`, `ending` (after `end()`) |
| `pending`, `draining`, `issued` | `_pendingPublicationItems`, `_isDrainingPublications`, `_issuedSubscriptionItems` |
| `inflight` | the item whose publish callback is awaited, a closure in `_doDrainPublications` |
| `promise` | the promise of `unjoin()` |
| `session`, `brokerSubs`, `wire`, `lastSeen` | the broker: open session, its subscriptions, what was written in it, what others saw last |
| `online` | the communication state emitted last |
| `nextId`, `accepted`, `live`, `handed`, `losses` | history for the properties |

`Publish`, `Subscribe`, `Unsubscribe`, `Join`, `UnjoinInitialized` and
`UnjoinJoined` are the operations; `Connect`, `LoseConnection`, `ConnectFails`
and `ClientError` the handlers; `Published` is the publish callback, `Ended`
the callback of `client.end()`. A callback that MQTT.js runs within `publish()`
is one that runs as the next step. Encoding appears as `BadPayload` (encoding
throws), topics as `BadTopic`, `BadSubs` and `Topic`. `_removeSubscriptionItem`
does nothing for a subscription that is not issued, so `Unsubscribe` requires
it.

MQTT.js and the broker are external: publishing without a connection fails at
once (`queueQoSZero` is false), a callback that still waits when the connection
breaks never runs, sessions are clean, and the last will is published when a
session ends other than in order. MQTT.js closes the connection of a client
that is ending; if it breaks first, the last will may be published although the
unjoin event has been written. Both are the same event.

### ManagerLifecycle

`binding[g]` is the g-th binding with its state, link and promise, `current` is
`_binding`, `calls` are `start(options)` and `stop()` calls that are not yet
resolved, `observers` counts the subscribers made by `_joinBinding`. `Patient`
says whether callers wait for an earlier call, as the documentation of `stop()`
requests. `ClientError` is the "error" handler of a binding: the manager reports
Offline although the session stays open, until the next connect. `errors` is
history, the bindings in which that has happened, so that
`CommunicationStateCurrent` says exactly when the reported state is the one of
the session. `start(options)` unjoins in `StartWithOptions` and joins in
`StartResolved`, its continuation. After `Dispose` no call is made, because the
container has dropped the manager; continuations of earlier calls still run.

### ObservedRequests

One request id, for ids share nothing. The action that runs a callback is
`DispatchNext`; until the next iteration, operations are those of the callback
it invoked (`ApplicationActs`). Two switches state what applications do: 
`HoldObservables` (keep an observable and subscribe to it later) and
`UnsubscribeOthers` (a callback unsubscribes a subscriber other than its own).
No run sets them, because the code does not support either. An observable
subscribed after its item has been cleaned up is dead, and one kept over a
`stop()` cleans up its successor when it is unsubscribed, so
`OpenSubscribersReceive` needs the assumption that observables are subscribed
as soon as they are returned. The dispatch loop counts an index down: a
callback that unsubscribes a subscriber in front of it shifts the array, and
the same subscriber is called again, so `DeliveredAtMostOnce` needs the
assumption that callbacks only unsubscribe themselves.

### IoAssociation

`_ioActorItems`, maps of maps of arrays that are deleted as soon as they are
empty, is the relation `ioActorItems`. `HandleAssociate` is the whole handler
`_handleAssociate`, with the bookkeeping for a local source, for a local actor
and the IO states dispatched afterwards, in this order. `routed` is what the IO
router holds to be associated, since a router only disassociates what it has
associated; otherwise events are unconstrained, as after restarts of a router.

### RuleBasedIoRouter, IoRouting

`managed`, `sourceRoutes`, `associations` and `rules` are `_managedIoNodes`,
`_sourceRoutes`, `_currentAssociations` and `_rules`; `published` is the set of
Associate events of one handler, which concern different pairs. A handler
evaluates all rules anew (`EvaluateRules`): `Match`, `Resolve`, and the
difference to `associations`. An undefined rate is 0, below all others.

`IoRouting` adds the agents (`AgentStarts`, `AgentStops`, `AgentCrashes`,
`AgentDisconnected`, `AgentReconnects`, `AgentDiscovered`, `AgentAssociates`),
with their IO node, which gets a new object id on each start, and what they
know of associations (`known`); the messages between each agent and the router,
in order; and the router's own starts, stops, crashes and changes of rules and
context. What an agent misses while it is not connected is lost. `wills` holds
the IO nodes of broken connections until the broker publishes their last will.
An agent that reconnects has its former client id, so the broker ends the old
session first. The client id is made from the agent's identity, so the same is
true of a restarted agent if its identity is configured; `LateWills` says that
it is not, and the last will may come after the restart.
`interrupted` marks agents that keep associations over a lost
connection or a crash of the router; they may keep some that were dissolved
meanwhile, as nobody tells them.

The router's own agent loses its connection as well (`RouterDisconnected`,
`RouterReconnects`, `offline`). What is underway to it is lost then, and what
agents publish until it reconnects never gets to it: `missed` remembers that this
has happened since the router started, because the code discovers IO nodes only
in `onCommunicationManagerStarting`. What the router publishes is queued by its
binding (`outbox`, `Enqueue`) and written while it is connected
(`RouterPublishes`); an event whose publish callback is lost with the connection
is published twice. The router starts again only when its former session has
been left and its queue is empty, as callers that wait for `stop()` have it; if
the last publications of a stopping router fail, that is a crash
(`RouterCrashes`). The events of one handler are one item of the queue.

### Container

| Variable | Code |
|---|---|
| `entries` | `_controllers`, in the order in which `Map.forEach` visits them |
| `dispatch` | the callback loop that is running, and its position |
| `listening` | `_operatingStateSubscription` |
| `shutdown` | `_isShutdown` |
| `created`, `told`, `nested`, `replaced`, `odd` | history: controllers and what each has been told last |

`CallController` runs one callback (`onInit`, `onCommunicationManagerStarting`,
`onCommunicationManagerStopping`, `onDispose`); between two of them the
callback may register a controller (`RegisterController`), which the running
loop visits if it is in front of it. `ManagerCalled` is a call of the manager
by the application, or `start()` within `onInit`; `Continues` lets promises of
`ManagerLifecycle` go on when no callback is being made. `CallbacksAlternate`
excludes controllers that are registered within a callback: the code tells them
twice (see the known deviations).

### ResponseEvents, ObjectCache

| Variable | Code |
|---|---|
| `session`, `issued`, `issuedIn` | the number of the binding, correlation ids, and the binding they belong to |
| `observedResponses`, `subscribers` | `_observedResponses` and the subscribers of each item |
| `bound` | response subscriptions issued to the binding |
| `finished` | `_hasLastObserverUnsubscribed` |
| `published`, `answers` | publications per request, and responses under way |
| `status`, `request`, `first`, `taken`, `loop` | the subscribers, and the dispatch loop with its position |
| `running`, `objectCache`, `pending`, `got` | the object cache: manager started, cached object, `_pendingRequests`, what callers have got |

`Subscribe` publishes the request if it is the first subscriber; `Leaves` is
the teardown of one; `Receive`, `DispatchNext`, `CallbackReturns` and
`DispatchEnds` are one dispatch of a response, with operations in callbacks in
between. `ResolveObject` is `resolveObject()`, `Cacher` the cache's own
subscriber. `ResolveInCallbacks` and `HoldObservables` are switches for usage
that the code does not support; the run sets neither.

### IoSourceController, IoActorController, IoPoints

`sourceAssociation`, `updateRate` and `updateSubscription` are `item[3]`,
`item[2]` and `item[5]` of `_sourceItems`, `actorAssociation` and `value`
`item[1]` and `item[2]` of `_actorItems`. `AssociateSource` is what the manager
reports and `OnIoStateChanged` what the controller does with it, up to the
observers it calls synchronously; `ObserversReturn` renews the subscription
afterwards. Values are numbered, `waiting` is the one a rate holds back, and
`TimerElapses` publishes it. `IoPoints` joins both by the route between them;
the two agents are associated independently.

### Message data

`MessageData` picks a subject (two values, a pattern with a text, topics, an
event, an array, a filter with an object, an object of some type) in one step
and evaluates the source's algorithms on it in the next, so each property is
about all subjects of the given sets. The reference definitions are written
independently of the code: structural equality, SQL `LIKE`, MQTT topic matching,
intervals. `JsonValues` has the values with `equals`, `contains`, `includes`
and `clone` of `util/deep.ts`; `ObjectMatcher` the filters; `CoreTypes` and
`CommunicationEvents` the checks on both ends; `MqttTopics` the class
`MqttTopic` and the routing of inbound messages by topic;
`MessageData` itself has `util/binary-search.ts`. Strings are sequences over a few
characters. The collator, code unit order and numerals are parameters.

`PostgresFilters` has the WHERE clauses that `_getWhereClauseAndParams` builds
from a filter, as terms, and what the server selects by them (external: `@>`,
`?`, `IS DISTINCT FROM`, `LIKE`, jsonb and jsonpath comparisons, with or without
jsonpath according to the server version). `DatabaseAgrees` says that the
database and `ObjectMatcher` select the same objects for filters that
`IsPortable` allows; what it excludes is a known deviation each, and
dropping any exclusion violates the property.

### Sensor Things

| Variable | Code |
|---|---|
| `underWay`, `wills`, `requests`, `listening` | messages to the observer in order, last wills to come, Discover and Query events to the source, and whether the observer is subscribed |
| `sourceOnline`, `observerOnline`, `losses` | the connections of the two agents while they are started, and how often one was lost |
| `cutOff`, `missed` | history: the source has lost its connection and its thing has not been advertised or discovered since; the observer has missed a message since it started |
| `identity`, `started`, `deferred` | the source agent's container, its manager, and what the binding defers |
| `sensors`, `publishers` | `_sensors` and the timers in `_observationPublishers` |
| `querySubscription`, `discoverSubscription` | `_querySubscription`, `_discoverSubscription`: none, live, or closed but not reset |
| `discoverable` | the subscription by which the thing is found |
| `observed`, `registeredSensors` | `_observationSubscriptions`, `_registeredSensors` of the observer, the latter with the thing of each sensor |
| `registry` | the objects tracked by the object lifecycle controller |
| `following`, `asked`, `discovery`, `offlineSubscription` | `_sensorSubscriptions` per thing received, the number of requests, the Discover events since the last start, `_thingOfflineSubscription` |
| `total`, `known` | the sensors in the latest change information; history: what the lifecycle infos add up to |

`RegisterSensor` and `UnregisterSensor` are the whole operations, including the
events they publish, which are deferred while the agent is stopped or without a
connection. `SourceDisconnected` and `SourceReconnects` are a lost connection and
the reconnect of MQTT.js under the same identity: the broker publishes the last
will before, so the observer removes the thing and its sensors, and afterwards
only the join events are published again, none of which is about a thing or a
sensor. `ObserverDisconnected` and `ObserverReconnects` are the same for the
observer, which misses what is published meanwhile. `SourceCrashes` loses the
connection for good: the last will is published later, `WillPublished`, possibly
after the agent is run again with a new identity. Each `...Arrives` action is one
handler of the observer. A source is stopped only while it is connected, since
`unjoin()` waits for that, and each publication arrives once. Reading sensors and
publishing observations are left out; what an asynchronous read may do is among
the known deviations.

### Database, InMemoryAdapter, Historian

`InMemoryAdapter` has what operations compute: insertion, update, deletion,
find with filter, order, skip and take, joins, aggregates. In `Database`,
`Call` makes a promise, `Microtask` executes it, `Start` begins to iterate a
result, `Loop` takes the next object, and `CallbackReturns` or `CallbackThrows`
end its callback; `stack` holds the iterations that are nested. `collections`
maps names to `maps`, because a query that runs keeps the map it was found in
when the collection is removed or cleared and created again. `Historian` runs
jobs (`GenerateSnapshot`, `Observe`, `ObserveQuery`), each a chain of
promises in which `ContextReady`, `RunTask`, `Advertise`, `Retrieve` and `Answer`
are the continuations. `context` is `_dbCtxPromise`, which is kept even if
rejected.

### SqlTransactions, SqlCursors, SqliteRows, SqlAdapters

`sessions` are the clients of the pool, or the one SQLite connection: block
state, pending rows, open cursor, holder. `waiting` are the callers that wait
for a client, `callers` the calls with their phase, `query` the query of each.
Every statement that is awaited is an action with a failing twin
(`BeginFails`, `CommitFails`, `FetchFails`, ...), at most `MaxFailures` per
behaviour. An action may swallow an error, nest a transaction or fetch rows in
it. The server is external: it aborts a block at a failing statement, and a
cursor yields the rows of its declaration. SQLite callbacks per row are
`GiveRow`, the completion callback is `Complete`.

## Runs

| Run | Property | Parts and what they say |
|---|---|---|
| `MqttBinding` | `SessionConsistent` | `SubscriptionsInSync`, `NoStall`, `OnlineHasSession`: the broker has the issued subscriptions, a queue that is not empty is drained, online means connected |
| | `PublicationsInOrder` | `FifoPerSession`, `NothingLost` |
| | `JoinEventsFirst` | nothing else is written in a session before all join events, and these are in order |
| | `UnjoinSeenLast` | others see the unjoin event last, from the binding or as last will |
| | `ImplementsLifecycle` | refinement of `BindingLifecycle` |
| | `QueueDrains` | `UnjoinResolves`, `PublicationsWritten` (liveness) |
| `ManagerLifecycle` | `ManagerConsistent` | `OneBindingLive`, `OperatingStateCurrent`, `ObserversOnce`, `CommunicationStateCurrent` |
| | `ControllersTold` | `ControllersCurrent`, `CallbacksAlternate`, `AllDisposed` |
| | `PromisesKept` | `StopResolvedUnjoined`, `BindingsUsedOnce` (each binding behaves as `BindingLifecycle`) |
| | `RestartCompletes` | a restart gets through (liveness) |
| `ObservedRequests` | `ObserversServed` | `SubscribedWhileMapped`, `OpenSubscribersReceive` |
| | `DeliveredOnce` | `DeliveredAtMostOnce`, `DeliveredToAll` |
| `IoAssociation` | `AssociationsConsistent` | `RoutesSubscribed`, `OneRoutePerPair` |
| | `LocalEndsAgree` | a local source and a local actor agree |
| | `SourceStateCurrent` | the reported state of a source is current |
| `IoRouting` | `RouterConsistent` | `RouterKnowsNodes`, `RouteOfSource`, of a router that has received all since it started |
| | `AssociationsEstablished` | what such a router has associated is known at both ends |
| | `NoGhostAssociations` | nothing else is known to agents that have missed nothing, whatever the router has missed |
| `ResponseEvents` | `RequestsConsistent` | `ObservedRequestsAnswered`, `FinishedForGood`, `PublishedOnce` |
| | `CallersServed`, `CacheConsistent` | no caller waits longer than the cache; `PendingIsLive`, `CallersNotRejected` |
| | `LateResponsesDropped` | a late or repeated response reaches nobody who has left, has got his response, or was completed by a restart |
| `IoPoints` | `EndsCurrent` | `SourceCurrent`, `ActorCurrent`, `LatestKept` |
| | `ValuesInOrder`, `WaitingArrives` | values never go back; the last one arrives (liveness) |
| `SensorThings` | `ObserverConsistent` | `ObservedWhileRegistered`, `RemovalsWork`, `InfosAddUp` |
| | `SourcesTracked` | `SensorsFound`, `ThingsTracked`, `NothingLeftBehind` |
| | `GoneSensorsRemoved` | no sensor is left of an agent that has stopped, crashed or lost its connection |
| `MessageData` | `ConditionsAsDocumented` | `EqualsIsStructural`, `ContainsAsDocumented`, `OrderConditionsAgree`, `LikeIsSqlLike`, `FiltersHaveOpposites`, `DatabaseAgrees` |
| | `TopicsAsPublished` | `TopicsParsed`, `FilterSelectsEvents`, `MatchesLikeMqtt`, `DispatchedAsPublished`, `OversizedRejected` |
| | `SearchIsCorrect` | binary search and sorted insertion |
| | `EventsStayValid` | `ObjectsStayValid`, `EventsAccepted`, `ObserversGetOnce`, `ResolveCheckAgrees` |
| `Database` | `QueriesAsDocumented` | `YieldsPage`, `ResultsReported`, `JoinsAsDocumented`, `AggregatesConsistent` |
| | `HistorianFaithful` | `StoredBeforeAdvertised`, `SnapshotAsTaken`, `AnswersComplete` |
| | `WritesReported` | the ids reported are those written |
| | `JobsEnd` | no job hangs (liveness) |
| `SqlTransactions` | `PoolConsistent` | `IdleClean`, `ClientsReleased` |
| | `Atomic` | a promise tells whether all or nothing was committed |
| | `QueriesYield` | `YieldsPage`, `RowsYielded` |
| | `CallsEnd` | every call ends unless the pool is starved (liveness) |
| `SqliteParallelTransactions` | `ParallelAtomic` | **violated**: two callers on one SQLite connection get into each other's transaction; `docs/man/developer-guide.md:2694` says otherwise |

The first conjunct of each first property is the type invariant of the module.

**Bounds.**

- `MqttBinding`: two publications of three kinds, two lost connections, four
  subscriptions of which two share a filter and one is rejected, two join
  events. Two losses let a leftover of one session meet a second reconnect; two
  publications are enough to be reordered.
- `ManagerLifecycle`: four bindings (three replacements, one of which may be the
  dispose), one lost connection, two controllers in `Components` and two
  registered later under any of three names. Callers are patient: they wait for
  an earlier call, as `stop()` asks.
- `ObservedRequests`: four subscribers, three observables; the
  dispatch loop needs three subscribers to be disturbed in front of, at and
  behind its index, and a fourth that comes while it runs.
- `IoAssociation`: one local and one remote source, two local and one remote
  actor, two routes, with and without a rate: an actor may have two sources, a
  source two actors, and a route may change. Deadlock is checked.
- `IoRouting`: a source in one agent and two actors in another, each started
  twice with another route, rates or value type, or the second time without IO
  points; two contexts, two sets of rules, three events that stop, crash,
  disconnect or change something, in the agents or the router: two of them
  interact, the third finds what they left behind. 1,875,398 states.
- `ResponseEvents`: two subscribers besides the cache, two requests, one
  restart, one object that suits and one that does not. A request for an object
  with an object type of its own is two requests.
- `IoPoints`: two rates, three values: one published, one superseded while it
  waits, one that follows.
- `SensorThings`: two sensors with a timer, two identities, two messages under
  way, three requests, one deferred event, one lost connection of source or
  observer or one crash (3,603,823 states). With two of them, a reconnect followed
  by a crash for example, there are 25,364,151 states, and the properties hold as
  well. No option of the
  controller is set in the run; the actions model all four.
- `MessageData`: values nested twice, patterns and texts of up to three
  characters, topics of up to three levels, sorted arrays of up to five items,
  topics of at most ten bytes instead of 65535.
- `Database`: two calls of any operation with two nested iterations, or one
  deletion next to two jobs of the historian; batches of two; up to four
  objects with missing, equal and array properties.
- `SqlTransactions`: two callers, two clients, one failing statement, two
  writes, zero or three rows fetched by two; queries of all rows, of a page, of
  no rows. With three callers the only addition is a longer queue for clients.
  Rows are numbered by their caller, ten numbers for each (`RowsPerCaller`), more
  than any of them writes.

Deadlock is checked only where the system never stops; the other runs end when
their bounds are used up, or when a binding or manager has been disposed.

**Fairness.** Only of what a runtime does by itself:

- `MqttBinding`: publish callbacks and the callback of `end()` are timer and
  socket events of MQTT.js (`ClientFairness`). `Connect`: MQTT.js retries
  periodically, so it succeeds if the broker can be reached (`BrokerFairness`).
- `ManagerLifecycle`: callbacks of controllers return, continuations of
  resolved promises run, and a binding that unjoins gets done, which
  `MqttBinding` shows under `BrokerFairness`.
- `IoPoints`: timers elapse, observers return, the broker delivers what has been
  published. Agents need not start, nor need anybody publish.
- `Database`, `SqlTransactions`: the event loop runs microtasks and continuations,
  callbacks return or throw, and the server answers, with an error or without.
  Nobody is assumed to make a call.

## Proofs

All theorems hold for any values of the constants that meet the named
assumptions of their modules. TLC evaluates these assumptions on the instances,
and the code justifies each:

- `SubsAssumption` (`MqttBinding`): two subscriptions share a filter only if one
  is Raw and one is IoValue, which follows from the form of topic filters
  (`MqttTopic.getTopicFilter`) and the checks in `onSubscribe`;
  `EventsAssumption`: the unjoin event is published by `unjoin()` only.
- `PointsAssumption`, `UndefinedAssumption` (`IoAssociation`): IO sources and
  actors have different ids, and no route is the undefined one;
  `PointsAssumption` (`RuleBasedIoRouter`): rates are numbers, an IO node has a
  route for each of its sources, and there are finitely many actors, so that the
  cumulated rate is a maximum; `NodesAssumption` (`IoRouting`): an agent has an IO
  node to start with, and agents do not share IO points, whose ids are UUIDs;
  `SourceAssumption` (`IoSourceController`): a rate is not the undefined one.
- `ContainerAssumption` (`Container`): the names in `Components` are distinct, as
  they are the keys of an object.
- `CallersAssumption`, `PoolAssumption`, `RowsAssumption` (`SqlTransactions`):
  callers are numbered, there is at least one client, and the numbers of the rows
  that a caller writes are its own, so that a row tells who wrote it.
- `CachersAssumption` (`ObjectCache`): the subscribers by which the cache gets
  objects are its own; `ContentsAssumption` (`ResponseEvents`): what suits a
  caller is an object.
- All others (`BoundsAssumption`, `ParametersAssumption`) say that bounds are
  numbers and switches are truth values.

Further hypotheses are stated in the theorem itself, and are named below.

**`MqttBindingProofs`**: `TypeCorrect`, `SubscriptionsAreInSync`, `NeverStalls`,
`OnlineMeansSession` (together `BindingIsConsistent`), `UnjoinIsSeenLast` and
`ImplementsCommunicationBinding`. None of the invariants is inductive. The
inductive invariant `IInv` adds `Flow` (while connected, the drain flag is set
exactly if a callback is awaited, and the awaited item was written last),
`Sessions` (an ending client whose session is open has written the unjoin event
last) and `Promises` (the unjoin event in the queue or awaited, or an ending
client, means that the promise is pending). `DoDrainResult` states once what
any attempt to drain leaves behind; each action cites it. The refinement
follows since a client exists exactly from `join()` until the promise is
resolved.

`PublicationsStayInOrder` and `JoinEventsAreFirst` rest on a second invariant,
`QueueInv`, proved on top of `IInv`: the queue and what has been written in the
session are sorted, what is written comes before what is queued except for the
awaited item (`InOrder`); each accepted publication is either handed over or
queued, and a client ends only when all are handed over (`Accounted`); and each
join event is written or queued in a session (`JoinsKept`). `JoinEventsAreFirst`
has the hypothesis `DistinctTopics`: join events are advertised on topics of their
own. Without it the property is false of the code, see the known deviations.

**`IoAssociationProofs`**: `TypeCorrect`, `RoutesAreSubscribed`,
`PairsHaveOneRoute` (together `AssociationsAreConsistent`),
`LocalEndsAlwaysAgree` and `SourceStateIsCurrent`. The key lemma `RouteInUse`
says that the routes found empty by `_disassociateIoActorItems` are exactly
those that are no longer used; `HandleAssociateItems` says which associations
are there after an event. `EntriesUsed`, the only addition, is needed since the
reported state of a source depends on the existence of an entry and not on its
actors.

**`IoPointsProofs`**: `EndsAreCurrent` and `ValuesStayInOrder`, for any rates and
any number of values. The invariant says which subscriptions a controller has
while it is registered and its manager runs (`SourceListens`, `ActorListens`,
`StoppedSource`), how far observers have been told (`ToldInOrder`), that only a
paced subscription holds a value back (`OnlyPacedWaits`), and that the value of
the actor, the values on the route and the one held back are in the order of
their publication (`InOrder`).

**`ContainerProofs`**: about the manager, `ManagerIsConsistent` and `PromisesAreKept`;
about the container, `TypeCorrect` and `ControllersAreTold`; `ContainerRunsManager`
says that a step of the container is a step of the manager or leaves it alone,
and `BindingsAreUsedOnce` that each binding takes steps of `BindingLifecycle`
only, a refinement for each of them. `ManagerIsConsistent` and `PromisesAreKept` have the
hypothesis `Patient`, the usage that the documentation of `stop()` asks for.
`ManagerInv` says that the bindings before the current one are unjoined and the
ones behind it untouched (`BindingsInTurn`), that a binding unjoins on behalf of
the one call under way (`OneCall`, `UnjoinAwaited`, `LastUnjoin`), and so that only one
binding is live. `ContainerInv` follows a callback loop: `ToldFits` says of each
controller, by its place before or behind the position of the loop, which
callback it got last; `EntriesDistinct` and `NoneForgotten` that each controller
is in one entry until it is disposed. It needs no hypothesis: controllers
registered within callbacks are part of it.

**`ObservedRequestsProofs`**: `ObserversAreServed`, under `~HoldObservables`, and
`EventsAreDeliveredOnce`, under `~UnsubscribeOthers` as well; what the code does
otherwise is described above and among the known deviations. `RegistryInv` says
that each subscriber is in one place of one array, and that only the mapped
observable has subscribers; `LoopInv` that the subscribers not called yet are
those up to the index of the dispatch loop (`LoopFits`), and that whoever was
subscribed at the beginning has been called, will be, or has left
(`NobodySkipped`). `RemovedProperties` says what `splice` does to the array that
is being walked through.

**`ObjectCacheProofs`**: `RequestsAreConsistent` and `LateResponsesAreDropped` about
requests with responses, `CacheIsConsistent` and `CallersAreServed` about the object
cache that shares them, for any number of requests, subscribers, contents and
restarts. `RequestsInv` says that a subscriber is open exactly if it is in the
arrays of all its requests (`MembersWait`, `WaitersAreMembers`), that a request is
published with its first subscriber and finished with its last (`RequestLife`), and
that the observed requests are those of the session that are not finished
(`ObservedOnes`); a stop completes a subscriber of two requests in both, since
they are of one session (`SameSession`). `LateResponsesAreDropped` also needs that
a dispatch loop in progress is about a request that is observed as long as it has
subscribers left, whatever its callbacks have done (`LoopObserved`).
`CacheInv` follows the cache's own
subscriber: it waits as long as its request is pending (`PendingWaits`). These
three theorems need no hypothesis on usage. `CallersAreServed` has two, that
callers subscribe at once (`~HoldObservables`) and do not resolve objects in
callbacks (`~ResolveInCallbacks`): what happens otherwise is among the known
deviations. `CallersInv` says that the cache is the first in the arrays of its
requests (`CacheComesFirst`), and that a dispatch loop with a suiting object leaves
nobody behind (`NobodyBehind`), so that the cache takes it last.

**`SqlAdaptersProofs`**: `ClientsComeBack`, `TransactionsAreAtomic` and
`PostgresRunsInParallel`, for any number of callers, clients, writes and failing
statements. `PoolInv` relates callers and clients: who is at work holds a client
of its own, a client is held by a caller at work or a dead query, and a client
that nobody holds, or that has just been handed out, is outside of a transaction
block, has nothing pending and no cursor (`ClientsHeld`); what a caller is doing
fits to the kind of its call and to its place in the queue (`CallsFit`).
`AtomicInv` then says where the rows of a caller are: in the database only with
its outcome (`CommittedWithOutcome`), pending on its client as long as the
transaction is in progress (`PendingOnClients`), and on the shared connection of
SQLite as long as it is the caller's transaction that is in progress there, which
is so for each caller that no other call has overlapped (`PendingOnConnection`).
`PostgresRunsInParallel` drops the exception for overlapping calls, for
PostgreSQL alone; the run `SqliteParallelTransactions` shows that SQLite needs it.

**`IoRoutingProofs`**: `RouterIsConsistent`, `AssociationsAreEstablished` and
`NoGhostsAreLeft`, for any number of agents, IO points, rules, contexts, restarts
and events, through lost connections and crashes of agents and router. All have
the hypothesis `~LateWills`: a restarted agent has its former identity, so its last
will is published before it is connected again; what happens otherwise is among
the known deviations. `IoRoutingInv`, which TLC has checked on the instance of the
run as well, is the inductive invariant. It has two levels, because a router that
has lost its own connection may have missed something for good (`missed`). What
holds of any router:

- `RouterTypes`: the router manages IO nodes with different ids, and holds one
  association of each pair.
- `AgentsInv`: an agent has one last will, and is not connected before it is
  published (`WillsInTurn`); nothing gets through to a router that is stopped or
  offline (`StoppedRouter`), nor to an agent that is (`AgentsFit`).
- `KnowledgeInv`, about each agent and what it knows, what is under way to it and
  what the router's binding has queued, one sequence (`Queue`): the last word
  about a pair tells of an association that the router holds, unless the agent
  has missed something (`NothingElseTold`). The same is true of the queue alone,
  which is what an agent gets that starts now. An event published twice changes
  no last word (`Repeated`).

And what holds as long as the router has missed nothing:

- `RouterInv`: the router manages at most one IO node of each agent (`OneEach`),
  a source has a route only while it is managed, namely its own (`OwnRoutes`), and
  associations are those of managed points (`AssociationsOfManaged`).
  `PointsAreUnique` then says that `SourceIn` and `ActorIn` find the one node of a
  point.
- `NodesInv`: what is under way from an agent, after what the router manages of
  it, is one node after another, each gone before the next one comes (`InTurn`); a
  connected agent has advertised its node, or is about to be discovered
  (`UpIsAdvertised`).
- In `KnowledgeInv`, the last word has the route of its source (`Truths`), and once
  the router has received all of the agent's earlier sessions, the agent learns of
  each association that it has an end of (`Learns`), with no event behind it by
  which the source changes its route (`EndTold`).

`PublishesChanges` says of any evaluation of rules that exactly what changes is
published; `PublishesRoutes`, of a router that has missed nothing, that an
association which stays keeps its route. That is why an
agent which reconnects is told anew: the router gets its last will first, and drops
its associations, before it gets its node again. A router that starts again has
no associations, which makes up for whatever it had missed before: an empty set of
associations has no routes and leaves no agent to tell. When nothing is under way, the
last word is what the agent knows, which is what the theorems say.

**Model-checked only**:

- All liveness properties, since fairness and `ENABLED` are out of reach of the
  prover: `QueueDrains`, `RestartCompletes`, `WaitingArrives`, `JobsEnd`,
  `CallsEnd`.
- `MessageData`: the modules define recursive operators (`equals`, `contains`,
  `LIKE`, topic matching), for which the prover has no backend, and what they
  compute would need induction over data, which it cannot instantiate. The same
  is true of `Database` and `Historian`, which use these operators, and of
  `QueriesYield`, which speaks of folds over the rows of a chunk and of the
  concatenation of all batches.
- `SensorThings`: its three invariants. They relate two agents over two queues and
  two identities, which takes a proof as long as that of `IoRouting`; not
  attempted. That is all of the plan that is left.

## Known deviations

What the code does other than its documentation says, or a careful caller
expects. Parameters or properties that no run uses show them where names are
given; the others were found while the definitions were written.

*Communication.*
- Two IO nodes of an agent are advertised on one topic; the once-check drops one
  join event (`com/mqtt/mqtt-binding.ts:620`). Constants `MCJoinEventsShared`
  and `MCTopicShared` violate `JoinEventsFirst`.
- `unjoin()` while offline ends only with a reconnect (`mqtt-binding.ts:334`).
- A publication issued online whose callback is lost with the connection is
  published again (`mqtt-binding.ts:668`); `NotReapplied` states the opposite.
- A second `stop()` is resolved at once (`com/communication-manager.ts:855`):
  `Patient = FALSE` violates `StopResolvedUnjoined`.
- A request observable kept over a restart publishes without a response
  subscription (`communication-manager.ts:1574`): `HoldObservables`.
- A callback that unsubscribes another subscriber makes the dispatch loop skip,
  repeat or throw: `UnsubscribeOthers`.
- Inbound: a topic `coaty/x` with less than four levels throws, so a Raw
  observer of `+/x` misses it; Coaty messages reach a Raw `#` only as Coaty
  events; `matches("a", "a/+/#")` holds; surrogate pairs count as eight bytes.
- After an "error" event, Offline is reported until the next connect, although the
  session may be open (`mqtt-binding.ts:446-449`): `errors`.
- An Associate event loses `isExternalRoute` on its way
  (`communication-manager.ts:1286`).

*IO routing.*
- An actor that loses one of two sources is reported unassociated
  (`communication-manager.ts:1306`): `ActorStateCurrent`.
- Each disassociation makes the rate of the source undefined
  (`communication-manager.ts:1344`): `RateUntilLast`.
- An agent restarted with a new identity before its last will is published is
  not associated (`io-routing/rule-based-io-router.ts:253`): `LateWills = TRUE`.
- A router that reconnects does not discover IO nodes again
  (`io-routing/io-router.ts:74-76`): what it has missed - a node advertised, a node
  deadvertised by an unjoin event or a last will - is not made up for until the
  router is restarted. It manages nodes that are gone, lacks others, and takes
  associations for granted that a restarted agent never gets. Without `~missed` in
  `Informed`, `RouterKnowsNodes`, `AssociationsEstablished` and `RouteOfSource` are
  violated.
- If a publication of a stopping router fails, the rest of its queue is lost, and
  agents are left with associations that nobody dissolves.
- After `stop()`, `isAssociated` and the rate of a source are stale until the
  next start; a value published in a callback of `observeAssociation` is lost;
  a point registered while stopped is subscribed twice on the start; the same
  association is emitted again on a restart (`DistinctStates`); a debounce time
  starves under a steady stream.

*Controllers and container.*
- A pending discovery that is never answered stays pending
  (`controller/object-cache-controller.ts:69`); `first` rejects with an unhandled
  `EmptyError` on stop; advertised objects are cached without the filter;
  resolving the same id in a callback may wait forever (`ResolveInCallbacks`); a
  late subscriber of a resolved observable is rejected.
- `registerController` within `onInit` or `onCommunicationManagerStarting` gets
  callbacks twice; a controller whose name is registered again is forgotten
  (`runtime/container.ts:259`).

*Sensor Things.*
- Query and Discover subscriptions are closed with the last sensor but not
  reset (`sensor-things/sensor-source-controller.ts:369`), and not renewed on a
  restart; sensors are not advertised again; timers go on while stopped, so
  observations pile up; an asynchronous read publishes after unregistering
  (`:568`); `unregisterSensor` returns an error instead of throwing it.
- When a source reconnects, its last will has removed its thing and sensors at
  the observers (`controller/object-lifecycle-controller.ts:276`), and only join
  events are published again (`com/mqtt/mqtt-binding.ts:408-411`): the thing is
  missing until the application advertises it or somebody discovers it again. An
  observer that reconnects does not discover again either. Without `cutOff` and
  `missed`, `ThingsTracked` and `SensorsFound` are violated.
- A thing received twice is followed twice, with spurious changes; the observer
  ignores Deadvertise events of a sensor or of the thing itself; a thing that
  keeps its id over a new identity is removed by the late last will, or its old
  sensors stay: `SameThing = TRUE` violates `GoneSensorsRemoved`, and a second
  removal throws and ends the subscription.

*Data.*
- `contains(obj, null)` throws, `contains({}, [])` holds; `In` without an array
  is valid and throws; cloning throws on shared references; `LIKE` wildcards do
  not match line breaks; `{or: []}` selects nothing in memory and all in
  PostgreSQL; `take: 0` returns all in memory; inherited names such as
  `toString` count as core types; two checks `typeof ... !== undefined` are
  always true (`sensor-things/types.ts:29,61`); objects that use the object type
  of another core type are missed by observers.
- PostgreSQL filters (`db/adapter-postgres/postgres-adapter.ts:591-720`): an
  array property never contains a primitive; `NotContains`, `NotIn []` and,
  without jsonpath, `NotEquals` select objects that lack the property; with
  jsonpath comparisons look into arrays, and strings are ordered by code
  units while operands of `Between` are swapped by the collator; conditions
  `{}` throw; nested existence also finds strings and array elements; the
  caller's filter is rewritten (`:596`).

*Databases.*
- In memory: a join on an array property that is missing throws and rejects; a
  running query keeps a map that has been removed or cleared; aggregates
  include missing values as `NaN`.
- Historian: a rejected context stays rejected, and then snapshots are
  advertised without being stored; after a failing insert there is neither an
  advertisement nor a log; failing queries are not answered.
- PostgreSQL: a query that takes no rows (`:1033`) or whose cursor cannot be
  declared (`:1040`) keeps its client, so the pool starves; a nested transaction
  acquires a client while holding one; a `COMMIT` of an aborted block is
  fulfilled although rolled back; two first calls create two pools.
- SQLite: parallel transactions share the connection
  (`SqliteParallelTransactions`); a failed `COMMIT` leaves the transaction open;
  two first calls open two handles; an empty result calls a missing batch
  action (`sqlite-node-adapter.ts:131`); skip and take are ignored by `iquery`;
  the Cordova adapter does not roll back a rejected action.

## Not modelled

- Logging, default options, options passed on to MQTT.js, payload encoding, and
  QoS 1 and 2, where redelivery is left to MQTT.js and the broker.
- Raw IO values on external routes in `IoPoints`; calls of start and stop
  within callbacks other than `onInit` in `Container`.
- Interfaces and declarations of the object model, builders of filters and
  joins, and getters without conditions.
- SQL text other than WHERE clauses, quoting, database initialisation, the local
  store, and the Cordova adapter: all of it is strings handed to a server.
- Synchronous calls through `ctx.adapter` and work on a context that is not
  awaited: no order is promised for either.
- Reading sensors and publishing observations in `SensorThings`.
- Hardware access of the sensor IO classes, platform glue (`runtime-node/`,
  `runtime-angular/`), configuration loading; generated API docs, build scripts
  and tests.
- `util/async.ts` and `util/date.ts`: each is a few lines over timers or a
  formatter.

## Plan

Modelling is as complete as the properties need, and all invariants of the
modules without recursive operators are proved except those of `SensorThings`
and `QueriesYield`. What remains worth proving are `ObservedWhileRegistered` and
`SensorsFound` of `SensorThings`: the first follows from the life of a sensor
between registration and unregistration alone, the second needs the order of
what is under way between the agents, as in `IoRoutingProofs`.

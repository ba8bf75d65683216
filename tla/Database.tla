------------------------------- MODULE Database -------------------------------
(***************************************************************************)
(* A database context on an in-memory database.                            *)
(*                                                                         *)
(* A call of a context is executed in a microtask, after the synchronous   *)
(* code that made it has ended; only adding, removing and clearing a       *)
(* collection take effect at once.  Iterating a query result is            *)
(* synchronous code, too: while its callback runs, and only then, the      *)
(* application can make calls, or start to iterate another result.         *)
(* All contexts with the same database name share its collections.         *)
(***************************************************************************)
EXTENDS InMemoryAdapter

CONSTANTS
  Names,          \* names of collections
  Writes,         \* objects passed to operations; one without an id is malformed
  Values,         \* values for the update of a property
  Filters,        \* filters passed to operations
  Joins,          \* join conditions
  QueryJoins,     \* those of queries
  NoJoin,         \* a query without a join condition
  Budgets,        \* initial contents; bounds on calls, maps, nesting and the historian's jobs
  MaxBatch        \* bound on batch sizes

VARIABLES
  collections,    \* per name the map of the collection, 0 if there is none
  maps,           \* the maps ever created (a running query keeps its map)
  tasks,          \* the calls waiting for a microtask
  iterators,      \* the query iterators
  stack,          \* the iterators in whose callbacks the program is, innermost last
  report,         \* the last task executed, and the ids it reported
  budget          \* the bounds, and the calls left

storeVars == <<collections, maps>>
queryVars == <<iterators, stack>>
dbVars == <<collections, maps, tasks, iterators, stack, report, budget>>

NoTask == [op |-> "none", job |-> 0]
NoReport == [task |-> NoTask, ids |-> <<>>]

DatabaseInit ==
  /\ budget \in Budgets
  /\ \/ collections = [n \in Names |-> 0] /\ maps = <<>>
     \/ \E n \in Names, c \in budget.contents :
          collections = [x \in Names |-> IF x = n THEN 1 ELSE 0] /\ maps = <<c>>
  /\ tasks = <<>>
  /\ iterators = <<>>
  /\ stack = <<>>
  /\ report = NoReport

Exists(n) == collections[n] # 0

-----------------------------------------------------------------------------
(* Calls *)

\* Application code runs at top level or in a callback.
InCallback == stack # <<>> /\ iterators[Last(stack)].phase \in {"item", "last"}
ApplicationRuns == stack = <<>> \/ InCallback
MayCall == ApplicationRuns /\ budget.calls > 0
Counted == budget' = [budget EXCEPT !.calls = @ - 1]

WithCollection(n) ==
  IF Exists(n)
  THEN UNCHANGED storeVars
  ELSE /\ maps' = Append(maps, <<>>)
       /\ collections' = [collections EXCEPT ![n] = Len(maps) + 1]

AddCollection(n) ==
  /\ MayCall /\ Counted
  /\ Len(maps) < budget.maps
  /\ WithCollection(n)
  /\ UNCHANGED <<tasks, queryVars, report>>

\* A query that has the collection's map goes on with it.
RemoveCollection(n) ==
  /\ MayCall /\ Counted
  /\ collections' = [collections EXCEPT ![n] = 0]
  /\ UNCHANGED <<maps, tasks, queryVars, report>>

ClearCollection(n) ==
  /\ MayCall /\ Counted
  /\ Exists(n)
  /\ maps' = [maps EXCEPT ![collections[n]] = <<>>]
  /\ iterators' = [k \in DOMAIN iterators |->
                     [iterators[k] EXCEPT !.cleared = \/ @
                                                      \/ /\ k \in Range(stack)
                                                         /\ iterators[k].coll = collections[n]]]
  /\ UNCHANGED <<collections, tasks, stack, report>>

\* The calls that are executed in a microtask; job is 0 for the application.
Inserting(n, objects, shouldReplace, job) ==
  [op |-> "insert", name |-> n, objects |-> objects, replace |-> shouldReplace, job |-> job]
Finding(n, filter, join, job) ==
  [op |-> "find", name |-> n, filter |-> filter, join |-> join, job |-> job]

WrittenIds == UNION {{o.objectId : o \in Range(w)} : w \in Writes} \ {Undefined}

Calls ==
  UNION {
    {Inserting(n, s, r, 0) : n \in Names, s \in Writes, r \in BOOLEAN},
    {[op |-> "update", name |-> n, objects |-> s, job |-> 0] : n \in Names, s \in Writes},
    {[op |-> "updateProperty", name |-> n, ids |-> {id}, value |-> v, create |-> c, job |-> 0] :
       n \in Names, id \in WrittenIds, v \in Values, c \in BOOLEAN},
    {[op |-> "deleteById", name |-> n, ids |-> {id}, job |-> 0] : n \in Names, id \in WrittenIds},
    {[op |-> "delete", name |-> n, filter |-> f, job |-> 0] : n \in Names, f \in Filters},
    {Finding(n, f, j, 0) : n \in Names, f \in Filters, j \in QueryJoins \cup {NoJoin}}}

Call(t) ==
  /\ MayCall /\ Counted
  /\ t.op \in budget.ops
  /\ tasks' = Append(tasks, t)
  /\ UNCHANGED <<storeVars, queryVars, report>>

-----------------------------------------------------------------------------
(* Microtasks *)

\* Fault: only the first of several objects is validated
IsRejectedByFirst(t) ==
  \/ t.op \in {"insert", "update"} /\ t.objects[1].objectId = Undefined
  \/ ~Exists(t.name)
\* The context rejects malformed arguments, the adapter a missing collection.
IsRejected(t) ==
  \/ t.op \in {"insert", "update"} /\ \E i \in DOMAIN t.objects : t.objects[i].objectId = Undefined
  \/ ~Exists(t.name)

\* The new contents of the collection
Changed(t, coll) ==
  CASE t.op = "insert"         -> InsertObjects(coll, t.objects, t.replace).coll
    [] t.op = "update"         -> UpdateObjects(coll, t.objects).coll
    [] t.op = "updateProperty" -> UpdateObjectProperty(coll, t.ids, "rank", t.value, t.create)
    [] t.op = "deleteById"     -> DeleteObjectsById(coll, t.ids).coll
    [] t.op = "delete"         -> DeleteObjects(coll, t.filter)

Reported(t, coll) ==
  CASE t.op = "insert" -> InsertObjects(coll, t.objects, t.replace).ids
    [] t.op = "update" -> UpdateObjects(coll, t.objects).ids
    [] t.op = "deleteById" -> DeleteObjectsById(coll, t.ids).ids
    [] OTHER -> <<>>

\* findObjects: the iterator has the map that the collection has now.
Iterator(t) ==
  [coll |-> collections[t.name], filter |-> t.filter, join |-> t.join, job |-> t.job,
   phase |-> "found", mode |-> "each", size |-> 0, source |-> <<>>, sorted |-> <<>>,
   position |-> 1, matches |-> 0, results |-> 0, batch |-> <<>>, given |-> <<>>,
   broken |-> FALSE, cleared |-> FALSE]

Execute(t) ==
  IF IsRejected(t) THEN UNCHANGED <<storeVars, iterators, report>>
  ELSE LET m == collections[t.name]
       IN IF t.op = "find"
          THEN /\ iterators' = Append(iterators, Iterator(t))
               /\ UNCHANGED <<storeVars, report>>
          ELSE /\ maps' = [maps EXCEPT ![m] = Changed(t, @)]
               /\ report' = [task |-> t, ids |-> Reported(t, maps[m])]
               /\ UNCHANGED <<collections, iterators>>

Microtask ==
  /\ stack = <<>> /\ tasks # <<>>
  /\ Execute(Head(tasks))
  /\ tasks' = Tail(tasks)
  /\ UNCHANGED <<stack, budget>>

-----------------------------------------------------------------------------
(* Iterating a query result *)

\* Fault: a missing limit is taken as zero
LimitAsGiven(it) == it.filter.take
Limit(it) == IF it.filter.take = 0 THEN Len(it.source) + 1 ELSE it.filter.take
IsOrdered(it) == it.filter.orderBy # <<>>

\* An ordered query iterates what it has sorted, an unordered one the live map.
Iterated(it) == IF IsOrdered(it) THEN it.sorted ELSE maps[it.coll]

\* forEach, forBatch; a second call on the same iterator throws.
Started(it, mode, size) ==
  [it EXCEPT !.phase = "loop", !.mode = mode, !.size = size, !.source = maps[it.coll],
             !.sorted = IF IsOrdered(it)
                        THEN Sort(SelectSeq(maps[it.coll], LAMBDA o : IsMatch(it.filter, o)),
                                  it.filter.orderBy)
                        ELSE <<>>]

Start(k, mode, size) ==
  /\ ApplicationRuns /\ Len(stack) < budget.depth
  /\ iterators[k].phase = "found"
  /\ mode = "each" => size = 0
  /\ iterators' = [iterators EXCEPT ![k] = Started(@, mode, size)]
  /\ stack' = Append(stack, k)
  /\ UNCHANGED <<storeVars, tasks, report, budget>>

Becomes(k, it) == iterators' = [iterators EXCEPT ![k] = it]
Ends(k, it) == Becomes(k, it) /\ stack' = Front(stack)
Goes(k, it) == Becomes(k, it) /\ UNCHANGED stack

\* After the loop the last batch is submitted, also if there is no result at all.
\* Fault: an empty result is not submitted
HasRemainder(it) == it.mode = "batch" /\ it.batch # <<>>
HasLastBatch(it) == it.mode = "batch" /\ (it.batch # <<>> \/ it.results = 0)

AfterLoop(k, it) ==
  IF HasLastBatch(it)
  THEN Goes(k, [it EXCEPT !.phase = "last", !.given = Append(@, it.batch), !.batch = <<>>])
  ELSE Ends(k, [it EXCEPT !.phase = "resolved"])

NextMatch(it) == [it EXCEPT !.position = @ + 1, !.matches = @ + 1]

\* An object within the limits is submitted, on its own or with its batch.
\* Fault: a batch is submitted when it exceeds its size
IsOverfull(it, batch) == it.size > 0 /\ Len(batch) > it.size
IsFull(it, batch) == it.size > 0 /\ Len(batch) = it.size

Submit(k, it, o) ==
  LET batch == Append(it.batch, o)
  IN IF it.mode = "each"
     THEN Goes(k, [it EXCEPT !.phase = "item", !.given = Append(@, <<o>>)])
     ELSE IF IsFull(it, batch)
     THEN Goes(k, [it EXCEPT !.phase = "item", !.given = Append(@, batch), !.batch = <<>>])
     ELSE Goes(k, [NextMatch(it) EXCEPT !.results = @ + 1, !.batch = batch])

\* Joining from a missing collection rejects the iteration.
JoinFails(it) == it.join # NoJoin /\ ~Exists(it.join.fromCollection)

Loop ==
  /\ stack # <<>>
  /\ LET k == Last(stack)
         it == iterators[k]
         objects == Iterated(it)
         resultIndex == it.matches - it.filter.skip
     IN /\ it.phase = "loop"
        /\ CASE it.position > Len(objects) -> AfterLoop(k, it)
             [] it.position <= Len(objects) /\ ~IsMatch(it.filter, objects[it.position]) ->
                  Goes(k, [it EXCEPT !.position = @ + 1])
             [] OTHER ->
                  IF resultIndex < 0 THEN Goes(k, NextMatch(it))
                  ELSE IF resultIndex >= Limit(it) THEN AfterLoop(k, it)
                  ELSE IF JoinFails(it) THEN Ends(k, [it EXCEPT !.phase = "rejected"])
                  ELSE Submit(k, it, objects[it.position])
  /\ UNCHANGED <<storeVars, tasks, report, budget>>

\* The callback returns, with FALSE to break, or it throws.
CallbackReturns(dontBreak) ==
  /\ InCallback
  /\ LET k == Last(stack)
         it == iterators[k]
         broken == [it EXCEPT !.broken = ~dontBreak]
     IN IF it.phase = "last" THEN Ends(k, [broken EXCEPT !.phase = "resolved"])
        ELSE LET next == [NextMatch(broken) EXCEPT !.phase = "loop", !.results = @ + 1]
             IN IF dontBreak THEN Goes(k, next) ELSE AfterLoop(k, next)
  /\ UNCHANGED <<storeVars, tasks, report, budget>>

CallbackThrows ==
  /\ InCallback
  /\ LET k == Last(stack) IN Ends(k, [iterators[k] EXCEPT !.phase = "rejected"])
  /\ UNCHANGED <<storeVars, tasks, report, budget>>
==============================================================================

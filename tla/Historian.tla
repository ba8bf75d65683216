------------------------------- MODULE Historian -------------------------------
(***************************************************************************)
(* The HistorianController on an in-memory database: it stores snapshots,  *)
(* its own and those it observes, advertises its own, and answers queries  *)
(* for snapshots.  Each of these is a job: a chain of promises whose steps *)
(* interleave with those of other jobs and with the application's calls.   *)
(*                                                                         *)
(* A snapshot is stored as an object whose rank is the creation timestamp  *)
(* and whose peer is the state of the object the snapshot is of.           *)
(***************************************************************************)
EXTENDS Database

CONSTANTS
  Collection,     \* the name of the historian's collection
  Times,          \* creation timestamps
  TimeFrames,     \* first and last timestamps of time frames, 0 for unrestricted
  States          \* states of the object that snapshots are taken of

VARIABLES
  context,        \* the promise of the database context: "none", "resolved", "rejected"
  persists,       \* option shouldPersistLocalSnapshots
  configured,     \* the database option is valid
  object,         \* the state of the application's object
  jobs,           \* the historian's jobs
  advertised,     \* ids of the snapshots advertised, in order
  dropped         \* ids removed from the historian's collection by anyone

historianVars == <<context, persists, configured, object, jobs, advertised, dropped>>
vars == <<dbVars, historianVars>>

HistorianInit ==
  /\ context = "none"
  /\ persists \in BOOLEAN
  /\ configured \in BOOLEAN
  /\ object = CHOOSE s \in States : TRUE
  /\ jobs = <<>>
  /\ advertised = <<>>
  /\ dropped = {}
  /\ budget.jobs = 0 => persists /\ configured

Init == DatabaseInit /\ HistorianInit

StoredIds(coll, contents) == IF coll = 0 THEN {} ELSE {contents[coll][i].objectId : i \in DOMAIN contents[coll]}
Keeps == dropped' = dropped \cup (StoredIds(collections[Collection], maps)
                                    \ StoredIds(collections'[Collection], maps'))

\* Snapshots get ids of their own.
SnapshotId(j) == 10 + j
Snapshot(j, state, time) == [objectId |-> SnapshotId(j), rank |-> time, peer |-> state]

\* _getDbContext: the first call creates the context and adds the collection;
\* its promise is kept, also if it is rejected.
GetDbContext ==
  IF context = "none"
  THEN /\ context' = IF configured THEN "resolved" ELSE "rejected"
       /\ IF configured THEN WithCollection(Collection) ELSE UNCHANGED storeVars
  ELSE UNCHANGED <<context, storeVars>>

MayBegin == ApplicationRuns /\ Len(jobs) < budget.jobs
Job(kind, phase, snapshot, filter, taken) ==
  [kind |-> kind, phase |-> phase, snapshot |-> snapshot, filter |-> filter, taken |-> taken,
   known |-> {}, answer |-> <<>>]

NoFilter == [conditions |-> NoConditions, orderBy |-> <<>>, skip |-> 0, take |-> 0]

\* generateSnapshot, without and with persistence
GenerateSnapshot(time) ==
  LET j == Len(jobs) + 1
      s == Snapshot(j, object, time)
      job == Job("local", IF persists THEN "context" ELSE "done", s, NoFilter, object)
  IN /\ MayBegin
     /\ jobs' = Append(jobs, job)
     /\ IF persists THEN GetDbContext ELSE UNCHANGED <<context, storeVars>>
     /\ advertised' = IF persists THEN advertised ELSE Append(advertised, s.objectId)
     /\ Keeps
     /\ UNCHANGED <<tasks, queryVars, report, budget, persists, configured, object>>

\* The application changes its object after having taken a snapshot of it.
ChangeObject(state) ==
  /\ ApplicationRuns /\ budget.changes > 0
  /\ object' = state
  /\ budget' = [budget EXCEPT !.changes = @ - 1]
  /\ UNCHANGED <<storeVars, tasks, queryVars, report, context, persists, configured, jobs,
                 advertised, dropped>>

\* A snapshot of another historian, or a query for snapshots, is received;
\* known are the snapshots advertised before the query.
Observe(time) ==
  /\ stack = <<>> /\ MayBegin
  /\ jobs' = Append(jobs, Job("observed", "context", Snapshot(Len(jobs) + 1, object, time),
                              NoFilter, object))
  /\ GetDbContext
  /\ Keeps
  /\ UNCHANGED <<tasks, queryVars, report, budget, persists, configured, object, advertised>>

ObserveQuery(filter) ==
  /\ stack = <<>> /\ MayBegin
  /\ jobs' = Append(jobs, [Job("query", "context", Snapshot(0, object, 0), filter, object)
                             EXCEPT !.known = Range(advertised)])
  /\ GetDbContext
  /\ Keeps
  /\ UNCHANGED <<tasks, queryVars, report, budget, persists, configured, object, advertised>>

\* findSnapshotsByParentId and findSnapshotsByTimeFrame: the latest snapshot first
InTimeFrame(frame) ==
  [NoFilter EXCEPT
     !.conditions = [property |-> "rank",
                     values   |-> {t \in Times : /\ frame[1] = 0 \/ t >= frame[1]
                                                 /\ frame[2] = 0 \/ t <= frame[2]}],
     !.orderBy = <<[property |-> "rank", order |-> "Desc"]>>]

FindSnapshots(frame) ==
  /\ MayBegin
  /\ jobs' = Append(jobs, [Job("find", "context", Snapshot(0, object, 0), InTimeFrame(frame), object)
                             EXCEPT !.known = Range(advertised)])
  /\ GetDbContext
  /\ Keeps
  /\ UNCHANGED <<tasks, queryVars, report, budget, persists, configured, object, advertised>>

IsQuery(j) == jobs[j].kind \in {"query", "find"}

\* The snapshot has a clone of the object.
\* Fault: the snapshot refers to the object
ContentByReference(j) == IF jobs[j].kind = "local" THEN [jobs[j].snapshot EXCEPT !.peer = object]
                                                  ELSE jobs[j].snapshot
Content(j) == jobs[j].snapshot

\* The context's promise has resolved, or has been rejected: a local snapshot
\* goes on in both cases, once the error has been logged.
ContextReady(j) ==
  /\ stack = <<>>
  /\ jobs[j].phase = "context"
  /\ IF context = "rejected"
     THEN /\ jobs' = [jobs EXCEPT ![j].phase = IF jobs[j].kind = "local"
                                               THEN "stored" ELSE "failed"]
          /\ UNCHANGED tasks
     ELSE /\ jobs' = [jobs EXCEPT ![j].phase = "waiting"]
          /\ tasks' = Append(tasks, IF IsQuery(j)
                                    THEN Finding(Collection, jobs[j].filter, NoJoin, j)
                                    ELSE Inserting(Collection, <<Content(j)>>, TRUE, j))
  /\ UNCHANGED <<storeVars, queryVars, report, budget, context, persists, configured, object,
                 advertised, dropped>>

\* The job goes on with the result of its task.
AfterTask(t) == IF IsRejected(t) THEN "failed" ELSE "stored"

RunTask ==
  /\ Microtask
  /\ LET t == Head(tasks)
     IN jobs' = IF t.job = 0 THEN jobs ELSE [jobs EXCEPT ![t.job].phase = AfterTask(t)]
  /\ Keeps
  /\ UNCHANGED <<context, persists, configured, object, advertised>>

\* A local snapshot is advertised after having been stored.
\* Fault: advertised without waiting for the database
MayAdvertiseEarly(j) == jobs[j].phase \in {"waiting", "stored"}
MayAdvertise(j) == jobs[j].phase = "stored"

Advertise(j) ==
  /\ stack = <<>>
  /\ jobs[j].kind = "local" /\ MayAdvertise(j)
  /\ jobs' = [jobs EXCEPT ![j].phase = "done"]
  /\ advertised' = Append(advertised, jobs[j].snapshot.objectId)
  /\ UNCHANGED <<dbVars, context, persists, configured, object, dropped>>

\* The retrieved objects are submitted in one batch and answered with.
Retrieve(j) ==
  /\ stack = <<>>
  /\ IsQuery(j) /\ jobs[j].phase = "stored"
  /\ \E k \in DOMAIN iterators :
       /\ iterators[k].job = j
       /\ Start(k, "batch", 0)
       /\ jobs' = [jobs EXCEPT ![j].phase = "answering"]
  /\ UNCHANGED <<context, persists, configured, object, advertised, dropped>>

Answer(j) ==
  /\ InCallback
  /\ LET k == Last(stack)
     IN /\ iterators[k].job = j
        /\ jobs' = [jobs EXCEPT ![j].phase = "done", ![j].answer = Last(iterators[k].given)]
  /\ CallbackReturns(TRUE)
  /\ UNCHANGED <<context, persists, configured, object, advertised, dropped>>

-----------------------------------------------------------------------------
Application ==
  \/ \E n \in Names : AddCollection(n) \/ RemoveCollection(n) \/ ClearCollection(n)
  \/ \E t \in Calls : Call(t)
IsApplicationQuery(k) == iterators[k].job = 0
ApplicationIterates ==
  \E k \in DOMAIN iterators, mode \in {"each", "batch"}, size \in 0..MaxBatch :
    IsApplicationQuery(k) /\ Start(k, mode, size)
ApplicationCallback ==
  /\ stack # <<>> /\ IsApplicationQuery(Last(stack))
  /\ CallbackThrows \/ \E dontBreak \in BOOLEAN : CallbackReturns(dontBreak)

Next ==
  \/ (Application \/ ApplicationIterates) /\ Keeps
       /\ UNCHANGED <<context, persists, configured, object, jobs, advertised>>
  \/ (Loop \/ ApplicationCallback) /\ UNCHANGED historianVars
  \/ \E time \in Times : GenerateSnapshot(time)
  \/ \E time \in Times : Observe(time)
  \/ \E f \in Filters : ObserveQuery(f)
  \/ \E frame \in TimeFrames : FindSnapshots(frame)
  \/ \E state \in States : ChangeObject(state)
  \/ RunTask
  \/ \E j \in DOMAIN jobs : ContextReady(j) \/ Advertise(j) \/ Retrieve(j) \/ Answer(j)

\* The event loop runs what is due, and callbacks return.
Progress ==
  \/ (Loop \/ ApplicationCallback) /\ UNCHANGED historianVars
  \/ RunTask
  \/ \E j \in DOMAIN jobs : ContextReady(j) \/ Advertise(j) \/ Retrieve(j) \/ Answer(j)

Spec == Init /\ [][Next]_vars
FairSpec == Spec /\ WF_vars(Progress)

-----------------------------------------------------------------------------
(* Properties *)

TypeOK ==
  /\ \A n \in Names : collections[n] \in 0..Len(maps)
  /\ \A m \in DOMAIN maps :
       /\ \A i \in DOMAIN maps[m] : maps[m][i].objectId # Undefined
       /\ \A i, j \in DOMAIN maps[m] : maps[m][i].objectId = maps[m][j].objectId => i = j
  /\ \A k \in DOMAIN iterators :
       /\ iterators[k].phase \in {"found", "loop", "item", "last", "resolved", "rejected"}
       /\ iterators[k].phase \in {"loop", "item", "last"} <=> k \in Range(stack)
  /\ context \in {"none", "resolved", "rejected"}
  /\ \A j \in DOMAIN jobs :
       jobs[j].phase \in {"context", "waiting", "stored", "answering", "done", "failed"}

\* An order by several properties, missing values first, by definition
Less(x, y) == x # y /\ (x = Undefined \/ (y # Undefined /\ x < y))
Precedes(orderBy, a, b) ==
  \E i \in DOMAIN orderBy :
    LET p == orderBy[i].property
    IN /\ \A h \in 1..(i - 1) : a[orderBy[h].property] = b[orderBy[h].property]
       /\ IF orderBy[i].order = "Asc" THEN Less(a[p], b[p]) ELSE Less(b[p], a[p])

\* How many of the matching objects come before the one at position i
Matching(it) == {i \in DOMAIN it.source : IsMatch(it.filter, it.source[i])}
RankOf(it, i) ==
  Cardinality({j \in Matching(it) :
    \/ Precedes(it.filter.orderBy, it.source[j], it.source[i])
    \/ j < i /\ ~Precedes(it.filter.orderBy, it.source[i], it.source[j])})

Yielded(it) == FlattenSeq(it.given) \o it.batch

\* A query yields the objects of its page, in order, none twice and none left
\* out: those that are at its start in the map it was found with, whatever is
\* done to the database while its callbacks run.  Only breaking, an error or
\* clearing the collection ends it earlier.
YieldsPage ==
  \A k \in DOMAIN iterators :
    LET it == iterators[k]
        y == Yielded(it)
        available == Max({0, Cardinality(Matching(it)) - it.filter.skip})
    IN /\ \A r \in DOMAIN y : \E i \in Matching(it) :
            it.source[i] = y[r] /\ RankOf(it, i) = it.filter.skip + r - 1
       /\ it.phase = "resolved" /\ ~it.broken /\ ~it.cleared =>
            Len(y) = IF it.filter.take = 0 THEN available ELSE Min({it.filter.take, available})

\* The result of an iteration counts what its callbacks were given; every batch
\* but the last is full, and an empty one is given only if there is no result.
ResultsReported ==
  \A k \in DOMAIN iterators :
    LET it == iterators[k]
        n == Len(it.given)
    IN /\ it.phase = "resolved" => it.results = Len(FlattenSeq(it.given))
       /\ it.phase = "resolved" /\ it.mode = "batch" => n > 0
       /\ it.mode = "each" => \A i \in 1..n : Len(it.given[i]) = 1
       /\ it.mode = "batch" =>
            /\ it.size = 0 => n <= 1
            /\ it.size > 0 => /\ \A i \in 1..(n - 1) : Len(it.given[i]) = it.size
                              /\ n > 0 => Len(Last(it.given)) <= it.size
            /\ \A i \in 1..n : it.given[i] = <<>> => n = 1 /\ it.results = 0

\* The ids that an insert or update reports are those of the objects it has
\* written: what it does not report is unchanged, and an object that is
\* skipped, because it is there or because it is not, is not reported.
WrittenBy(t, before, after, ids) ==
  LET R == Range(ids)
      same(id) == {o \in Range(before) : o.objectId = id} = {o \in Range(after) : o.objectId = id}
  IN /\ \A id \in WrittenIds \ R : same(id)
     /\ \A id \in R : \E o \in Range(t.objects) : o.objectId = id /\ o \in Range(after)
     /\ t.op = "insert" =>
          \A i \in DOMAIN t.objects : LET id == t.objects[i].objectId
            IN id \in R <=> t.replace \/ ~HasId(before, id)
     /\ t.op = "update" => R = {o.objectId : o \in Range(t.objects)}
                                 \cap {o.objectId : o \in Range(before)}
WritesReported ==
  [][report' # report /\ report'.task.op \in {"insert", "update"} =>
       LET m == collections[report'.task.name]
       IN WrittenBy(report'.task, maps[m], maps'[m], report'.ids)]_vars

\* A joined property has, for each local value that is not missing, the objects
\* that are equal in the foreign property; for a one to one relation only one,
\* and for a single value it is no array, and missing without a related object.
JoinsAsDocumented ==
  \A jc \in Joins, n \in Names : Exists(n) =>
    LET from == maps[collections[n]]
        present == {from[i][jc.fromProperty] : i \in DOMAIN from}
        related(v) == {o \in Range(from) : v # Undefined /\ o[jc.fromProperty] = v}
        one(v) == IF related(v) = {} THEN 0 ELSE 1
    IN /\ \A v, w \in present \cup {Undefined} : jc.isLocalPropertyArray =>
            LET e == ExtraProperty(jc, from, <<v, w>>)
            IN IF jc.isOneToOneRelation
               THEN Len(e) = one(v) + one(w) /\ Range(e) \subseteq related(v) \cup related(w)
               ELSE Range(e) = related(v) \cup related(w)
                    /\ Len(e) = Cardinality(related(v)) + Cardinality(related(w))
       /\ \A v \in present \cup {Undefined} : ~jc.isLocalPropertyArray =>
            LET e == ExtraProperty(jc, from, <<v>>)
            IN IF jc.isOneToOneRelation
               THEN IF related(v) = {} THEN e = Undefined ELSE e \in related(v)
               ELSE Range(e) = related(v) /\ Len(e) = Cardinality(related(v))

\* Aggregating numbers: the average is the sum over the number of objects
\* and lies between minimum and maximum; aggregating flags: all and some.
AggregatesConsistent ==
  \A m \in DOMAIN maps :
    LET objects == SelectSeq(maps[m], LAMBDA o : o.rank # Undefined)
        values == [i \in DOMAIN objects |-> objects[i].rank]
        flags == [i \in DOMAIN objects |-> objects[i].rank > 1]
        avg == AggregateObjects("Avg", values)
    IN values # <<>> =>
         /\ avg[1] = FoldLeft(LAMBDA a, b : a + b, 0, values)
         /\ avg[2] = Len(values)
         /\ AggregateObjects("Min", values) * avg[2] <= avg[1]
         /\ AggregateObjects("Max", values) * avg[2] >= avg[1]
         /\ {AggregateObjects("Min", values), AggregateObjects("Max", values)} \subseteq Range(values)
         /\ AggregateObjects("Every", flags) <=> FALSE \notin Range(flags)
         /\ AggregateObjects("Some", flags) <=> TRUE \in Range(flags)

Local == {j \in DOMAIN jobs : jobs[j].kind = "local"}

\* A snapshot that is both stored and advertised is stored first, so that an
\* observer of the advertisement can retrieve it.
StoredBeforeAdvertised ==
  persists /\ context = "resolved" =>
    Range(advertised) \subseteq StoredIds(collections[Collection], maps) \cup dropped

\* A stored snapshot has the object as it was when the snapshot was taken.
SnapshotAsTaken ==
  \A m \in DOMAIN maps : \A i \in DOMAIN maps[m] : \A j \in DOMAIN jobs :
    maps[m][i].objectId = SnapshotId(j) => maps[m][i].peer = jobs[j].taken

\* The answer to a query has every matching snapshot that was advertised before
\* the query, and that nobody has removed.
AnswersComplete ==
  persists /\ context = "resolved" =>
    \A q \in DOMAIN jobs : \A j \in Local :
      LET f == jobs[q].filter
      IN /\ IsQuery(q) /\ jobs[q].phase = "done"
         /\ f.skip = 0 /\ f.take = 0
         /\ SnapshotId(j) \in jobs[q].known \ dropped
         /\ IsMatch(f, jobs[j].snapshot)
         => jobs[j].snapshot \in Range(jobs[q].answer)

\* Every snapshot is stored and advertised, and every query answered, unless
\* the database rejects it; iterations end.
HasEnded(job) == job.phase \in {"done", "failed"} \/ (job.kind = "observed" /\ job.phase = "stored")
JobsEnd == []<>(stack = <<>> /\ \A j \in DOMAIN jobs : HasEnded(jobs[j]))

\* Queries, joins and aggregations of the in-memory database yield what their
\* documentation says.
QueriesAsDocumented ==
  /\ TypeOK
  /\ YieldsPage
  /\ ResultsReported
  /\ JoinsAsDocumented
  /\ AggregatesConsistent

\* Snapshots are stored before they are advertised, with the object as it was
\* when the snapshot was taken, and are retrieved by queries from then on.
HistorianFaithful == StoredBeforeAdvertised /\ SnapshotAsTaken /\ AnswersComplete

==============================================================================

------------------------------ MODULE SqlAdapters ------------------------------
(***************************************************************************)
(* The PostgreSQL and the SQLite adapter with callers that interleave:     *)
(* transactions, statements, queries in chunks (PostgreSQL) and queries    *)
(* row by row (SQLite).                                                    *)
(***************************************************************************)
EXTENDS SqlCursors, SqliteRows

-----------------------------------------------------------------------------
Continue(p) ==
  \/ Query(p)
  \/ BeginTransaction(p) \/ BeginFails(p)
  \/ ActionWrites(p) \/ ActionWriteFails(p) \/ ActionNests(p)
  \/ \E o \in Options : ActionFetches(p, o)
  \/ \E isFulfilled \in BOOLEAN : ActionEnds(p, isFulfilled)
  \/ CommitTransaction(p) \/ CommitFails(p) \/ RollbackTransaction(p) \/ RollbackFails(p)
  \/ Declare(p) \/ DeclareFails(p) \/ Fetch(p) \/ FetchFails(p)
  \/ Consume(p) \/ \E n \in 1..FetchSize, throws \in BOOLEAN : ConsumeUpTo(p, n, throws)
  \/ \E dontBreak \in BOOLEAN : LastBatch(p, dontBreak)
  \/ Close(p) \/ CloseFails(p)
  \/ StartRows(p) \/ StartRowsFails(p) \/ SkipRow(p) \/ StepFails(p)
  \/ \E outcome \in {"goes on", "breaks", "throws"} : GiveRow(p, outcome) \/ Complete(p, outcome)

Progress == (\E s \in Sessions : Grant(s)) \/ (\E p \in Callers : Continue(p))

Next ==
  \/ \E p \in Callers, kind \in {"transaction", "chunks", "rows", "statement"}, o \in Options :
       Call(p, kind, o)
  \/ Progress

Spec == Init /\ [][Next]_vars
FairSpec == Spec /\ WF_vars(Progress)

-----------------------------------------------------------------------------
(* Properties *)

Phases == {"new", "waiting", "statement", "begin", "action", "nesting", "commit", "rollback",
           "declare", "fetch", "rows", "resolved", "rejected"}
HoldsClient(p) ==
  callers[p].phase \in {"begin", "action", "nesting", "commit", "rollback", "declare", "fetch"}
\* A caller at work on a client holds it for itself.
TypeOK ==
  /\ adapter \in Adapters
  /\ \A s \in Sessions : /\ sessions[s].state \in {"idle", "tx", "aborted"}
                         /\ sessions[s].holder \in {0} \cup Callers
                         /\ sessions[s].state # "tx" => sessions[s].pending = {}
  /\ \A p \in Callers : /\ callers[p].phase \in Phases
                        /\ callers[p].phase \in {"waiting", "nesting"} <=> p \in Range(waiting)
                        /\ Pooled /\ HoldsClient(p) => Session(p).holder = p
  /\ failures \in 0..MaxFailures

HasEnded(p) == callers[p].phase \in {"resolved", "rejected"}
IsDead(p) == callers[p].kind = "chunks" /\ (query[p].take = 0 \/ query[p].phase = "failed")

\* No client is in a transaction block, or has an open cursor, while it waits
\* in the pool: its next user would go on with the transaction of another.
IdleClean ==
  Pooled => \A s \in Sessions : sessions[s].holder = 0 =>
    sessions[s].state = "idle" /\ sessions[s].pending = {} /\ ~sessions[s].cursor

\* Who has ended holds no client; but for a query in chunks that takes no rows
\* or whose cursor cannot be declared.
ClientsReleased ==
  Pooled => \A s \in Sessions : sessions[s].holder # 0 /\ HasEnded(sessions[s].holder) =>
    IsDead(sessions[s].holder)

\* A transaction is committed as a whole or not at all, and its promise tells
\* which: fulfilled when committed, rejected when rolled back.
TellsOutcome(p) ==
  LET c == callers[p]
  IN /\ c.writes \cap committed \in {{}, c.writes}
     /\ c.phase = "resolved" => c.writes \subseteq committed
     /\ c.phase = "rejected" => c.writes \cap committed = {}
\* An action that is fulfilled although a statement has failed is told that it
\* is committed, and after a commit that failed the outcome is unknown.  With
\* SQLite this holds as long as no other call overlaps with the transaction.
Atomic ==
  \A p \in Callers : ~callers[p].swallowed /\ ~callers[p].unknown /\ ~callers[p].overlapped =>
    TellsOutcome(p)

\* Independent transactions can be invoked in parallel.
ParallelAtomic == \A p \in Callers : ~callers[p].swallowed /\ ~callers[p].unknown => TellsOutcome(p)

\* A query in chunks yields the rows of its page, each once and in order, of the
\* state of the database when its cursor was declared.
PageOf(q) ==
  LET rows == Without(q.source, q.skip)
  IN IF q.take = -1 THEN rows ELSE FirstRows(rows, q.take)
YieldsPage ==
  \A p \in Callers : query[p] # NoQuery /\ Pooled =>
    LET q == query[p]
        y == FlattenSeq(q.given) \o q.batch
    IN /\ (q.phase \in {"rows", "last", "close", "error"} => IsPrefix(y, PageOf(q)))
       /\ q.phase = "close" /\ ~q.broken => y = PageOf(q)
       /\ q.phase = "close" => q.results = Len(FlattenSeq(q.given))

\* A query of SQLite yields the rows that its statement reads, in order; all of them,
\* unless it is broken, when its promise is fulfilled.  When it is rejected, only its
\* last batch can have been given before: one whose action has thrown is given again.
RowsYielded ==
  \A p \in Callers : callers[p].kind = "rows" =>
    LET q == query[p]
        y == FlattenSeq(q.given)
    IN CASE callers[p].phase = "rows"     -> IsPrefix(y \o q.batch, q.source)
         [] callers[p].phase = "resolved" -> /\ IsPrefix(y, q.source) /\ q.results = Len(y)
                                             /\ q.broken \/ y = q.source
         [] callers[p].phase = "rejected" ->
              q.given # <<>> => IsPrefix(FlattenSeq(Front(q.given)), q.source)

\* Every call ends, unless all clients are held by such dead queries and by
\* transactions that wait for one more client.
Starved ==
  /\ waiting # <<>>
  /\ \A s \in Sessions : sessions[s].holder # 0 /\
       (IsDead(sessions[s].holder) \/ callers[sessions[s].holder].phase = "nesting")
CallsEnd ==
  []<>(\A p \in Callers : callers[p].phase = "new" \/ HasEnded(p) \/ Starved)

\* Connections that nobody uses are outside of a transaction, and the adapter
\* gets all clients back when the calls have ended.
PoolConsistent == TypeOK /\ IdleClean /\ ClientsReleased

\* A query yields each row of its page once, in order, and reports as many
\* results as it has yielded.
QueriesYield == YieldsPage /\ RowsYielded

==============================================================================

------------------------------ MODULE SqlCursors ------------------------------
(***************************************************************************)
(* Fetching the rows of a query in chunks from a cursor of PostgreSQL, on  *)
(* a client of its own, which is put into a transaction block for the      *)
(* cursor, or on the client of the caller's transaction.                   *)
(***************************************************************************)
EXTENDS SqlTransactions

Session(p) == sessions[SessionOf(p)]
IsInTransaction(p) == callers[p].kind = "transaction"

AfterQuery(p) == IF IsInTransaction(p) THEN "action" ELSE "resolved"
AfterError(p) == IF IsInTransaction(p) THEN "action" ELSE "rejected"

\* A cursor that cannot be declared is not closed, nor is its client released; the
\* same holds for a query that takes no rows.
\* queryCursorLazy: what the cursor yields is fixed when it is declared.
Declare(p) ==
  /\ callers[p].phase = "declare" /\ Session(p).state # "aborted"
  /\ LET s == SessionOf(p)
         rows == InOrder(Visible(s))
         q == query[p]
     IN /\ sessions' = [sessions EXCEPT ![s].state = "tx", ![s].cursor = q.take # 0 \/ @]
        /\ query' = [query EXCEPT ![p].source = rows, ![p].rest = rows,
                                  ![p].phase = IF q.take = 0 THEN "resolved" ELSE "fetch"]
        /\ Goes(p, IF q.take = 0 THEN AfterQuery(p) ELSE "fetch")
  /\ UNCHANGED <<adapter, waiting, committed, failures>>

DeclareFails(p) ==
  /\ callers[p].phase = "declare"
  /\ IF Session(p).state = "aborted" THEN NoFailure ELSE Fails
  /\ sessions' = Aborted(SessionOf(p))
  /\ query' = [query EXCEPT ![p].phase = "failed"]
  /\ Goes(p, AfterError(p))
  /\ UNCHANGED <<adapter, waiting, committed>>

\* readCursor: MOVE over the rows to be skipped before the first FETCH
Skipped(q) == IF q.isFirst THEN q.skip ELSE 0

FirstRows(rows, n) == SubSeq(rows, 1, Min({n, Len(rows)}))
Without(rows, n) == SubSeq(rows, n + 1, Len(rows))

Fetch(p) ==
  /\ callers[p].phase = "fetch" /\ query[p].phase = "fetch"
  /\ LET q == query[p]
         rows == Without(q.rest, Skipped(q))
     IN query' = [query EXCEPT ![p] =
          [q EXCEPT !.chunk = FirstRows(rows, FetchSize), !.rest = Without(rows, FetchSize),
                    !.isFull = Len(rows) >= FetchSize, !.isFirst = FALSE, !.phase = "rows"]]
  /\ NoFailure
  /\ UNCHANGED <<adapter, sessions, waiting, committed, callers>>

FetchFails(p) ==
  /\ callers[p].phase = "fetch" /\ query[p].phase = "fetch" /\ Fails
  /\ sessions' = Aborted(SessionOf(p))
  /\ query' = [query EXCEPT ![p].phase = "error"]
  /\ UNCHANGED <<adapter, waiting, committed, callers>>

\* The callback is given a row, or a batch when it is full.
IsCalledBack(q) == q.mode = "each" \/ Len(q.batch) + 1 = q.size
WithRow(q, row) ==
  LET batch == Append(q.batch, row)
  IN IF q.mode = "each" THEN [q EXCEPT !.given = Append(@, <<row>>)]
     ELSE IF IsCalledBack(q) THEN [q EXCEPT !.given = Append(@, batch), !.batch = <<>>]
     ELSE [q EXCEPT !.batch = batch]

IsAllTaken(q) == q.take > 0 /\ q.results >= q.take

\* Fault: a full chunk is taken for the last one
IsReadByAnyChunk(q) == q.phase = "rows"
IsReadCompletely(q) == ~q.isFull

\* The rows of a chunk are consumed synchronously, up to one whose callback
\* breaks or throws.
Consumed(q, n) ==
  LET last == FoldLeft(LAMBDA acc, row : WithRow(acc, row), q, FirstRows(q.chunk, n))
  IN [q EXCEPT !.given = last.given, !.batch = last.batch, !.results = @ + n, !.chunk = <<>>]
Takeable(q) == IF q.take > 0 THEN Min({q.take - q.results, Len(q.chunk)}) ELSE Len(q.chunk)

Consume(p) ==
  /\ callers[p].phase = "fetch" /\ query[p].phase = "rows"
  /\ LET q == Consumed(query[p], Takeable(query[p]))
     IN query' = [query EXCEPT ![p] =
          [q EXCEPT !.phase = IF IsAllTaken(q) \/ IsReadCompletely(q) THEN "last" ELSE "fetch"]]
  /\ UNCHANGED <<adapter, sessions, waiting, committed, callers, failures>>

ConsumeUpTo(p, n, throws) ==
  /\ callers[p].phase = "fetch" /\ query[p].phase = "rows"
  /\ n <= Takeable(query[p])
  /\ LET q == Consumed(query[p], n)
     IN /\ q.mode = "batch" => q.batch = <<>>
        /\ query' = [query EXCEPT ![p] =
             IF throws THEN [q EXCEPT !.phase = "error"]
             ELSE [q EXCEPT !.phase = "last", !.broken = TRUE]]
  /\ UNCHANGED <<adapter, sessions, waiting, committed, callers, failures>>

\* The last batch, empty if there is no row at all
LastBatch(p, dontBreak) ==
  /\ callers[p].phase = "fetch" /\ query[p].phase = "last"
  /\ LET q == query[p]
         isCalled == q.mode = "batch" /\ (q.batch # <<>> \/ q.results = 0)
     IN /\ dontBreak \/ isCalled
        /\ query' = [query EXCEPT ![p] =
             IF isCalled
             THEN [q EXCEPT !.given = Append(@, q.batch), !.batch = <<>>, !.phase = "close",
                            !.broken = @ \/ ~dontBreak]
             ELSE [q EXCEPT !.phase = "close"]]
  /\ UNCHANGED <<adapter, sessions, waiting, committed, callers, failures>>

\* closeCursor: COMMIT or ROLLBACK ends the transaction block of the cursor,
\* or CLOSE the cursor in the caller's transaction; an error there destroys a
\* client that is not the transaction's.
\* Fault: the client is released without ending the transaction block
EndOfBlockMissing(session) == [session EXCEPT !.holder = 0]
EndOfBlock(session) == [session EXCEPT !.state = "idle", !.pending = {}, !.cursor = FALSE, !.holder = 0]
CursorClosed(session) == [session EXCEPT !.cursor = FALSE]

\* Fault: only a query that has read its rows is closed
IsClosingOnSuccess(q) == q.phase = "close"
IsClosing(q) == q.phase \in {"close", "error"}

\* Only how a query has ended is kept.
Ended(q, phase) == [NewQuery(q) EXCEPT !.phase = phase]

Close(p) ==
  /\ callers[p].phase = "fetch" /\ IsClosing(query[p])
  /\ LET isError == query[p].phase = "error"
     IN /\ query' = [query EXCEPT ![p] = Ended(@, IF isError THEN "failed" ELSE "resolved")]
        /\ Goes(p, IF isError THEN AfterError(p) ELSE AfterQuery(p))
  /\ sessions' = [sessions EXCEPT ![SessionOf(p)] =
                    IF IsInTransaction(p) THEN CursorClosed(@) ELSE EndOfBlock(@)]
  /\ NoFailure
  /\ UNCHANGED <<adapter, waiting, committed>>

CloseFails(p) ==
  /\ callers[p].phase = "fetch" /\ IsClosing(query[p]) /\ Fails
  /\ LET isError == query[p].phase = "error"
     IN /\ query' = [query EXCEPT ![p] = Ended(@, IF isError THEN "failed" ELSE "resolved")]
        /\ Goes(p, IF isError THEN AfterError(p) ELSE AfterQuery(p))
  /\ IF IsInTransaction(p) THEN sessions' = Aborted(SessionOf(p)) ELSE Destroyed(SessionOf(p))
  /\ UNCHANGED <<adapter, waiting, committed>>
==============================================================================

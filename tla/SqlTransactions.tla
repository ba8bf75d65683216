---------------------------- MODULE SqlTransactions ----------------------------
(***************************************************************************)
(* Transactions and queries of the SQL adapters.                           *)
(*                                                                         *)
(* The PostgreSQL adapter takes the clients of a pool: one for each        *)
(* transaction, one for each query that is fetched in chunks from a        *)
(* cursor, and one for the time of a single statement.  The SQLite adapter *)
(* for Node.js runs everything on the one connection of its context.       *)
(*                                                                         *)
(* Callers interleave at every statement, as each awaits its own.  The     *)
(* database is the set of rows committed; a transaction's rows are pending *)
(* in its session.  At most MaxFailures statements fail.                   *)
(***************************************************************************)
EXTENDS Integers, SequencesExt

CONSTANTS
  Callers,        \* callers 1..n, each making one call
  Adapters,       \* a subset of {"postgres", "sqlite"}
  PoolSize,       \* number of clients in the pool
  InitialRows,    \* possible numbers of rows committed at the beginning
  MaxWrites,      \* bound on the writes of a transaction
  RowsPerCaller,  \* numbers of rows kept for each caller
  MaxFailures,    \* bound on failing statements
  FetchSize,      \* rows fetched at once
  Options,        \* records of skip, take (-1 if undefined), mode and size of queries
  NoQuery

ASSUME CallersAssumption == Callers \subseteq Nat \ {0}
ASSUME PoolAssumption == Adapters \subseteq {"postgres", "sqlite"} /\ PoolSize \in Nat \ {0}
ASSUME BoundsAssumption == MaxWrites \in Nat /\ MaxFailures \in Nat /\ InitialRows \subseteq Nat
\* The rows that a caller writes are numbered apart from all others.
ASSUME RowsAssumption ==
  RowsPerCaller \in Nat /\ \A n \in InitialRows \cup {MaxWrites} : n < RowsPerCaller

VARIABLES adapter, sessions, waiting, committed, callers, query, failures

vars == <<adapter, sessions, waiting, committed, callers, query, failures>>

Idle == [state |-> "idle", pending |-> {}, cursor |-> FALSE, holder |-> 0]
NewCaller == [kind |-> "none", phase |-> "new", session |-> 0, writes |-> {}, nested |-> FALSE,
              swallowed |-> FALSE, unknown |-> FALSE, overlapped |-> FALSE]

Sessions == 1..PoolSize
Pooled == adapter = "postgres"

Init ==
  /\ adapter \in Adapters
  /\ sessions = [s \in Sessions |-> Idle]
  /\ waiting = <<>>
  /\ \E n \in InitialRows : committed = 1..n
  /\ callers = [p \in Callers |-> NewCaller]
  /\ query = [p \in Callers |-> NoQuery]
  /\ failures = 0

SessionOf(p) == IF Pooled THEN callers[p].session ELSE 1
Visible(s) == committed \cup sessions[s].pending
\* Rows in the order of the query
InOrder(rows) ==
  [i \in 1..Cardinality(rows) |-> CHOOSE r \in rows : Cardinality({x \in rows : x < r}) = i - 1]

Goes(p, phase) == callers' = [callers EXCEPT ![p].phase = phase]

\* A client is released as it is; with an error it is destroyed, and replaced.
Released(s) == sessions' = [sessions EXCEPT ![s].holder = 0]
Destroyed(s) == sessions' = [sessions EXCEPT ![s] = Idle]

Fails == failures < MaxFailures /\ failures' = failures + 1
NoFailure == UNCHANGED failures

-----------------------------------------------------------------------------
(* Calls, and the pool of clients *)

FirstPhase(kind) ==
  IF Pooled THEN "waiting"
  ELSE CASE kind = "transaction" -> "begin"
         [] kind = "rows"        -> "rows"
         [] OTHER                -> "statement"

\* With SQLite, iquery ignores its options.
OptionsOf(kind, o) == IF kind = "rows" THEN [o EXCEPT !.skip = 0, !.take = -1] ELSE o
NewQuery(o) ==
  [skip |-> o.skip, take |-> o.take, mode |-> o.mode, size |-> o.size, phase |-> "declare",
   source |-> <<>>, rest |-> <<>>, chunk |-> <<>>, isFull |-> FALSE, isFirst |-> TRUE,
   results |-> 0, batch |-> <<>>, given |-> <<>>, broken |-> FALSE]

\* Callers are numbered in the order of their calls.
Call(p, kind, o) ==
  /\ callers[p].phase = "new"
  /\ \A r \in 1..(p - 1) : callers[r].phase # "new"
  /\ kind = "chunks" => Pooled
  /\ kind = "rows" => ~Pooled
  /\ callers' = [callers EXCEPT ![p] = [NewCaller EXCEPT !.kind = kind, !.phase = FirstPhase(kind)]]
  /\ query' = [query EXCEPT ![p] = IF kind \in {"chunks", "rows"}
                                     THEN NewQuery(OptionsOf(kind, o)) ELSE NoQuery]
  /\ waiting' = IF Pooled THEN Append(waiting, p) ELSE waiting
  /\ UNCHANGED <<adapter, sessions, committed, failures>>

\* The pool gives the first client that is free to the caller that waits longest.  A
\* nested transaction gives it back and is rejected.
PhaseWithClient(p) ==
  CASE callers[p].kind = "transaction"  -> "begin"
    [] callers[p].kind = "chunks"       -> "declare"
    [] OTHER                            -> "statement"

\* Fault: a nested transaction gives back the client of the outer one
GivesBackOuter(p) == sessions' = [sessions EXCEPT ![callers[p].session].holder = 0]
GivesBack(p) == UNCHANGED sessions

Grant(s) ==
  /\ waiting # <<>> /\ Pooled
  /\ sessions[s].holder = 0
  /\ \A r \in 1..(s - 1) : sessions[r].holder # 0
  /\ LET p == Head(waiting)
     IN /\ waiting' = Tail(waiting)
        /\ IF callers[p].phase = "nesting"
           THEN Goes(p, "action") /\ GivesBack(p)
           ELSE /\ callers' = [callers EXCEPT ![p].phase = PhaseWithClient(p), ![p].session = s]
                /\ sessions' = [sessions EXCEPT ![s].holder = p]
  /\ UNCHANGED <<adapter, committed, query, failures>>

\* A statement outside of transactions is committed at once, unless a
\* transaction is in progress on the connection it shares.
Write(s, row) ==
  IF sessions[s].state = "idle"
  THEN committed' = committed \cup {row} /\ UNCHANGED sessions
  ELSE sessions' = [sessions EXCEPT ![s].pending = @ \cup {row}] /\ UNCHANGED committed

Overlaps(p) == ~Pooled /\ sessions[1].holder \notin {0, p}
MarkOverlap(p, next) == \* everyone involved in an overlap, for the properties
  callers' = [x \in Callers |->
    IF x = p THEN [next EXCEPT !.overlapped = Overlaps(p) \/ @]
    ELSE IF Overlaps(p) /\ x = sessions[1].holder THEN [callers[x] EXCEPT !.overlapped = TRUE]
    ELSE callers[x]]

RowOf(p) == RowsPerCaller * p + Cardinality(callers[p].writes)

Query(p) ==
  /\ callers[p].phase = "statement"
  /\ LET s == SessionOf(p)
     IN IF Pooled
        THEN committed' = committed \cup {RowOf(p)} /\ Released(s)
        ELSE Write(s, RowOf(p))
  /\ MarkOverlap(p, [callers[p] EXCEPT !.phase = "resolved", !.writes = {RowOf(p)}])
  /\ NoFailure
  /\ UNCHANGED <<adapter, waiting, query>>

-----------------------------------------------------------------------------
(* Transactions *)

\* With SQLite, beginning fails while another transaction is in progress.
MayBegin(p) == sessions[SessionOf(p)].state = "idle"

BeginTransaction(p) ==
  /\ callers[p].phase = "begin"
  /\ LET s == SessionOf(p)
     IN IF MayBegin(p)
        THEN /\ sessions' = [sessions EXCEPT ![s].state = "tx", ![s].holder = p]
             /\ Goes(p, "action")
        ELSE /\ MarkOverlap(p, [callers[p] EXCEPT !.phase = "rollback"])
             /\ UNCHANGED sessions
  /\ NoFailure
  /\ UNCHANGED <<adapter, waiting, committed, query>>

BeginFails(p) ==
  /\ callers[p].phase = "begin" /\ Fails
  /\ IF Pooled THEN Destroyed(SessionOf(p)) /\ Goes(p, "rejected")
     ELSE UNCHANGED sessions /\ MarkOverlap(p, [callers[p] EXCEPT !.phase = "rollback"])
  /\ UNCHANGED <<adapter, waiting, committed, query>>

\* The action's statements go to the session of its transaction.
\* Fault: a statement of the action uses the pool
WriteOnPool(s, row) == committed' = committed \cup {row} /\ UNCHANGED sessions
WriteInTransaction(s, row) == Write(s, row)

ActionWrites(p) ==
  /\ callers[p].phase = "action" /\ Cardinality(callers[p].writes) < MaxWrites
  /\ sessions[SessionOf(p)].state # "aborted"
  /\ WriteInTransaction(SessionOf(p), RowOf(p))
  /\ callers' = [callers EXCEPT ![p].writes = @ \cup {RowOf(p)}]
  /\ NoFailure
  /\ UNCHANGED <<adapter, waiting, query>>

\* A failing statement aborts a transaction of PostgreSQL.
Aborted(s) == IF Pooled THEN [sessions EXCEPT ![s].state = "aborted", ![s].pending = {}]
                        ELSE sessions

ActionWriteFails(p) ==
  /\ callers[p].phase = "action" /\ Fails
  /\ sessions' = Aborted(SessionOf(p))
  /\ UNCHANGED <<adapter, waiting, committed, callers, query>>

ActionNests(p) ==
  /\ callers[p].phase = "action" /\ ~callers[p].nested
  /\ callers' = [callers EXCEPT ![p].nested = TRUE, ![p].phase = IF Pooled THEN "nesting" ELSE @]
  /\ waiting' = IF Pooled THEN Append(waiting, p) ELSE waiting
  /\ UNCHANGED <<adapter, sessions, committed, query, failures>>

ActionFetches(p, o) ==
  /\ callers[p].phase = "action" /\ Pooled
  /\ query[p] = NoQuery
  /\ query' = [query EXCEPT ![p] = NewQuery(o)]
  /\ Goes(p, "declare")
  /\ UNCHANGED <<adapter, sessions, waiting, committed, failures>>

ActionEnds(p, isFulfilled) ==
  /\ callers[p].phase = "action"
  /\ Goes(p, IF isFulfilled THEN "commit" ELSE "rollback")
  /\ UNCHANGED <<adapter, sessions, waiting, committed, query, failures>>

\* Committing an aborted transaction is no error for PostgreSQL, it rolls back.
\* With SQLite, committing fails without a transaction in progress.
\* Fault: a committed transaction keeps its client
KeptAfterCommit(session) == [Idle EXCEPT !.holder = session.holder]
AfterCommit(session) == Idle

CommitTransaction(p) ==
  /\ callers[p].phase = "commit"
  /\ LET s == SessionOf(p)
         session == sessions[s]
     IN /\ committed' = committed \cup session.pending
        /\ sessions' = [sessions EXCEPT ![s] = AfterCommit(@)]
        /\ MarkOverlap(p, [callers[p] EXCEPT
             !.phase = IF session.state = "idle" THEN "rejected" ELSE "resolved",
             !.swallowed = session.state = "aborted"])
  /\ NoFailure
  /\ UNCHANGED <<adapter, waiting, query>>

CommitFails(p) ==
  /\ callers[p].phase = "commit" /\ Fails
  /\ LET s == SessionOf(p)
     IN /\ \/ committed' = committed
           \/ Pooled /\ committed' = committed \cup sessions[s].pending
        /\ IF Pooled THEN Destroyed(s) ELSE UNCHANGED sessions
        /\ callers' = [callers EXCEPT ![p].phase = "rejected", ![p].unknown = TRUE]
  /\ UNCHANGED <<adapter, waiting, query>>

\* Rolling back ends the transaction in progress, whosever it is; if it fails,
\* the client is destroyed.
RollbackTransaction(p) ==
  /\ callers[p].phase = "rollback"
  /\ sessions' = [sessions EXCEPT ![SessionOf(p)] = Idle]
  /\ MarkOverlap(p, [callers[p] EXCEPT !.phase = "rejected"])
  /\ UNCHANGED <<adapter, waiting, committed, query, failures>>

RollbackFails(p) ==
  /\ callers[p].phase = "rollback" /\ Pooled /\ Fails
  /\ Destroyed(SessionOf(p))
  /\ Goes(p, "rejected")
  /\ UNCHANGED <<adapter, waiting, committed, query>>
==============================================================================

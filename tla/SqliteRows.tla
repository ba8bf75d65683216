------------------------------ MODULE SqliteRows ------------------------------
(***************************************************************************)
(* Queries of the SQLite adapter that yield their rows one by one: a       *)
(* callback for each row, and one for the completion.                      *)
(*                                                                         *)
(* What the statement reads is chosen when it starts; the rows come with   *)
(* other callers' statements in between.                                   *)
(***************************************************************************)
EXTENDS SqlTransactions

Iterates(p, phase) == callers[p].kind = "rows" /\ query[p].phase = phase

StartRows(p) ==
  /\ Iterates(p, "declare")
  /\ LET rows == InOrder(Visible(1))
     IN query' = [query EXCEPT ![p].source = rows, ![p].rest = rows, ![p].phase = "rows"]
  /\ NoFailure
  /\ UNCHANGED <<adapter, sessions, waiting, committed, callers>>

StartRowsFails(p) ==
  /\ Iterates(p, "declare") /\ Fails
  /\ query' = [query EXCEPT ![p].phase = "failed"]
  /\ Goes(p, "rejected")
  /\ UNCHANGED <<adapter, sessions, waiting, committed>>

\* After a break or an error the pending rows are skipped.
Skips(q) == q.phase = "failing" \/ q.broken

SkipRow(p) ==
  /\ Iterates(p, "rows") \/ Iterates(p, "failing")
  /\ Skips(query[p]) /\ query[p].rest # <<>>
  /\ query' = [query EXCEPT ![p].rest = Tail(@)]
  /\ UNCHANGED <<adapter, sessions, waiting, committed, callers, failures>>

\* The row is given to the callback, or is added to a batch which is given when it
\* is full.  A batch whose callback throws is kept.
IsGiven(q) == q.mode = "each" \/ Len(q.batch) + 1 = q.size
WithNext(q) ==
  LET batch == Append(q.batch, Head(q.rest))
  IN CASE q.mode = "each" -> [q EXCEPT !.given = Append(@, <<Head(q.rest)>>)]
       [] q.mode = "batch" /\ IsGiven(q) -> [q EXCEPT !.given = Append(@, batch), !.batch = <<>>]
       [] OTHER           -> [q EXCEPT !.batch = batch]

GiveRow(p, outcome) ==
  /\ Iterates(p, "rows") /\ ~Skips(query[p]) /\ query[p].rest # <<>>
  /\ LET q == query[p]
         next == [WithNext(q) EXCEPT !.rest = Tail(@)]
     IN /\ outcome # "goes on" => IsGiven(q)
        /\ query' = [query EXCEPT ![p] =
             CASE outcome = "throws" ->
                    [next EXCEPT !.phase = "failing",
                                 !.batch = IF q.mode = "batch" THEN Append(q.batch, Head(q.rest)) ELSE @]
               [] OTHER -> [next EXCEPT !.results = @ + 1, !.broken = outcome = "breaks"]]
  /\ IF outcome = "throws" THEN Goes(p, "rejected") ELSE UNCHANGED callers
  /\ UNCHANGED <<adapter, sessions, waiting, committed, failures>>

\* An error instead of the next row
StepFails(p) ==
  /\ Iterates(p, "rows") /\ ~Skips(query[p]) /\ query[p].rest # <<>> /\ Fails
  /\ query' = [query EXCEPT ![p].phase = "failing", ![p].rest = <<>>]
  /\ Goes(p, "rejected")
  /\ UNCHANGED <<adapter, sessions, waiting, committed>>

\* The last batch is given, also an empty one if there is no row, and also after an
\* error.  Without a batch action this is an error itself.
\* Fault: the rows left over by full batches are not given
IsLastOfNone(q) == q.results = 0
IsLastGiven(q) == q.batch # <<>> \/ q.results = 0

Complete(p, outcome) ==
  /\ Iterates(p, "rows") \/ Iterates(p, "failing")
  /\ query[p].rest = <<>>
  /\ LET q == query[p]
         isGiven == IsLastGiven(q) /\ q.mode = "batch"
         isError == IsLastGiven(q) /\ (q.mode = "each" \/ outcome = "throws")
         isSettled == q.phase = "failing"
     IN /\ outcome # "goes on" => isGiven
        /\ query' = [query EXCEPT ![p] =
             [q EXCEPT !.phase = IF isError \/ isSettled THEN "failed" ELSE "resolved",
                       !.given = IF isGiven THEN Append(@, q.batch) ELSE @,
                       !.broken = @ \/ outcome = "breaks"]]
        /\ Goes(p, IF isError \/ isSettled THEN "rejected" ELSE "resolved")
  /\ UNCHANGED <<adapter, sessions, waiting, committed, failures>>
==============================================================================

--------------------------- MODULE SqlAdaptersProofs ---------------------------
(***************************************************************************)
(* The pool of the PostgreSQL adapter gets its clients back, clean, and    *)
(* transactions of the SQL adapters are atomic: proofs for any number of   *)
(* callers, clients, statements and failures.                              *)
(***************************************************************************)
EXTENDS SqlAdapters, SequenceTheorems, FiniteSetTheorems, TLAPS

-----------------------------------------------------------------------------
(* The inductive invariant of the pool *)

Holders == {0} \cup Callers
AtWork == {"statement", "begin", "action", "nesting", "commit", "rollback", "declare", "fetch"}
Works(p) == callers[p].phase \in AtWork

SessionType == [state : {"idle", "tx", "aborted"}, pending : SUBSET Nat, cursor : BOOLEAN, holder : Holders]
CallerType ==
  [kind : {"none", "transaction", "chunks", "rows", "statement"}, phase : Phases,
   session : {0} \cup Sessions, writes : SUBSET Nat, nested : BOOLEAN,
   swallowed : BOOLEAN, unknown : BOOLEAN, overlapped : BOOLEAN]

\* A query has all its fields.
IsQuery(q) ==
  q \in [skip : {q.skip}, take : {q.take}, mode : {q.mode}, size : {q.size}, phase : {q.phase},
         source : {q.source}, rest : {q.rest}, chunk : {q.chunk}, isFull : {q.isFull},
         isFirst : {q.isFirst}, results : {q.results}, batch : {q.batch}, given : {q.given},
         broken : {q.broken}]

Typed ==
  /\ adapter \in Adapters
  /\ sessions \in [Sessions -> SessionType]
  /\ callers \in [Callers -> CallerType]
  /\ waiting \in Seq(Callers)
  /\ query = [p \in Callers |-> query[p]]
  /\ failures \in 0..MaxFailures
  /\ \A p \in Callers : IsFiniteSet(callers[p].writes)
  /\ committed \in SUBSET Nat

\* What a caller is doing fits to the kind of its call, and to the adapter.
PhaseFits(p) ==
  /\ callers[p].phase = "new" <=> callers[p].kind = "none"
  /\ callers[p].phase \in {"begin", "action", "nesting", "commit", "rollback"} =>
       callers[p].kind = "transaction"
  /\ callers[p].phase = "statement" => callers[p].kind = "statement"
  /\ callers[p].phase = "rows" => callers[p].kind = "rows"
  /\ callers[p].phase \in {"declare", "fetch"} =>
       Pooled /\ callers[p].kind \in {"transaction", "chunks"} /\ IsQuery(query[p])
  /\ callers[p].phase \in {"waiting", "nesting"} => Pooled
  /\ callers[p].kind = "rows" => ~Pooled
  /\ callers[p].kind = "chunks" => Pooled /\ IsQuery(query[p])

\* Who waits for a client is in the queue once.
CallsFit ==
  /\ \A p \in Callers : PhaseFits(p)
  /\ \A p \in Callers : callers[p].phase \in {"waiting", "nesting"} <=> p \in Range(waiting)
  /\ \A i, j \in 1..Len(waiting) : waiting[i] = waiting[j] => i = j

IsClean(s) == sessions[s].state = "idle" /\ sessions[s].pending = {} /\ ~sessions[s].cursor

\* Callers at work and clients that are held belong to each other.
ClientsHeld ==
  /\ \A s \in Sessions :
       /\ sessions[s].state # "tx" => sessions[s].pending = {}
       /\ sessions[s].state = "aborted" => Pooled
  /\ \A p \in Callers : Pooled /\ Works(p) =>
       callers[p].session \in Sessions /\ sessions[callers[p].session].holder = p
  /\ \A s \in Sessions, p \in Callers : Pooled /\ sessions[s].holder = p =>
       callers[p].session = s /\ (Works(p) \/ (HasEnded(p) /\ IsDead(p)))
  /\ \A s \in Sessions : Pooled /\ sessions[s].holder = 0 => IsClean(s)
  /\ \A s \in Sessions, p \in Callers :
       Pooled /\ callers[p].phase \in {"statement", "begin"} /\ callers[p].session = s => IsClean(s)

PoolInv == Typed /\ CallsFit /\ ClientsHeld

-----------------------------------------------------------------------------
(* The inductive invariant of transactions *)

\* The numbers of the rows that a caller may write.
RowsOf(p) == {RowsPerCaller * p + i : i \in 0..(RowsPerCaller - 1)}

\* What is known of the outcome of a call: its action has not hidden a failure, its commit
\* has not failed, and on SQLite no other call has overlapped with it.
IsTold(p) == ~callers[p].swallowed /\ ~callers[p].unknown /\ ~callers[p].overlapped

InTransaction(p) ==
  \/ callers[p].phase \in {"action", "nesting", "commit"}
  \/ callers[p].phase \in {"declare", "fetch"} /\ callers[p].kind = "transaction"

RowsApart ==
  /\ \A p \in Callers : callers[p].writes \subseteq RowsOf(p)
  /\ \A p \in Callers : callers[p].kind \in {"none", "chunks", "rows"} \/
                        callers[p].phase \in {"new", "waiting", "statement", "begin"} =>
       callers[p].writes = {}

\* Only a transaction that is told to be committed can hide a failure, and nothing is known
\* of a call that is not made yet.
FlagsFit ==
  /\ \A p \in Callers : callers[p].swallowed => callers[p].kind = "transaction" /\ callers[p].phase = "resolved"
  /\ \A p \in Callers : callers[p].phase = "new" => IsTold(p)

\* Rows are committed with the outcome of their caller, and not before.
CommittedWithOutcome ==
  /\ \A p \in Callers : IsTold(p) /\ (callers[p].phase # "resolved" \/ callers[p].kind \in {"chunks", "rows"}) =>
       committed \cap RowsOf(p) = {}
  /\ \A p \in Callers : IsTold(p) /\ callers[p].phase = "resolved" => callers[p].writes \subseteq committed

\* PostgreSQL: what is pending on a client are the rows of its transaction.
PendingOnClients ==
  Pooled =>
    /\ \A s \in Sessions, p \in Callers : sessions[s].holder = p /\ sessions[s].state = "tx" =>
         sessions[s].pending = callers[p].writes
    /\ \A p \in Callers : InTransaction(p) => sessions[callers[p].session].state # "idle"

\* SQLite: what is pending on the connection are the rows of the transaction in progress,
\* and of calls that overlap.
PendingOnConnection ==
  ~Pooled =>
    /\ sessions[1].state = "idle" <=> sessions[1].holder = 0
    /\ \A p \in Callers : sessions[1].holder = p =>
         /\ callers[p].kind = "transaction"
         /\ callers[p].phase \in {"action", "commit", "rollback", "rejected"}
    /\ \A p \in Callers : IsTold(p) =>
         /\ callers[p].phase \in {"action", "commit"} => sessions[1].holder = p
         /\ sessions[1].holder = p =>
              /\ callers[p].phase \in {"action", "commit", "rollback"}
              /\ sessions[1].pending \cap RowsOf(p) = callers[p].writes
         /\ sessions[1].holder # p => sessions[1].pending \cap RowsOf(p) = {}

AtomicInv == RowsApart /\ FlagsFit /\ CommittedWithOutcome /\ PendingOnClients /\ PendingOnConnection

-----------------------------------------------------------------------------
(* How a step changes a caller and its client *)

SameCaller(r) ==
  /\ callers'[r].kind = callers[r].kind /\ callers'[r].phase = callers[r].phase
  /\ callers'[r].session = callers[r].session

\* What a caller at work does to its own client.
LEMMA OwnSession ==
  ASSUME PoolInv, NEW p \in Callers, Pooled => Works(p)
  PROVE  SessionOf(p) \in Sessions /\ (Pooled => SessionOf(p) = callers[p].session /\ sessions[SessionOf(p)].holder = p)
  BY PoolAssumption DEF PoolInv, ClientsHeld, SessionOf, Sessions

\* A caller at work goes on with its client, or ends and gives it back clean, or
\* is a query that keeps it.
LEMMA HeldStep ==
  ASSUME PoolInv, Typed', adapter' = adapter,
         NEW p \in Callers, Pooled => Works(p),
         \A r \in Callers \ {p} : SameCaller(r) /\ query'[r] = query[r],
         callers'[p].kind = callers[p].kind, callers'[p].session = callers[p].session,
         callers'[p].phase \notin {"statement", "begin"},
         \A t \in Sessions \ {SessionOf(p)} : sessions'[t] = sessions[t],
         sessions'[SessionOf(p)].state # "tx" => sessions'[SessionOf(p)].pending = {},
         sessions'[SessionOf(p)].state = "aborted" => Pooled,
         Pooled =>
           \/ Works(p)' /\ sessions'[SessionOf(p)].holder = p
           \/ ~Works(p)' /\ sessions'[SessionOf(p)].holder = 0 /\ sessions'[SessionOf(p)].state = "idle"
                /\ sessions'[SessionOf(p)].pending = {} /\ ~sessions'[SessionOf(p)].cursor
           \/ ~Works(p)' /\ HasEnded(p)' /\ IsDead(p)' /\ sessions'[SessionOf(p)].holder = p
  PROVE  ClientsHeld'
<1> DEFINE s == SessionOf(p)
<1>1. s \in Sessions /\ (Pooled => s = callers[p].session /\ sessions[s].holder = p)
  BY OwnSession
<1>2. p \notin {0}
  BY CallersAssumption
<1>3. \A t \in Sessions :
         /\ sessions'[t].state # "tx" => sessions'[t].pending = {}
         /\ sessions'[t].state = "aborted" => Pooled'
  BY <1>1 DEF PoolInv, ClientsHeld, Pooled
<1>4. \A r \in Callers : Pooled' /\ Works(r)' =>
         callers'[r].session \in Sessions /\ sessions'[callers'[r].session].holder = r
  <2> SUFFICES ASSUME NEW r \in Callers, Pooled, callers'[r].phase \in AtWork
               PROVE  callers'[r].session \in Sessions /\ sessions'[callers'[r].session].holder = r
    BY DEF Pooled, Works
  <2>1. CASE r = p
    BY <1>1, <2>1 DEF Works
  <2>2. CASE r # p
    <3>1. callers[r].phase \in AtWork /\ callers'[r].session = callers[r].session
      BY <2>2 DEF SameCaller
    <3>2. callers[r].session \in Sessions /\ sessions[callers[r].session].holder = r
      BY <3>1 DEF PoolInv, ClientsHeld, Works
    <3>3. callers[r].session # s
      BY <1>1, <2>2, <3>2
    <3> QED BY <3>1, <3>2, <3>3
  <2> QED BY <2>1, <2>2
<1>5. \A t \in Sessions, h \in Callers : Pooled' /\ sessions'[t].holder = h =>
         callers'[h].session = t /\ (Works(h)' \/ (HasEnded(h)' /\ IsDead(h)'))
  <2> SUFFICES ASSUME NEW t \in Sessions, NEW h \in Callers, Pooled, sessions'[t].holder = h
               PROVE  callers'[h].session = t /\ (Works(h)' \/ (HasEnded(h)' /\ IsDead(h)'))
    BY DEF Pooled
  <2>1. CASE t = s
    <3>1. h # 0
      BY CallersAssumption
    <3>2. h = p
      BY <1>1, <2>1, <3>1
    <3> QED BY <1>1, <2>1, <3>1, <3>2 DEF Works, HasEnded, IsDead
  <2>2. CASE t # s
    <3>1. sessions[t].holder = h
      BY <2>2
    <3>2. callers[h].session = t /\ (Works(h) \/ (HasEnded(h) /\ IsDead(h)))
      BY <3>1 DEF PoolInv, ClientsHeld
    <3>3. SameCaller(h) /\ query'[h] = query[h]
      BY <1>1, <2>2, <3>2
    <3>4. (Works(h) => Works(h)') /\ (HasEnded(h) => HasEnded(h)') /\ (IsDead(h) => IsDead(h)')
      BY <3>3 DEF SameCaller, Works, HasEnded, IsDead
    <3> QED BY <3>2, <3>3, <3>4 DEF SameCaller
  <2> QED BY <2>1, <2>2
<1>6. \A t \in Sessions : Pooled' /\ sessions'[t].holder = 0 => IsClean(t)'
  <2> SUFFICES ASSUME NEW t \in Sessions, Pooled, sessions'[t].holder = 0 PROVE IsClean(t)'
    BY DEF Pooled
  <2>1. CASE t = s
    BY <1>1, <1>2, <2>1 DEF IsClean
  <2>2. CASE t # s
    BY <2>2 DEF PoolInv, ClientsHeld, IsClean
  <2> QED BY <2>1, <2>2
<1>7. \A t \in Sessions, r \in Callers :
         Pooled' /\ callers'[r].phase \in {"statement", "begin"} /\ callers'[r].session = t => IsClean(t)'
  <2> SUFFICES ASSUME NEW t \in Sessions, NEW r \in Callers, Pooled,
                      callers'[r].phase \in {"statement", "begin"}, callers'[r].session = t
               PROVE  IsClean(t)'
    BY DEF Pooled
  <2>1. r # p
    OBVIOUS
  <2>2. callers[r].phase \in {"statement", "begin"} /\ callers[r].session = t
    BY <2>1 DEF SameCaller
  <2>3. sessions[t].holder = r /\ IsClean(t)
    BY <2>2 DEF PoolInv, ClientsHeld, Works, AtWork
  <2>4. t # s
    BY <1>1, <2>1, <2>3
  <2> QED BY <2>3, <2>4 DEF IsClean
<1> QED BY <1>3, <1>4, <1>5, <1>6, <1>7 DEF ClientsHeld

\* A caller that does not wait, before or after the step.
LEMMA FitStep ==
  ASSUME PoolInv, adapter' = adapter, waiting' = waiting,
         NEW p \in Callers,
         \A r \in Callers \ {p} : SameCaller(r) /\ query'[r] = query[r],
         callers[p].phase \notin {"waiting", "nesting"}, callers'[p].phase \notin {"waiting", "nesting"},
         PhaseFits(p)'
  PROVE  CallsFit'
<1>1. \A r \in Callers : PhaseFits(r)'
  <2> SUFFICES ASSUME NEW r \in Callers, r # p PROVE PhaseFits(r)'
    OBVIOUS
  <2>1. PhaseFits(r) /\ SameCaller(r) /\ query'[r] = query[r] /\ Pooled' = Pooled
    BY DEF PoolInv, CallsFit, Pooled
  <2> QED BY <2>1 DEF PhaseFits, SameCaller, IsQuery
<1>2. \A r \in Callers : callers'[r].phase \in {"waiting", "nesting"} <=> r \in Range(waiting')
  BY DEF PoolInv, CallsFit, SameCaller
<1> QED BY <1>1, <1>2 DEF PoolInv, CallsFit

\* A caller goes to another phase; all others stay as they are.
Moves(p, phase) ==
  /\ callers' \in [Callers -> CallerType]
  /\ callers'[p].kind = callers[p].kind /\ callers'[p].session = callers[p].session
  /\ callers'[p].phase = phase /\ IsFiniteSet(callers'[p].writes)
  /\ \A r \in Callers \ {p} : SameCaller(r) /\ callers'[r].writes = callers[r].writes

\* What MarkOverlap does besides the flags of the overlap.
LEMMA Marking ==
  ASSUME Typed, NEW p \in Callers, NEW next \in CallerType, MarkOverlap(p, next)
  PROVE  /\ callers' \in [Callers -> CallerType]
         /\ callers'[p].kind = next.kind /\ callers'[p].session = next.session
         /\ callers'[p].phase = next.phase /\ callers'[p].writes = next.writes
         /\ \A r \in Callers \ {p} : SameCaller(r) /\ callers'[r].writes = callers[r].writes
<1>1. \A r \in Callers : callers[r] \in CallerType
  BY DEF Typed
<1>2. (Overlaps(p) \/ next.overlapped) \in BOOLEAN
  OBVIOUS
<1>3. [next EXCEPT !.overlapped = Overlaps(p) \/ @] \in CallerType
  BY <1>2 DEF CallerType
<1>4. \A r \in Callers : [callers[r] EXCEPT !.overlapped = TRUE] \in CallerType
  BY <1>1 DEF CallerType
<1>5. callers' \in [Callers -> CallerType]
  BY <1>1, <1>3, <1>4 DEF MarkOverlap
<1>6. callers'[p] = [next EXCEPT !.overlapped = Overlaps(p) \/ @]
  BY DEF MarkOverlap
<1>7. callers'[p].kind = next.kind /\ callers'[p].session = next.session
      /\ callers'[p].phase = next.phase /\ callers'[p].writes = next.writes
  BY <1>6 DEF CallerType
<1>8. ASSUME NEW r \in Callers \ {p} PROVE SameCaller(r) /\ callers'[r].writes = callers[r].writes
  <2>1. callers'[r] = callers[r] \/ callers'[r] = [callers[r] EXCEPT !.overlapped = TRUE]
    BY DEF MarkOverlap
  <2> QED BY <1>1, <2>1 DEF SameCaller, CallerType
<1> QED BY <1>5, <1>7, <1>8

LEMMA Moving ==
  ASSUME Typed, NEW p \in Callers, NEW phase \in Phases,
         Goes(p, phase) \/ MarkOverlap(p, [callers[p] EXCEPT !.phase = phase])
  PROVE  Moves(p, phase)
<1> DEFINE next == [callers[p] EXCEPT !.phase = phase]
<1>1. callers[p] \in CallerType /\ next \in CallerType /\ next.phase = phase /\ next.kind = callers[p].kind
      /\ next.session = callers[p].session /\ next.writes = callers[p].writes /\ IsFiniteSet(callers[p].writes)
  BY DEF Typed, CallerType
<1>2. CASE Goes(p, phase)
  BY <1>1, <1>2 DEF Typed, Goes, Moves, SameCaller, CallerType
<1>3. CASE MarkOverlap(p, next)
  <2> HIDE DEF next
  <2> QED BY <1>1, <1>3, Marking DEF Moves
<1> QED BY <1>2, <1>3

\* The rest of the types.
LEMMA TypedStep ==
  ASSUME Typed, adapter' = adapter, waiting' = waiting, failures' \in 0..MaxFailures,
         committed' \in SUBSET Nat, sessions' \in [Sessions -> SessionType],
         query' = [p \in Callers |-> query'[p]],
         NEW p \in Callers, NEW phase, Moves(p, phase)
  PROVE  Typed'
<1>1. \A r \in Callers : IsFiniteSet(callers'[r].writes)
  BY DEF Moves, Typed
<1> QED BY <1>1 DEF Typed, Moves

LEMMA FailureCounted ==
  ASSUME Typed, Fails \/ NoFailure \/ UNCHANGED failures
  PROVE  failures' \in 0..MaxFailures
  BY BoundsAssumption DEF Typed, Fails, NoFailure

\* What becomes of a client.
LEMMA SessionChanges ==
  ASSUME Typed, NEW s \in Sessions
  PROVE  /\ Destroyed(s) => sessions' \in [Sessions -> SessionType] /\ sessions'[s] = Idle
         /\ sessions' = [sessions EXCEPT ![s] = Idle] => Destroyed(s)
         /\ sessions' = Aborted(s) =>
              /\ sessions' \in [Sessions -> SessionType] /\ sessions'[s].holder = sessions[s].holder
              /\ (sessions'[s].state = "aborted" /\ sessions'[s].pending = {}) \/ sessions' = sessions
         /\ Destroyed(s) \/ sessions' = Aborted(s) => \A t \in Sessions \ {s} : sessions'[t] = sessions[t]
<1>1. Idle \in SessionType
  BY DEF Idle, SessionType, Holders
<1>2. sessions[s] \in SessionType
  BY DEF Typed
<1>3. Destroyed(s) => sessions' \in [Sessions -> SessionType] /\ sessions'[s] = Idle
  BY <1>1 DEF Typed, Destroyed
<1>4. [sessions[s] EXCEPT !.state = "aborted", !.pending = {}] \in SessionType
  BY <1>2 DEF SessionType
<1>5. ASSUME Pooled, sessions' = Aborted(s)
      PROVE  /\ sessions' \in [Sessions -> SessionType] /\ sessions'[s].holder = sessions[s].holder
             /\ sessions'[s].state = "aborted" /\ sessions'[s].pending = {}
  <2>1. sessions' = [sessions EXCEPT ![s] = [sessions[s] EXCEPT !.state = "aborted", !.pending = {}]]
    BY <1>2, <1>5 DEF Aborted, Typed, SessionType
  <2> QED BY <1>2, <1>4, <2>1 DEF Typed, SessionType
<1>6. ASSUME ~Pooled, sessions' = Aborted(s) PROVE sessions' = sessions
  BY <1>6 DEF Aborted
<1>7. Destroyed(s) \/ sessions' = Aborted(s) => \A t \in Sessions \ {s} : sessions'[t] = sessions[t]
  BY DEF Destroyed, Aborted, Typed
<1> QED BY <1>3, <1>5, <1>6, <1>7 DEF Destroyed, Typed

\* What a caller that goes to a phase does to its client.
ClientStep(p, phase) ==
  LET s == SessionOf(p)
  IN /\ sessions' \in [Sessions -> SessionType]
     /\ \A t \in Sessions \ {s} : sessions'[t] = sessions[t]
     /\ sessions'[s].state # "tx" => sessions'[s].pending = {}
     /\ sessions'[s].state = "aborted" => Pooled
     /\ Pooled =>
          \/ phase \in AtWork /\ sessions'[s].holder = p
          \/ /\ phase \in {"resolved", "rejected"}
             /\ \/ sessions'[s].holder = p /\ IsDead(p)'
                \/ sessions'[s].holder = 0 /\ sessions'[s].state = "idle"
                   /\ sessions'[s].pending = {} /\ ~sessions'[s].cursor

\* The ways in which the client is changed.
LEMMA ClientSteps ==
  ASSUME PoolInv, NEW p \in Callers, Pooled => Works(p), NEW phase
  PROVE  /\ phase \in AtWork /\ (sessions' = sessions \/ sessions' = Aborted(SessionOf(p))) => ClientStep(p, phase)
         /\ ~Pooled /\ sessions' = sessions => ClientStep(p, phase)
         /\ phase \in {"resolved", "rejected"} /\ Destroyed(SessionOf(p)) => ClientStep(p, phase)
         /\ phase \in {"resolved", "rejected"} /\ IsDead(p)'
              /\ (sessions' = sessions \/ sessions' = Aborted(SessionOf(p))) => ClientStep(p, phase)
<1> DEFINE s == SessionOf(p)
<1>0. s \in Sessions /\ sessions[s] \in SessionType /\ sessions \in [Sessions -> SessionType]
      /\ (Pooled => sessions[s].holder = p) /\ Typed
  BY OwnSession DEF PoolInv, Typed
<1>1. s \in Sessions /\ sessions[s] \in SessionType /\ sessions \in [Sessions -> SessionType]
      /\ (Pooled => sessions[s].holder = p) /\ Typed
      /\ (sessions[s].state # "tx" => sessions[s].pending = {})
      /\ (sessions[s].state = "aborted" => Pooled)
  <2> HIDE DEF s
  <2> QED BY <1>0 DEF PoolInv, ClientsHeld
<1>2. sessions' = sessions \/ sessions' = Aborted(s) =>
        /\ sessions' \in [Sessions -> SessionType] /\ \A t \in Sessions \ {s} : sessions'[t] = sessions[t]
        /\ sessions'[s].holder = sessions[s].holder
        /\ (sessions'[s].state # "tx" => sessions'[s].pending = {})
        /\ (sessions'[s].state = "aborted" => Pooled)
  BY <1>1, SessionChanges DEF Aborted
<1>3. Destroyed(s) => /\ sessions' \in [Sessions -> SessionType] /\ sessions'[s] = Idle
                      /\ \A t \in Sessions \ {s} : sessions'[t] = sessions[t]
  BY <1>1, SessionChanges
<1>4. phase \in AtWork /\ (sessions' = sessions \/ sessions' = Aborted(s)) => ClientStep(p, phase)
  BY <1>1, <1>2 DEF ClientStep
<1>5. ~Pooled /\ sessions' = sessions => ClientStep(p, phase)
  BY <1>1, <1>2 DEF ClientStep
<1>6. phase \in {"resolved", "rejected"} /\ Destroyed(s) => ClientStep(p, phase)
  BY <1>3 DEF ClientStep, Idle
<1>7. phase \in {"resolved", "rejected"} /\ IsDead(p)'
        /\ (sessions' = sessions \/ sessions' = Aborted(s)) => ClientStep(p, phase)
  BY <1>1, <1>2 DEF ClientStep
<1> QED BY <1>4, <1>5, <1>6, <1>7

\* A step of one caller, which does not wait for a client before or after it.
LEMMA PoolStep ==
  ASSUME PoolInv, adapter' = adapter, waiting' = waiting, failures' \in 0..MaxFailures,
         committed' \in SUBSET Nat, query' = [r \in Callers |-> query'[r]],
         NEW p \in Callers, Pooled => Works(p), callers[p].phase \notin {"waiting", "nesting"},
         \A r \in Callers \ {p} : query'[r] = query[r],
         NEW phase, phase \notin {"waiting", "nesting", "statement", "begin"},
         Moves(p, phase), PhaseFits(p)', ClientStep(p, phase)
  PROVE  PoolInv'
<1>1. Typed'
  BY TypedStep DEF PoolInv, ClientStep
<1>2. CallsFit'
  BY FitStep DEF Moves
<1>3. ClientsHeld'
  BY <1>1, HeldStep DEF Moves, ClientStep, Works, HasEnded, AtWork
<1> QED BY <1>1, <1>2, <1>3 DEF PoolInv

-----------------------------------------------------------------------------
(* The pool: transactions *)

LEMMA BeginPool ==
  ASSUME PoolInv, NEW p \in Callers, BeginTransaction(p) \/ BeginFails(p)
  PROVE  PoolInv'
<1> DEFINE s == SessionOf(p)
<1>1. Works(p) /\ callers[p].phase = "begin" /\ callers[p].kind = "transaction"
  BY DEF BeginTransaction, BeginFails, Works, AtWork, PoolInv, CallsFit, PhaseFits
<1>2. s \in Sessions /\ sessions[s] \in SessionType /\ (Pooled => s = callers[p].session /\ sessions[s].holder = p)
  BY <1>1, OwnSession DEF PoolInv, Typed
<1>3. adapter' = adapter /\ waiting' = waiting /\ committed' = committed /\ query' = query
      /\ failures' \in 0..MaxFailures
  BY FailureCounted DEF BeginTransaction, BeginFails, PoolInv
<1>4. \/ Moves(p, "action") /\ ClientStep(p, "action")
      \/ Moves(p, "rejected") /\ ClientStep(p, "rejected")
      \/ Moves(p, "rollback") /\ ClientStep(p, "rollback")
  <2>1. CASE BeginTransaction(p) /\ MayBegin(p)
    <3> DEFINE begun == [sessions[s] EXCEPT !.state = "tx", !.holder = p]
    <3>1. Moves(p, "action")
      BY <2>1, Moving DEF BeginTransaction, PoolInv, Phases
    <3>2. begun \in SessionType /\ begun.state = "tx" /\ begun.holder = p
      BY <1>2 DEF SessionType, Holders
    <3>3. sessions' = [sessions EXCEPT ![s] = begun]
      BY <1>2, <2>1 DEF BeginTransaction, SessionType, PoolInv, Typed
    <3>4. ClientStep(p, "action")
      BY <1>2, <3>2, <3>3 DEF ClientStep, AtWork, PoolInv, Typed
    <3> QED BY <3>1, <3>4
  <2>2. CASE BeginTransaction(p) /\ ~MayBegin(p)
    <3>1. Moves(p, "rollback") /\ sessions' = sessions
      BY <2>2, Moving DEF BeginTransaction, PoolInv, Phases
    <3> QED BY <1>1, <3>1, ClientSteps DEF AtWork
  <2>3. CASE BeginFails(p)
    <3>1. \/ Pooled /\ Destroyed(s) /\ Moves(p, "rejected")
          \/ ~Pooled /\ sessions' = sessions /\ Moves(p, "rollback")
      BY <2>3, Moving DEF BeginFails, PoolInv, Phases
    <3> QED BY <1>1, <3>1, ClientSteps
  <2> QED BY <2>1, <2>2, <2>3
<1>5. PICK phase \in {"action", "rejected", "rollback"} : Moves(p, phase) /\ ClientStep(p, phase)
  BY <1>4
<1>6. PhaseFits(p)'
  BY <1>1, <1>3, <1>5 DEF PhaseFits, Moves, PoolInv, CallsFit, Pooled
<1> QED BY <1>1, <1>3, <1>5, <1>6, PoolStep DEF PoolInv, Typed

\* The number of a row.
LEMMA RowNumber ==
  ASSUME Typed, NEW p \in Callers
  PROVE  /\ RowOf(p) \in Nat /\ Cardinality(callers[p].writes) \in Nat
         /\ RowOf(p) = RowsPerCaller * p + Cardinality(callers[p].writes)
<1>1. IsFiniteSet(callers[p].writes)
  BY DEF Typed
<1>2. Cardinality(callers[p].writes) \in Nat
  BY <1>1, FS_CardinalityType
<1>3. RowsPerCaller \in Nat /\ p \in Nat
  BY RowsAssumption, CallersAssumption
<1>4. RowsPerCaller * p \in Nat
  BY <1>3
<1> QED BY <1>2, <1>4 DEF RowOf

\* A row that is written in a session.
LEMMA Writing ==
  ASSUME Typed, NEW s \in Sessions, NEW row \in Nat, Write(s, row)
  PROVE  /\ committed' \in SUBSET Nat /\ sessions' \in [Sessions -> SessionType]
         /\ sessions[s].state = "idle" => sessions' = sessions /\ committed' = committed \cup {row}
         /\ sessions[s].state # "idle" =>
              committed' = committed /\ sessions'[s].pending = sessions[s].pending \cup {row}
         /\ sessions'[s].state = sessions[s].state /\ sessions'[s].holder = sessions[s].holder
         /\ \A t \in Sessions \ {s} : sessions'[t] = sessions[t]
<1> DEFINE more == [sessions[s] EXCEPT !.pending = sessions[s].pending \cup {row}]
<1>1. sessions[s] \in SessionType /\ more \in SessionType /\ sessions \in [Sessions -> SessionType]
      /\ committed \in SUBSET Nat
  BY DEF Typed, SessionType
<1>2. more.pending = sessions[s].pending \cup {row} /\ more.state = sessions[s].state
      /\ more.holder = sessions[s].holder
  BY <1>1 DEF SessionType
<1>3. CASE sessions[s].state = "idle"
  BY <1>1, <1>3 DEF Write
<1>4. CASE sessions[s].state # "idle"
  <2>1. sessions' = [sessions EXCEPT ![s] = more] /\ committed' = committed
    BY <1>1, <1>4 DEF Write, SessionType
  <2> HIDE DEF more
  <2> QED BY <1>1, <1>2, <1>4, <2>1
<1> QED BY <1>3, <1>4

LEMMA QueryPool ==
  ASSUME PoolInv, NEW p \in Callers, Query(p)
  PROVE  PoolInv'
<1> DEFINE s == SessionOf(p)
           next == [callers[p] EXCEPT !.phase = "resolved", !.writes = {RowOf(p)}]
<1>1. Works(p) /\ callers[p].phase = "statement" /\ callers[p].kind = "statement" /\ RowOf(p) \in Nat
  BY RowNumber DEF Query, Works, AtWork, PoolInv, CallsFit, PhaseFits
<1>2. s \in Sessions /\ sessions[s] \in SessionType /\ callers[p] \in CallerType
      /\ (Pooled => s = callers[p].session /\ sessions[s].holder = p /\ IsClean(s))
  BY <1>1, OwnSession DEF PoolInv, Typed, ClientsHeld
<1>3. adapter' = adapter /\ waiting' = waiting /\ query' = query /\ failures' \in 0..MaxFailures
  BY FailureCounted DEF Query, PoolInv
<1>4. Moves(p, "resolved")
  <2>1. next \in CallerType /\ next.kind = callers[p].kind /\ next.session = callers[p].session
        /\ next.phase = "resolved" /\ next.writes = {RowOf(p)}
    BY <1>1, <1>2 DEF CallerType, Phases
  <2>2. IsFiniteSet({RowOf(p)})
    BY FS_Singleton
  <2>3. MarkOverlap(p, next)
    BY DEF Query
  <2> HIDE DEF next
  <2> QED BY <2>1, <2>2, <2>3, Marking DEF Moves, PoolInv
<1>5. ClientStep(p, "resolved") /\ committed' \in SUBSET Nat
  <2>1. CASE Pooled
    <3> DEFINE released == [sessions[s] EXCEPT !.holder = 0]
    <3>1. released \in SessionType /\ released.state = "idle" /\ released.pending = {}
          /\ ~released.cursor /\ released.holder = 0
      BY <1>2, <2>1 DEF SessionType, Holders, IsClean
    <3>2. sessions' = [sessions EXCEPT ![s] = released] /\ committed' = committed \cup {RowOf(p)}
      BY <1>2, <2>1 DEF Query, Released, PoolInv, Typed, SessionType
    <3> HIDE DEF released
    <3> QED BY <1>1, <1>2, <2>1, <3>1, <3>2 DEF ClientStep, PoolInv, Typed
  <2>2. CASE ~Pooled
    <3>1. Write(s, RowOf(p))
      BY <2>2 DEF Query
    <3>2. /\ committed' \in SUBSET Nat /\ sessions' \in [Sessions -> SessionType]
          /\ sessions[s].state = "idle" => sessions' = sessions
          /\ sessions'[s].state = sessions[s].state
          /\ \A t \in Sessions \ {s} : sessions'[t] = sessions[t]
      BY <1>1, <1>2, <3>1, Writing DEF PoolInv
    <3>3. sessions[s].state \in {"idle", "tx"} /\ (sessions[s].state = "idle" => sessions[s].pending = {})
      <4> HIDE DEF s
      <4>1. sessions[s].state # "aborted" /\ (sessions[s].state = "idle" => sessions[s].pending = {})
        BY <1>2, <2>2 DEF PoolInv, ClientsHeld
      <4>2. sessions[s].state \in {"idle", "tx", "aborted"}
        BY <1>2 DEF SessionType
      <4> QED BY <4>1, <4>2
    <3> QED BY <1>2, <2>2, <3>2, <3>3 DEF ClientStep
  <2> QED BY <2>1, <2>2
<1>6. PhaseFits(p)'
  BY <1>1, <1>3, <1>4 DEF PhaseFits, Moves
<1> QED BY <1>1, <1>3, <1>4, <1>5, <1>6, PoolStep DEF PoolInv, Typed

\* A caller in a transaction that is not waiting.
LEMMA AtWorkInTransaction ==
  ASSUME PoolInv, NEW p \in Callers, callers[p].phase \in {"action", "commit", "rollback"}
  PROVE  /\ Works(p) /\ callers[p].kind = "transaction" /\ callers[p] \in CallerType
         /\ SessionOf(p) \in Sessions /\ sessions[SessionOf(p)] \in SessionType
         /\ (Pooled => SessionOf(p) = callers[p].session /\ sessions[SessionOf(p)].holder = p)
<1>1. Works(p) /\ callers[p].kind = "transaction"
  BY DEF PoolInv, CallsFit, PhaseFits, Works, AtWork
<1> QED BY <1>1, OwnSession DEF PoolInv, Typed

\* The caller of a transaction goes on with it, or ends.
LEMMA TransactionStep ==
  ASSUME PoolInv, adapter' = adapter, waiting' = waiting, query' = query,
         failures' \in 0..MaxFailures, committed' \in SUBSET Nat,
         NEW p \in Callers, callers[p].phase \in {"action", "commit", "rollback"},
         NEW phase \in {"action", "commit", "rollback", "resolved", "rejected"},
         Moves(p, phase), ClientStep(p, phase)
  PROVE  PoolInv'
<1>1. Works(p) /\ callers[p].kind = "transaction"
  BY AtWorkInTransaction
<1>2. PhaseFits(p)'
  BY <1>1 DEF PhaseFits, Moves
<1> QED BY <1>1, <1>2, PoolStep DEF PoolInv, Typed

LEMMA ActionPool ==
  ASSUME PoolInv, NEW p \in Callers,
         ActionWrites(p) \/ ActionWriteFails(p) \/ \E isFulfilled \in BOOLEAN : ActionEnds(p, isFulfilled)
  PROVE  PoolInv'
<1> DEFINE s == SessionOf(p)
<1>1. callers[p].phase = "action"
  BY DEF ActionWrites, ActionWriteFails, ActionEnds
<1>2. /\ Works(p) /\ callers[p] \in CallerType /\ s \in Sessions /\ sessions[s] \in SessionType
      /\ (Pooled => s = callers[p].session /\ sessions[s].holder = p)
  BY <1>1, AtWorkInTransaction
<1>3. adapter' = adapter /\ waiting' = waiting /\ query' = query /\ failures' \in 0..MaxFailures
  BY FailureCounted DEF PoolInv, ActionWrites, ActionWriteFails, ActionEnds
<1>4. CASE ActionWrites(p)
  <2> DEFINE next == [callers[p] EXCEPT !.writes = callers[p].writes \cup {RowOf(p)}]
  <2>1. RowOf(p) \in Nat /\ IsFiniteSet(callers[p].writes)
    BY RowNumber DEF PoolInv, Typed
  <2>2. next \in CallerType /\ next.phase = "action" /\ next.kind = callers[p].kind
        /\ next.session = callers[p].session /\ next.writes = callers[p].writes \cup {RowOf(p)}
    BY <1>1, <1>2, <2>1 DEF CallerType
  <2>3. IsFiniteSet(next.writes)
    BY <2>1, <2>2, FS_AddElement
  <2>4. callers' = [callers EXCEPT ![p] = next]
    BY <1>2, <1>4 DEF ActionWrites, PoolInv, Typed, CallerType
  <2>5. Moves(p, "action")
    <3> HIDE DEF next
    <3> QED BY <2>2, <2>3, <2>4 DEF Moves, PoolInv, Typed, SameCaller
  <2>6. Write(s, RowOf(p)) /\ sessions[s].state # "aborted"
    BY <1>4 DEF ActionWrites, WriteInTransaction
  <2>7. /\ committed' \in SUBSET Nat /\ sessions' \in [Sessions -> SessionType]
        /\ sessions[s].state = "idle" => sessions' = sessions
        /\ sessions'[s].state = sessions[s].state /\ sessions'[s].holder = sessions[s].holder
        /\ \A t \in Sessions \ {s} : sessions'[t] = sessions[t]
    BY <1>2, <2>1, <2>6, Writing DEF PoolInv
  <2>8. sessions[s].state \in {"idle", "tx"} /\ (sessions[s].state = "idle" => sessions[s].pending = {})
    <3> HIDE DEF s
    <3> QED BY <1>2, <2>6 DEF PoolInv, ClientsHeld, SessionType
  <2>9. ClientStep(p, "action")
    BY <1>2, <2>7, <2>8 DEF ClientStep, AtWork
  <2> QED BY <1>1, <1>3, <2>5, <2>7, <2>9, TransactionStep
<1>5. CASE ActionWriteFails(p)
  <2>1. committed' \in SUBSET Nat /\ Moves(p, "action")
    BY <1>1, <1>2, <1>5 DEF ActionWriteFails, PoolInv, Typed, Moves, SameCaller
  <2>2. ClientStep(p, "action")
    BY <1>2, <1>5, ClientSteps DEF ActionWriteFails, AtWork
  <2> QED BY <1>1, <1>3, <2>1, <2>2, TransactionStep
<1>6. ASSUME NEW isFulfilled \in BOOLEAN, ActionEnds(p, isFulfilled) PROVE PoolInv'
  <2>1. PICK phase \in {"commit", "rollback"} : Goes(p, phase)
    BY <1>6 DEF ActionEnds
  <2>2. sessions' = sessions /\ committed' \in SUBSET Nat
    BY <1>6 DEF ActionEnds, PoolInv, Typed
  <2>3. Moves(p, phase) /\ ClientStep(p, phase)
    BY <1>2, <2>1, <2>2, Moving, ClientSteps DEF PoolInv, Phases, AtWork
  <2> QED BY <1>1, <1>3, <2>2, <2>3, TransactionStep
<1> QED BY <1>4, <1>5, <1>6

LEMMA CommitPool ==
  ASSUME PoolInv, NEW p \in Callers, CommitTransaction(p) \/ CommitFails(p)
  PROVE  PoolInv'
<1> DEFINE s == SessionOf(p)
<1>1. callers[p].phase = "commit"
  BY DEF CommitTransaction, CommitFails
<1>2. /\ Works(p) /\ callers[p] \in CallerType /\ s \in Sessions /\ sessions[s] \in SessionType
      /\ (Pooled => s = callers[p].session /\ sessions[s].holder = p)
  BY <1>1, AtWorkInTransaction
<1>3. adapter' = adapter /\ waiting' = waiting /\ query' = query /\ failures' \in 0..MaxFailures
  BY FailureCounted DEF PoolInv, CommitTransaction, CommitFails
<1>4. committed' \in SUBSET Nat
  BY <1>2 DEF CommitTransaction, CommitFails, PoolInv, Typed, SessionType
<1>5. CASE CommitTransaction(p)
  <2> DEFINE phase == IF sessions[s].state = "idle" THEN "rejected" ELSE "resolved"
             next == [callers[p] EXCEPT !.phase = phase, !.swallowed = sessions[s].state = "aborted"]
  <2>1. (sessions[s].state = "aborted") \in BOOLEAN /\ phase \in {"rejected", "resolved"}
    OBVIOUS
  <2>2. next \in CallerType /\ next.phase = phase /\ next.kind = callers[p].kind
        /\ next.session = callers[p].session /\ next.writes = callers[p].writes
    BY <1>2, <2>1 DEF CallerType, Phases
  <2>3. MarkOverlap(p, next) /\ Destroyed(s)
    BY <1>5 DEF CommitTransaction, AfterCommit, Destroyed
  <2>4. Moves(p, phase) /\ ClientStep(p, phase)
    <3> HIDE DEF next, phase
    <3>1. IsFiniteSet(callers[p].writes) /\ Typed
      BY DEF PoolInv, Typed
    <3>2. Moves(p, phase)
      BY <2>2, <2>3, <3>1, Marking DEF Moves
    <3> QED BY <1>2, <2>1, <2>3, <3>2, ClientSteps
  <2> HIDE DEF phase
  <2> QED BY <1>1, <1>3, <1>4, <2>1, <2>4, TransactionStep
<1>6. CASE CommitFails(p)
  <2> DEFINE next == [callers[p] EXCEPT !.phase = "rejected", !.unknown = TRUE]
  <2>1. next \in CallerType /\ next.phase = "rejected" /\ next.kind = callers[p].kind
        /\ next.session = callers[p].session /\ next.writes = callers[p].writes
    BY <1>2 DEF CallerType, Phases
  <2>2. callers' = [callers EXCEPT ![p] = next]
    BY <1>2, <1>6 DEF CommitFails, PoolInv, Typed, CallerType
  <2>3. Moves(p, "rejected")
    <3> HIDE DEF next
    <3> QED BY <2>1, <2>2 DEF Moves, PoolInv, Typed, SameCaller
  <2>4. ClientStep(p, "rejected")
    BY <1>2, <1>6, ClientSteps DEF CommitFails
  <2> QED BY <1>1, <1>3, <1>4, <2>3, <2>4, TransactionStep
<1> QED BY <1>5, <1>6

LEMMA RollbackPool ==
  ASSUME PoolInv, NEW p \in Callers, RollbackTransaction(p) \/ RollbackFails(p)
  PROVE  PoolInv'
<1>1. callers[p].phase = "rollback"
  BY DEF RollbackTransaction, RollbackFails
<1>2. Works(p)
  BY <1>1, AtWorkInTransaction
<1>3. /\ adapter' = adapter /\ waiting' = waiting /\ query' = query
      /\ failures' \in 0..MaxFailures /\ committed' \in SUBSET Nat
  BY FailureCounted DEF PoolInv, Typed, RollbackTransaction, RollbackFails
<1>4. Destroyed(SessionOf(p)) /\ Moves(p, "rejected")
  BY Moving DEF RollbackTransaction, RollbackFails, Destroyed, PoolInv, Phases
<1>5. ClientStep(p, "rejected")
  BY <1>2, <1>4, ClientSteps
<1> QED BY <1>1, <1>3, <1>4, <1>5, TransactionStep

-----------------------------------------------------------------------------
(* The pool: queries *)

\* Whatever its values are, a query has all its fields.
LEMMA QueryMade ==
  ASSUME NEW o, NEW phase
  PROVE  IsQuery(NewQuery(o)) /\ IsQuery(Ended(o, phase)) /\ Ended(o, phase).phase = phase
<1>1. IsQuery(NewQuery(o))
  BY DEF IsQuery, NewQuery
<1>2. IsQuery(Ended(o, phase)) /\ Ended(o, phase).phase = phase
  BY DEF IsQuery, NewQuery, Ended
<1> QED BY <1>1, <1>2

LEMMA QueryChanged ==
  ASSUME NEW q, IsQuery(q), NEW v
  PROVE  /\ IsQuery([q EXCEPT !.phase = v]) /\ [q EXCEPT !.phase = v].phase = v /\ [q EXCEPT !.phase = v].take = q.take
         /\ IsQuery([q EXCEPT !.source = v]) /\ IsQuery([q EXCEPT !.rest = v]) /\ IsQuery([q EXCEPT !.chunk = v])
         /\ IsQuery([q EXCEPT !.isFull = v]) /\ IsQuery([q EXCEPT !.isFirst = v])
         /\ IsQuery([q EXCEPT !.results = v]) /\ IsQuery([q EXCEPT !.batch = v])
         /\ IsQuery([q EXCEPT !.given = v]) /\ IsQuery([q EXCEPT !.broken = v])
  BY DEF IsQuery

\* A caller with a cursor.
LEMMA AtWorkOnCursor ==
  ASSUME PoolInv, NEW p \in Callers, callers[p].phase \in {"declare", "fetch"}
  PROVE  /\ Works(p) /\ Pooled /\ callers[p].kind \in {"transaction", "chunks"} /\ IsQuery(query[p])
         /\ callers[p] \in CallerType /\ SessionOf(p) \in Sessions /\ sessions[SessionOf(p)] \in SessionType
         /\ SessionOf(p) = callers[p].session /\ sessions[SessionOf(p)].holder = p
<1>1. Works(p) /\ Pooled /\ callers[p].kind \in {"transaction", "chunks"} /\ IsQuery(query[p])
  BY DEF PoolInv, CallsFit, PhaseFits, Works, AtWork
<1> QED BY <1>1, OwnSession DEF PoolInv, Typed

LEMMA CursorStep ==
  ASSUME PoolInv, adapter' = adapter, waiting' = waiting,
         failures' \in 0..MaxFailures, committed' \in SUBSET Nat,
         NEW p \in Callers, callers[p].phase \in {"action", "declare", "fetch"}, Pooled,
         NEW q, IsQuery(q), query' = [query EXCEPT ![p] = q],
         NEW phase \in {"action", "declare", "fetch", "resolved", "rejected"},
         phase = "action" => callers[p].kind = "transaction",
         Moves(p, phase), ClientStep(p, phase)
  PROVE  PoolInv'
<1>1. Works(p) /\ callers[p].kind \in {"transaction", "chunks"}
  BY AtWorkOnCursor, AtWorkInTransaction
<1>2. query'[p] = q /\ query' = [r \in Callers |-> query'[r]] /\ \A r \in Callers \ {p} : query'[r] = query[r]
  <2>1. query = [r \in Callers |-> query[r]]
    BY DEF PoolInv, Typed
  <2> QED BY <2>1
<1>3. IsQuery(query[p])'
  BY <1>2 DEF IsQuery
<1>4. PhaseFits(p)'
  BY <1>1, <1>3 DEF PhaseFits, Moves, Pooled
<1> QED BY <1>1, <1>2, <1>4, PoolStep

\* Nothing is changed but the query.
LEMMA QueryStep ==
  ASSUME PoolInv, NEW p \in Callers, callers[p].phase = "fetch",
         UNCHANGED <<adapter, sessions, waiting, committed, callers>>, NoFailure \/ UNCHANGED failures,
         NEW q, IsQuery(q), query' = [query EXCEPT ![p] = q]
  PROVE  PoolInv'
<1>1. Works(p) /\ Pooled
  BY AtWorkOnCursor
<1>2. Moves(p, "fetch") /\ committed' \in SUBSET Nat /\ failures' \in 0..MaxFailures
  BY FailureCounted DEF Moves, SameCaller, PoolInv, Typed
<1>3. ClientStep(p, "fetch")
  BY <1>1, ClientSteps DEF AtWork
<1> QED BY <1>1, <1>2, <1>3, CursorStep

LEMMA FetchPool ==
  ASSUME PoolInv, NEW p \in Callers, Fetch(p)
  PROVE  PoolInv'
<1> DEFINE q == query[p]
           rows == Without(q.rest, Skipped(q))
           next == [q EXCEPT !.chunk = FirstRows(rows, FetchSize), !.rest = Without(rows, FetchSize),
                             !.isFull = Len(rows) >= FetchSize, !.isFirst = FALSE, !.phase = "rows"]
<1>1. callers[p].phase = "fetch" /\ IsQuery(q)
  BY AtWorkOnCursor DEF Fetch
<1>2. IsQuery(next)
  BY <1>1 DEF IsQuery
<1>3. query' = [query EXCEPT ![p] = next]
  BY DEF Fetch
<1>4. UNCHANGED <<adapter, sessions, waiting, committed, callers>> /\ NoFailure
  BY DEF Fetch
<1> HIDE DEF next
<1> QED BY <1>1, <1>2, <1>3, <1>4, QueryStep

LEMMA ConsumedIsQuery ==
  ASSUME NEW q, IsQuery(q), NEW n
  PROVE  IsQuery(Consumed(q, n))
  BY DEF IsQuery, Consumed

LEMMA ConsumePool ==
  ASSUME PoolInv, NEW p \in Callers,
         Consume(p) \/ \E n \in 1..FetchSize, throws \in BOOLEAN : ConsumeUpTo(p, n, throws)
  PROVE  PoolInv'
<1>1. callers[p].phase = "fetch" /\ IsQuery(query[p])
      /\ UNCHANGED <<adapter, sessions, waiting, committed, callers, failures>>
  BY AtWorkOnCursor DEF Consume, ConsumeUpTo
<1>2. CASE Consume(p)
  <2> DEFINE q == Consumed(query[p], Takeable(query[p]))
             phase == IF IsAllTaken(q) \/ IsReadCompletely(q) THEN "last" ELSE "fetch"
  <2>1. IsQuery(q) /\ query' = [query EXCEPT ![p] = [q EXCEPT !.phase = phase]]
    BY <1>1, <1>2, ConsumedIsQuery DEF Consume
  <2> HIDE DEF q, phase
  <2>2. IsQuery([q EXCEPT !.phase = phase])
    BY <2>1, QueryChanged
  <2> QED BY <1>1, <2>1, <2>2, QueryStep
<1>3. ASSUME NEW n \in 1..FetchSize, NEW throws \in BOOLEAN, ConsumeUpTo(p, n, throws) PROVE PoolInv'
  <2> DEFINE q == Consumed(query[p], n)
  <2>1. IsQuery(q)
        /\ query' = [query EXCEPT ![p] = IF throws THEN [q EXCEPT !.phase = "error"]
                                         ELSE [q EXCEPT !.phase = "last", !.broken = TRUE]]
    BY <1>1, <1>3, ConsumedIsQuery DEF ConsumeUpTo
  <2> HIDE DEF q
  <2>2. IsQuery([q EXCEPT !.phase = "error"]) /\ IsQuery([q EXCEPT !.phase = "last", !.broken = TRUE])
    BY <2>1 DEF IsQuery
  <2> QED BY <1>1, <2>1, <2>2, QueryStep
<1> QED BY <1>2, <1>3

LEMMA LastBatchPool ==
  ASSUME PoolInv, NEW p \in Callers, NEW dontBreak \in BOOLEAN, LastBatch(p, dontBreak)
  PROVE  PoolInv'
<1> DEFINE q == query[p]
           given == [q EXCEPT !.given = Append(@, q.batch), !.batch = <<>>, !.phase = "close",
                              !.broken = @ \/ ~dontBreak]
           closed == [q EXCEPT !.phase = "close"]
<1>1. callers[p].phase = "fetch" /\ IsQuery(q)
      /\ UNCHANGED <<adapter, sessions, waiting, committed, callers, failures>>
  BY AtWorkOnCursor DEF LastBatch
<1>2. IsQuery(given) /\ IsQuery(closed)
  BY <1>1 DEF IsQuery
<1>3. query' = [query EXCEPT ![p] = given] \/ query' = [query EXCEPT ![p] = closed]
  BY DEF LastBatch
<1> HIDE DEF given, closed
<1> QED BY <1>1, <1>2, <1>3, QueryStep

LEMMA DeclarePool ==
  ASSUME PoolInv, NEW p \in Callers, Declare(p)
  PROVE  PoolInv'
<1> DEFINE s == SessionOf(p)
           q == query[p]
           rows == InOrder(Visible(s))
           declared == [q EXCEPT !.source = rows, !.rest = rows, !.phase = IF q.take = 0 THEN "resolved" ELSE "fetch"]
           opened == [sessions[s] EXCEPT !.state = "tx", !.cursor = (q.take # 0) \/ @]
           phase == IF q.take = 0 THEN AfterQuery(p) ELSE "fetch"
<1>1. /\ callers[p].phase = "declare" /\ Works(p) /\ Pooled /\ callers[p].kind \in {"transaction", "chunks"}
      /\ IsQuery(q) /\ s \in Sessions /\ sessions[s] \in SessionType /\ sessions[s].holder = p
  BY AtWorkOnCursor DEF Declare
<1>2. IsQuery(declared) /\ declared.take = q.take
  BY <1>1 DEF IsQuery
<1>3. query' = [query EXCEPT ![p] = declared]
  BY DEF Declare
<1>4. phase \in {"action", "fetch", "resolved"} /\ (phase = "action" => callers[p].kind = "transaction")
      /\ (phase = "resolved" => callers[p].kind = "chunks" /\ q.take = 0)
  BY <1>1 DEF AfterQuery, IsInTransaction
<1>5. Goes(p, phase)
  BY DEF Declare
<1>6. Moves(p, phase)
  <2> HIDE DEF phase
  <2> QED BY <1>4, <1>5, Moving DEF PoolInv, Phases
<1>7. opened \in SessionType /\ opened.state = "tx" /\ opened.holder = p
  <2>1. ((q.take # 0) \/ sessions[s].cursor) \in BOOLEAN
    OBVIOUS
  <2> QED BY <1>1, <2>1 DEF SessionType
<1>8. sessions' = [sessions EXCEPT ![s] = opened]
  BY <1>1 DEF Declare, PoolInv, Typed, SessionType
<1>9. ClientStep(p, phase)
  <2>1. phase = "resolved" => IsDead(p)'
    <3> HIDE DEF declared, phase
    <3>1. query'[p].take = q.take
      BY <1>2, <1>3 DEF PoolInv, Typed
    <3>2. callers'[p].kind = callers[p].kind
      BY <1>6 DEF Moves
    <3> QED BY <1>4, <3>1, <3>2 DEF IsDead
  <2> HIDE DEF opened, phase
  <2> QED BY <1>1, <1>4, <1>7, <1>8, <2>1 DEF ClientStep, AtWork, PoolInv, Typed
<1>10. UNCHANGED <<adapter, waiting, failures>> /\ committed' \in SUBSET Nat /\ failures' \in 0..MaxFailures
  BY DEF Declare, PoolInv, Typed
<1> HIDE DEF declared, phase
<1> QED BY <1>1, <1>2, <1>3, <1>4, <1>6, <1>9, <1>10, CursorStep

LEMMA DeclareFailsPool ==
  ASSUME PoolInv, NEW p \in Callers, DeclareFails(p)
  PROVE  PoolInv'
<1> DEFINE failed == [query[p] EXCEPT !.phase = "failed"]
<1>1. callers[p].phase = "declare" /\ Works(p) /\ Pooled /\ callers[p].kind \in {"transaction", "chunks"}
      /\ IsQuery(query[p])
  BY AtWorkOnCursor DEF DeclareFails
<1>2. IsQuery(failed) /\ failed.phase = "failed" /\ query' = [query EXCEPT ![p] = failed]
  BY <1>1, QueryChanged DEF DeclareFails
<1>3. PICK phase \in {"action", "rejected"} :
         /\ Goes(p, phase) /\ (phase = "action" => callers[p].kind = "transaction")
         /\ (phase = "rejected" => callers[p].kind = "chunks")
  BY <1>1 DEF DeclareFails, AfterError, IsInTransaction
<1>4. Moves(p, phase)
  BY <1>3, Moving DEF PoolInv, Phases
<1>5. phase = "rejected" => IsDead(p)'
  <2> HIDE DEF failed
  <2> QED BY <1>2, <1>3, <1>4 DEF IsDead, Moves, PoolInv, Typed
<1>6. sessions' = Aborted(SessionOf(p))
  BY DEF DeclareFails
<1>7. ClientStep(p, phase)
  BY <1>1, <1>5, <1>6, ClientSteps DEF AtWork
<1>8. UNCHANGED <<adapter, waiting>> /\ committed' \in SUBSET Nat /\ failures' \in 0..MaxFailures
  BY FailureCounted DEF DeclareFails, PoolInv, Typed
<1> HIDE DEF failed
<1> QED BY <1>1, <1>2, <1>3, <1>4, <1>7, <1>8, CursorStep

LEMMA FetchFailsPool ==
  ASSUME PoolInv, NEW p \in Callers, FetchFails(p)
  PROVE  PoolInv'
<1> DEFINE failed == [query[p] EXCEPT !.phase = "error"]
<1>1. callers[p].phase = "fetch" /\ Works(p) /\ Pooled /\ IsQuery(query[p])
  BY AtWorkOnCursor DEF FetchFails
<1>2. IsQuery(failed) /\ query' = [query EXCEPT ![p] = failed]
  BY <1>1, QueryChanged DEF FetchFails
<1>3. Moves(p, "fetch")
  BY <1>1 DEF FetchFails, Moves, SameCaller, PoolInv, Typed
<1>4. ClientStep(p, "fetch")
  BY <1>1, ClientSteps DEF FetchFails, AtWork
<1>5. UNCHANGED <<adapter, waiting>> /\ committed' \in SUBSET Nat /\ failures' \in 0..MaxFailures
  BY FailureCounted DEF FetchFails, PoolInv, Typed
<1> HIDE DEF failed
<1> QED BY <1>1, <1>2, <1>3, <1>4, <1>5, CursorStep

LEMMA ClosePool ==
  ASSUME PoolInv, NEW p \in Callers, Close(p) \/ CloseFails(p)
  PROVE  PoolInv'
<1> DEFINE s == SessionOf(p)
<1>1. /\ callers[p].phase = "fetch" /\ Works(p) /\ Pooled /\ callers[p].kind \in {"transaction", "chunks"}
      /\ s \in Sessions /\ sessions[s] \in SessionType /\ sessions[s].holder = p
  BY AtWorkOnCursor DEF Close, CloseFails
<1>2. PICK outcome \in {"failed", "resolved"} : query' = [query EXCEPT ![p] = Ended(query[p], outcome)]
  BY DEF Close, CloseFails, PoolInv, Typed
<1>3. PICK phase \in {"action", "resolved", "rejected"} :
         Goes(p, phase) /\ (phase = "action" <=> callers[p].kind = "transaction")
  BY <1>1 DEF Close, CloseFails, AfterError, AfterQuery, IsInTransaction
<1>4. Moves(p, phase)
  BY <1>3, Moving DEF PoolInv, Phases
<1>5. ClientStep(p, phase)
  <2>1. CASE Close(p) /\ IsInTransaction(p)
    <3> DEFINE closed == [sessions[s] EXCEPT !.cursor = FALSE]
    <3>1. closed \in SessionType /\ closed.state = sessions[s].state /\ closed.holder = p
          /\ closed.pending = sessions[s].pending
      BY <1>1 DEF SessionType
    <3>2. sessions' = [sessions EXCEPT ![s] = closed] /\ phase = "action"
      BY <1>1, <1>3, <2>1 DEF Close, CursorClosed, IsInTransaction, PoolInv, Typed
    <3>3. sessions[s].state # "tx" => sessions[s].pending = {}
      <4> HIDE DEF s
      <4> QED BY <1>1 DEF PoolInv, ClientsHeld
    <3> HIDE DEF closed
    <3> QED BY <1>1, <3>1, <3>2, <3>3 DEF ClientStep, AtWork, PoolInv, Typed
  <2>2. CASE Close(p) /\ ~IsInTransaction(p)
    <3> DEFINE ended == [sessions[s] EXCEPT !.state = "idle", !.pending = {}, !.cursor = FALSE, !.holder = 0]
    <3>1. ended \in SessionType /\ ended.state = "idle" /\ ended.holder = 0 /\ ended.pending = {} /\ ~ended.cursor
      BY <1>1 DEF SessionType, Holders
    <3>2. sessions' = [sessions EXCEPT ![s] = ended] /\ phase \in {"resolved", "rejected"}
      BY <1>1, <1>3, <2>2 DEF Close, EndOfBlock, IsInTransaction, PoolInv, Typed
    <3> HIDE DEF ended
    <3> QED BY <1>1, <3>1, <3>2 DEF ClientStep, PoolInv, Typed
  <2>3. CASE CloseFails(p)
    BY <1>1, <1>3, <2>3, ClientSteps DEF CloseFails, IsInTransaction, AtWork
  <2> QED BY <2>1, <2>2, <2>3
<1>6. UNCHANGED <<adapter, waiting>> /\ committed' \in SUBSET Nat /\ failures' \in 0..MaxFailures
  BY FailureCounted DEF Close, CloseFails, PoolInv, Typed
<1>7. IsQuery(Ended(query[p], outcome))
  BY QueryMade
<1> QED BY <1>1, <1>2, <1>3, <1>4, <1>5, <1>6, <1>7, CursorStep

LEMMA ActionFetchesPool ==
  ASSUME PoolInv, NEW p \in Callers, NEW o \in Options, ActionFetches(p, o)
  PROVE  PoolInv'
<1>1. callers[p].phase = "action" /\ Pooled /\ Works(p)
  BY AtWorkInTransaction DEF ActionFetches
<1>2. IsQuery(NewQuery(o)) /\ query' = [query EXCEPT ![p] = NewQuery(o)]
  BY QueryMade DEF ActionFetches
<1>3. Moves(p, "declare")
  BY Moving DEF ActionFetches, PoolInv, Phases
<1>4. ClientStep(p, "declare")
  BY <1>1, ClientSteps DEF ActionFetches, AtWork
<1>5. UNCHANGED <<adapter, waiting>> /\ committed' \in SUBSET Nat /\ failures' \in 0..MaxFailures
  BY DEF ActionFetches, PoolInv, Typed
<1> QED BY <1>1, <1>2, <1>3, <1>4, <1>5, CursorStep

\* The rows of a query of SQLite.
RowsAction(p) ==
  \/ StartRows(p) \/ StartRowsFails(p) \/ SkipRow(p) \/ StepFails(p)
  \/ \E outcome \in {"goes on", "breaks", "throws"} : GiveRow(p, outcome) \/ Complete(p, outcome)

LEMMA RowsPool ==
  ASSUME PoolInv, NEW p \in Callers, RowsAction(p)
  PROVE  PoolInv'
<1>1. callers[p].kind = "rows"
  BY DEF RowsAction, Iterates, StartRows, StartRowsFails, SkipRow, StepFails, GiveRow, Complete
<1>2. ~Pooled /\ callers[p].phase \in {"rows", "resolved", "rejected"}
  BY <1>1 DEF PoolInv, CallsFit, PhaseFits, Typed, CallerType, Phases
<1>3. UNCHANGED <<adapter, sessions, waiting, committed>> /\ failures' \in 0..MaxFailures
  BY FailureCounted DEF RowsAction, StartRows, StartRowsFails, SkipRow, StepFails, GiveRow, Complete, PoolInv
<1>4. PICK q : query' = [query EXCEPT ![p] = q]
  BY DEF RowsAction, StartRows, StartRowsFails, SkipRow, StepFails, GiveRow, Complete
<1>5. callers' = callers \/ Goes(p, "rejected") \/ Goes(p, "resolved")
  BY DEF RowsAction, StartRows, StartRowsFails, SkipRow, StepFails, GiveRow, Complete
<1>6. PICK phase \in {"rows", "resolved", "rejected"} : Moves(p, phase)
  <2>1. CASE callers' = callers
    BY <1>2, <2>1 DEF Moves, SameCaller, PoolInv, Typed
  <2>2. CASE Goes(p, "rejected") \/ Goes(p, "resolved")
    BY <2>2, Moving DEF PoolInv, Phases
  <2> QED BY <1>5, <2>1, <2>2
<1>7. ClientStep(p, phase)
  BY <1>2, <1>3, ClientSteps
<1>8. query' = [r \in Callers |-> query'[r]] /\ \A r \in Callers \ {p} : query'[r] = query[r]
  <2>1. query = [r \in Callers |-> query[r]]
    BY DEF PoolInv, Typed
  <2> QED BY <1>4, <2>1
<1>9. PhaseFits(p)'
  BY <1>1, <1>2, <1>3, <1>6 DEF PhaseFits, Moves, Pooled
<1> QED BY <1>2, <1>3, <1>6, <1>7, <1>8, <1>9, PoolStep DEF PoolInv, Typed

-----------------------------------------------------------------------------
(* The pool: calls and the queue *)

\* The queue with one more caller.
LEMMA Queued ==
  ASSUME PoolInv, NEW p \in Callers, p \notin Range(waiting)
  PROVE  LET q == Append(waiting, p)
         IN /\ q \in Seq(Callers)
            /\ \A r \in Callers : r \in Range(q) <=> r \in Range(waiting) \/ r = p
            /\ \A i, j \in 1..Len(q) : q[i] = q[j] => i = j
<1> DEFINE q == Append(waiting, p)
<1>1. waiting \in Seq(Callers) /\ Len(waiting) \in Nat /\ DOMAIN waiting = 1..Len(waiting)
  BY LenProperties DEF PoolInv, Typed
<1>2. q \in Seq(Callers) /\ Len(q) = Len(waiting) + 1 /\ DOMAIN q = 1..Len(q)
      /\ q[Len(waiting) + 1] = p /\ \A i \in 1..Len(waiting) : q[i] = waiting[i]
  BY <1>1, AppendProperties, LenProperties
<1> HIDE DEF q
<1>3. \A r \in Callers : r \in Range(q) <=> r \in Range(waiting) \/ r = p
  <2> TAKE r \in Callers
  <2>1. r \in Range(q) <=> \E i \in 1..(Len(waiting) + 1) : q[i] = r
    BY <1>2 DEF Range
  <2>2. r \in Range(waiting) <=> \E i \in 1..Len(waiting) : waiting[i] = r
    BY <1>1 DEF Range
  <2> QED BY <1>1, <1>2, <2>1, <2>2
<1>4. ASSUME NEW i \in 1..Len(q), NEW j \in 1..Len(q), q[i] = q[j] PROVE i = j
  <2>1. \A k \in 1..Len(waiting) : waiting[k] # p
    BY <1>1 DEF Range
  <2>2. \A k, l \in 1..Len(waiting) : waiting[k] = waiting[l] => k = l
    BY DEF PoolInv, CallsFit
  <2>3. i \in 1..Len(waiting) \/ i = Len(waiting) + 1
    BY <1>1, <1>2
  <2>4. j \in 1..Len(waiting) \/ j = Len(waiting) + 1
    BY <1>1, <1>2
  <2> QED BY <1>2, <1>4, <2>1, <2>2, <2>3, <2>4
<1> QED BY <1>2, <1>3, <1>4 DEF q

\* The queue without the first caller.
LEMMA Dequeued ==
  ASSUME PoolInv, waiting # <<>>
  PROVE  /\ Head(waiting) \in Callers /\ Head(waiting) \in Range(waiting) /\ Tail(waiting) \in Seq(Callers)
         /\ \A r \in Callers : r \in Range(Tail(waiting)) <=> r \in Range(waiting) /\ r # Head(waiting)
         /\ \A i, j \in 1..Len(Tail(waiting)) : Tail(waiting)[i] = Tail(waiting)[j] => i = j
<1> DEFINE q == Tail(waiting)
<1>1. waiting \in Seq(Callers) /\ Len(waiting) \in Nat /\ Len(waiting) > 0 /\ DOMAIN waiting = 1..Len(waiting)
  BY LenProperties, EmptySeq DEF PoolInv, Typed
<1>2. /\ Head(waiting) = waiting[1] /\ q \in Seq(Callers) /\ Len(q) = Len(waiting) - 1 /\ DOMAIN q = 1..Len(q)
      /\ \A i \in 1..Len(q) : q[i] = waiting[i + 1]
  BY <1>1, HeadTailProperties, LenProperties
<1>3. \A k, l \in 1..Len(waiting) : waiting[k] = waiting[l] => k = l
  BY DEF PoolInv, CallsFit
<1> HIDE DEF q
<1>4. Head(waiting) \in Callers /\ Head(waiting) \in Range(waiting)
  BY <1>1, <1>2, ElementOfSeq DEF Range
<1>5. \A r \in Callers : r \in Range(q) <=> r \in Range(waiting) /\ r # Head(waiting)
  <2> TAKE r \in Callers
  <2>1. r \in Range(q) <=> \E i \in 1..(Len(waiting) - 1) : waiting[i + 1] = r
    BY <1>1, <1>2 DEF Range
  <2>2. r \in Range(waiting) <=> \E i \in 1..Len(waiting) : waiting[i] = r
    BY <1>1 DEF Range
  <2>3. r \in Range(q) => r \in Range(waiting) /\ r # Head(waiting)
    BY <1>1, <1>2, <1>3, <2>1, <2>2
  <2>4. ASSUME NEW i \in 1..Len(waiting), waiting[i] = r, r # Head(waiting) PROVE r \in Range(q)
    <3>1. i # 1 /\ i - 1 \in 1..(Len(waiting) - 1) /\ (i - 1) + 1 = i
      BY <1>1, <1>2, <2>4
    <3> QED BY <2>1, <2>4, <3>1
  <2> QED BY <2>2, <2>3, <2>4
<1>6. ASSUME NEW i \in 1..Len(q), NEW j \in 1..Len(q), q[i] = q[j] PROVE i = j
  <2>1. i + 1 \in 1..Len(waiting) /\ j + 1 \in 1..Len(waiting) /\ waiting[i + 1] = waiting[j + 1]
    BY <1>1, <1>2, <1>6
  <2>2. i + 1 = j + 1
    BY <1>3, <2>1
  <2> QED BY <2>2
<1> QED BY <1>2, <1>4, <1>5, <1>6 DEF q

LEMMA ActionNestsPool ==
  ASSUME PoolInv, NEW p \in Callers, ActionNests(p)
  PROVE  PoolInv'
<1> DEFINE s == SessionOf(p)
           phase == IF Pooled THEN "nesting" ELSE "action"
           next == [callers[p] EXCEPT !.nested = TRUE, !.phase = phase]
<1>1. /\ callers[p].phase = "action" /\ Works(p) /\ callers[p].kind = "transaction" /\ callers[p] \in CallerType
      /\ s \in Sessions /\ (Pooled => sessions[s].holder = p)
  BY AtWorkInTransaction DEF ActionNests
<1>2. /\ UNCHANGED <<adapter, sessions, committed, query, failures>> /\ failures' \in 0..MaxFailures
      /\ committed' \in SUBSET Nat /\ sessions' \in [Sessions -> SessionType] /\ p \notin Range(waiting)
  BY <1>1 DEF ActionNests, PoolInv, Typed, CallsFit
<1>3. Moves(p, phase) /\ phase \in {"nesting", "action"}
  <2>1. next \in CallerType /\ next.phase = phase /\ next.kind = callers[p].kind
        /\ next.session = callers[p].session /\ next.writes = callers[p].writes
    BY <1>1 DEF CallerType, Phases
  <2>2. callers' = [callers EXCEPT ![p] = next]
    BY <1>1 DEF ActionNests, PoolInv, Typed, CallerType
  <2> HIDE DEF next, phase
  <2>3. Moves(p, phase)
    BY <2>1, <2>2 DEF Moves, PoolInv, Typed, SameCaller
  <2> QED BY <2>3 DEF phase
<1>4. ClientStep(p, phase)
  BY <1>1, <1>2, <1>3, ClientSteps DEF AtWork
<1>5. PhaseFits(p)'
  BY <1>1, <1>2, <1>3 DEF PhaseFits, Moves, Pooled
<1>6. CASE ~Pooled
  <2>1. waiting' = waiting /\ phase = "action"
    BY <1>6 DEF ActionNests
  <2> HIDE DEF phase
  <2> QED BY <1>1, <1>2, <1>3, <1>4, <1>5, <2>1, PoolStep DEF PoolInv, Typed
<1>7. CASE Pooled
  <2>1. waiting' = Append(waiting, p) /\ phase = "nesting"
    BY <1>7 DEF ActionNests
  <2> HIDE DEF phase
  <2>2. Typed'
    BY <1>2, <1>3, <2>1, Queued DEF Typed, Moves, PoolInv
  <2>3. CallsFit'
    <3>1. \A r \in Callers : PhaseFits(r)'
      <4> SUFFICES ASSUME NEW r \in Callers, r # p PROVE PhaseFits(r)'
        BY <1>5
      <4>1. PhaseFits(r) /\ SameCaller(r) /\ query'[r] = query[r] /\ Pooled' = Pooled
        BY <1>2, <1>3 DEF PoolInv, CallsFit, Pooled, Moves
      <4> QED BY <4>1 DEF PhaseFits, SameCaller, IsQuery
    <3>2. \A r \in Callers : callers'[r].phase \in {"waiting", "nesting"} <=> r \in Range(waiting')
      <4> SUFFICES ASSUME NEW r \in Callers
                   PROVE  callers'[r].phase \in {"waiting", "nesting"} <=> r \in Range(waiting')
        OBVIOUS
      <4>1. r \in Range(waiting') <=> r \in Range(waiting) \/ r = p
        BY <1>2, <2>1, Queued
      <4>2. callers[r].phase \in {"waiting", "nesting"} <=> r \in Range(waiting)
        BY DEF PoolInv, CallsFit
      <4>3. callers'[r].phase = IF r = p THEN "nesting" ELSE callers[r].phase
        BY <1>3, <2>1 DEF Moves, SameCaller
      <4> QED BY <4>1, <4>2, <4>3
    <3> QED BY <1>2, <2>1, <3>1, <3>2, Queued DEF CallsFit
  <2>4. ClientsHeld'
    BY <1>1, <1>2, <1>3, <1>4, <2>1, <2>2, HeldStep DEF Moves, ClientStep, Works, HasEnded, AtWork
  <2> QED BY <2>2, <2>3, <2>4 DEF PoolInv
<1> QED BY <1>6, <1>7

LEMMA CallPool ==
  ASSUME PoolInv, NEW p \in Callers, NEW kind \in {"transaction", "chunks", "rows", "statement"},
         NEW o \in Options, Call(p, kind, o)
  PROVE  PoolInv'
<1> DEFINE next == [NewCaller EXCEPT !.kind = kind, !.phase = FirstPhase(kind)]
           q == IF kind \in {"chunks", "rows"} THEN NewQuery(OptionsOf(kind, o)) ELSE NoQuery
<1>1. /\ callers[p].phase = "new" /\ callers[p].kind = "none" /\ p \notin Range(waiting)
      /\ (kind = "chunks" => Pooled) /\ (kind = "rows" => ~Pooled)
  BY DEF Call, PoolInv, CallsFit, PhaseFits
<1>2. /\ UNCHANGED <<adapter, sessions, committed, failures>>
      /\ failures' \in 0..MaxFailures /\ committed' \in SUBSET Nat /\ sessions' \in [Sessions -> SessionType]
  BY DEF Call, PoolInv, Typed
<1>3. \/ Pooled /\ FirstPhase(kind) = "waiting" /\ waiting' = Append(waiting, p)
      \/ /\ ~Pooled /\ waiting' = waiting
         /\ \/ kind = "transaction" /\ FirstPhase(kind) = "begin"
            \/ kind = "rows" /\ FirstPhase(kind) = "rows"
            \/ kind = "statement" /\ FirstPhase(kind) = "statement"
  <2>1. CASE Pooled
    BY <2>1 DEF FirstPhase, Call
  <2>2. CASE ~Pooled
    <3>1. kind \in {"transaction", "rows", "statement"} /\ waiting' = waiting
      BY <1>1, <2>2 DEF Call
    <3> QED BY <2>2, <3>1 DEF FirstPhase
  <2> QED BY <2>1, <2>2
<1>4. /\ next \in CallerType /\ next.kind = kind /\ next.phase = FirstPhase(kind)
      /\ next.session = 0 /\ next.writes = {}
  BY <1>3 DEF NewCaller, CallerType, Phases
<1>5. /\ callers' \in [Callers -> CallerType] /\ callers'[p].kind = kind /\ callers'[p].phase = FirstPhase(kind)
      /\ IsFiniteSet(callers'[p].writes)
      /\ \A r \in Callers \ {p} : SameCaller(r) /\ callers'[r].writes = callers[r].writes
  <2>1. callers' = [callers EXCEPT ![p] = next]
    BY DEF Call
  <2> HIDE DEF next
  <2> QED BY <1>4, <2>1, FS_EmptySet DEF PoolInv, Typed, SameCaller
<1>6. /\ query'[p] = q /\ query' = [r \in Callers |-> query'[r]]
      /\ \A r \in Callers \ {p} : query'[r] = query[r]
  <2>1. query = [r \in Callers |-> query[r]]
    BY DEF PoolInv, Typed
  <2> QED BY <2>1 DEF Call
<1>7. kind = "chunks" => IsQuery(query[p])'
  <2>1. kind = "chunks" => IsQuery(q)
    BY QueryMade
  <2> HIDE DEF q
  <2> QED BY <1>6, <2>1 DEF IsQuery
<1> HIDE DEF next, q
<1>8. Typed'
  <2>1. waiting' \in Seq(Callers)
    BY <1>1, <1>3, Queued DEF PoolInv, Typed
  <2>2. \A r \in Callers : IsFiniteSet(callers'[r].writes)
    BY <1>5 DEF PoolInv, Typed
  <2> QED BY <1>2, <1>5, <1>6, <2>1, <2>2 DEF PoolInv, Typed
<1>9. CallsFit'
  <2>1. \A r \in Callers : PhaseFits(r)'
    <3>1. PhaseFits(p)'
      BY <1>1, <1>2, <1>3, <1>5, <1>7 DEF PhaseFits, Pooled
    <3>2. ASSUME NEW r \in Callers, r # p PROVE PhaseFits(r)'
      <4>1. PhaseFits(r) /\ SameCaller(r) /\ query'[r] = query[r] /\ Pooled' = Pooled
        BY <1>2, <1>5, <1>6, <3>2 DEF PoolInv, CallsFit, Pooled
      <4> QED BY <4>1 DEF PhaseFits, SameCaller, IsQuery
    <3> QED BY <3>1, <3>2
  <2>2. ASSUME NEW r \in Callers
        PROVE  callers'[r].phase \in {"waiting", "nesting"} <=> r \in Range(waiting')
    <3>1. callers[r].phase \in {"waiting", "nesting"} <=> r \in Range(waiting)
      BY DEF PoolInv, CallsFit
    <3>2. r # p => callers'[r].phase = callers[r].phase
      BY <1>5 DEF SameCaller
    <3>3. waiting' = Append(waiting, p) => (r \in Range(waiting') <=> r \in Range(waiting) \/ r = p)
      BY <1>1, Queued
    <3> QED BY <1>1, <1>3, <1>5, <3>1, <3>2, <3>3
  <2>3. \A i, j \in 1..Len(waiting') : waiting'[i] = waiting'[j] => i = j
    BY <1>1, <1>3, Queued DEF PoolInv, CallsFit
  <2> QED BY <2>1, <2>2, <2>3 DEF CallsFit
<1>10. ClientsHeld'
  <2>1. \A r \in Callers : Works(r)' /\ Pooled => r # p /\ Works(r)
    BY <1>3, <1>5 DEF Works, AtWork, SameCaller
  <2>2. ~Works(p) /\ ~HasEnded(p)
    BY <1>1 DEF Works, AtWork, HasEnded
  <2>3. \A r \in Callers : r # p /\ HasEnded(r) /\ IsDead(r) => HasEnded(r)' /\ IsDead(r)'
    BY <1>5, <1>6 DEF HasEnded, IsDead, SameCaller
  <2>4. \A r \in Callers : r # p /\ Works(r) => Works(r)'
    BY <1>5 DEF Works, SameCaller
  <2>5. Pooled' = Pooled /\ \A t \in Sessions : IsClean(t)' = IsClean(t)
    BY <1>2 DEF Pooled, IsClean
  <2>6. \A t \in Sessions, r \in Callers : Pooled' /\ sessions'[t].holder = r =>
           callers'[r].session = t /\ (Works(r)' \/ (HasEnded(r)' /\ IsDead(r)'))
    BY <1>2, <1>5, <2>2, <2>3, <2>4, <2>5 DEF PoolInv, ClientsHeld, SameCaller
  <2>7. \A r \in Callers : Pooled' /\ Works(r)' =>
           callers'[r].session \in Sessions /\ sessions'[callers'[r].session].holder = r
    BY <1>2, <1>5, <2>1, <2>5 DEF PoolInv, ClientsHeld, SameCaller
  <2>8. \A t \in Sessions, r \in Callers :
           Pooled' /\ callers'[r].phase \in {"statement", "begin"} /\ callers'[r].session = t => IsClean(t)'
    BY <1>2, <1>3, <1>5, <2>5 DEF PoolInv, ClientsHeld, SameCaller
  <2>9. \A t \in Sessions :
           /\ sessions'[t].state # "tx" => sessions'[t].pending = {}
           /\ sessions'[t].state = "aborted" => Pooled'
           /\ Pooled' /\ sessions'[t].holder = 0 => IsClean(t)'
    BY <1>2, <2>5 DEF PoolInv, ClientsHeld
  <2> QED BY <2>6, <2>7, <2>8, <2>9 DEF ClientsHeld
<1> QED BY <1>8, <1>9, <1>10 DEF PoolInv

LEMMA GrantPool ==
  ASSUME PoolInv, NEW s \in Sessions, Grant(s)
  PROVE  PoolInv'
<1> DEFINE p == Head(waiting)
<1>1. PICK c \in Callers : c = p
  BY Dequeued DEF Grant
<1>2. /\ c \in Range(waiting) /\ waiting' = Tail(waiting) /\ waiting' \in Seq(Callers)
      /\ \A r \in Callers : r \in Range(waiting') <=> r \in Range(waiting) /\ r # c
      /\ \A i, j \in 1..Len(waiting') : waiting'[i] = waiting'[j] => i = j
  BY <1>1, Dequeued DEF Grant
<1>3. /\ Pooled /\ sessions[s].holder = 0 /\ UNCHANGED <<adapter, committed, query, failures>>
      /\ failures' \in 0..MaxFailures /\ committed' \in SUBSET Nat /\ IsClean(s)
      /\ query' = [r \in Callers |-> query'[r]]
  BY DEF Grant, PoolInv, Typed, ClientsHeld
<1>4. callers[c] \in CallerType /\ sessions[s] \in SessionType
      /\ callers \in [Callers -> CallerType] /\ sessions \in [Sessions -> SessionType] /\ IsFiniteSet(callers[c].writes)
  BY DEF PoolInv, Typed
<1>5. callers[c].phase \in {"waiting", "nesting"} /\ PhaseFits(c)
  BY <1>2 DEF PoolInv, CallsFit
<1>6. ASSUME NEW phase \in AtWork, phase # "nesting", callers'[c].phase = phase, callers'[c].kind = callers[c].kind,
             \A r \in Callers \ {c} : SameCaller(r), PhaseFits(c)'
      PROVE  CallsFit'
  <2>1. \A r \in Callers : PhaseFits(r)'
    <3> SUFFICES ASSUME NEW r \in Callers, r # c PROVE PhaseFits(r)'
      BY <1>6
    <3>1. PhaseFits(r) /\ SameCaller(r) /\ query'[r] = query[r] /\ Pooled' = Pooled
      BY <1>3, <1>6 DEF PoolInv, CallsFit, Pooled
    <3> QED BY <3>1 DEF PhaseFits, SameCaller, IsQuery
  <2>2. \A r \in Callers : callers'[r].phase \in {"waiting", "nesting"} <=> r \in Range(waiting')
    BY <1>2, <1>6 DEF PoolInv, CallsFit, SameCaller, AtWork
  <2> QED BY <1>2, <2>1, <2>2 DEF CallsFit
<1>7. CASE callers[c].phase = "nesting"
  <2>1. callers' = [callers EXCEPT ![c] = [callers[c] EXCEPT !.phase = "action"]] /\ sessions' = sessions
    BY <1>1, <1>4, <1>7 DEF Grant, Goes, GivesBack, CallerType
  <2>2. [callers[c] EXCEPT !.phase = "action"] \in CallerType
    BY <1>4 DEF CallerType, Phases
  <2>3. /\ callers' \in [Callers -> CallerType] /\ callers'[c].phase = "action" /\ callers'[c].kind = callers[c].kind
        /\ callers'[c].session = callers[c].session /\ callers'[c].writes = callers[c].writes
        /\ \A r \in Callers \ {c} : SameCaller(r) /\ callers'[r].writes = callers[r].writes
    BY <1>4, <2>1, <2>2 DEF CallerType, SameCaller
  <2>4. Typed'
    BY <1>2, <1>3, <1>4, <2>1, <2>3 DEF PoolInv, Typed
  <2>5. PhaseFits(c)'
    BY <1>3, <1>5, <1>7, <2>3 DEF PhaseFits, Pooled, IsQuery
  <2>6. CallsFit'
    BY <1>6, <2>3, <2>5 DEF AtWork
  <2>7. Works(c) /\ ClientStep(c, "action")
    BY <1>7, <2>1, ClientSteps DEF Works, AtWork
  <2>8. ClientsHeld'
    BY <1>3, <2>3, <2>4, <2>7, HeldStep DEF ClientStep, Works, HasEnded, AtWork
  <2> QED BY <2>4, <2>6, <2>8 DEF PoolInv
<1>8. CASE callers[c].phase = "waiting"
  <2> DEFINE phase == PhaseWithClient(c)
             next == [callers[c] EXCEPT !.phase = phase, !.session = s]
             held == [sessions[s] EXCEPT !.holder = c]
  <2>1. \/ phase = "begin" /\ callers[c].kind = "transaction"
        \/ phase = "declare" /\ callers[c].kind = "chunks"
        \/ phase = "statement" /\ callers[c].kind = "statement"
    BY <1>3, <1>4, <1>5, <1>8 DEF PhaseWithClient, PhaseFits, CallerType
  <2>2. callers' = [callers EXCEPT ![c] = next] /\ sessions' = [sessions EXCEPT ![s] = held]
    BY <1>1, <1>4, <1>8 DEF Grant, CallerType, SessionType
  <2>3. next \in CallerType /\ next.phase = phase /\ next.session = s /\ next.kind = callers[c].kind
        /\ next.writes = callers[c].writes
    BY <1>4, <2>1 DEF CallerType, Phases
  <2>4. held \in SessionType /\ held.holder = c /\ held.state = "idle" /\ held.pending = {} /\ ~held.cursor
    BY <1>3, <1>4 DEF SessionType, Holders, IsClean
  <2> HIDE DEF next, held, phase
  <2>5. /\ callers' \in [Callers -> CallerType] /\ callers'[c].phase = phase /\ callers'[c].kind = callers[c].kind
        /\ callers'[c].session = s /\ callers'[c].writes = callers[c].writes
        /\ \A r \in Callers \ {c} : SameCaller(r) /\ callers'[r].writes = callers[r].writes
    BY <1>4, <2>2, <2>3 DEF SameCaller
  <2>6. /\ sessions' \in [Sessions -> SessionType] /\ sessions'[s].holder = c /\ sessions'[s].state = "idle"
        /\ sessions'[s].pending = {} /\ ~sessions'[s].cursor
        /\ \A t \in Sessions \ {s} : sessions'[t] = sessions[t]
    BY <1>4, <2>2, <2>4
  <2>7. Typed'
    BY <1>2, <1>3, <1>4, <2>5, <2>6 DEF PoolInv, Typed
  <2>8. PhaseFits(c)'
    BY <1>3, <1>5, <2>1, <2>5 DEF PhaseFits, Pooled, IsQuery
  <2>9. CallsFit'
    BY <1>6, <2>1, <2>5, <2>8 DEF AtWork
  <2>10. ClientsHeld'
    <3>1. Pooled' /\ c # 0 /\ Works(c)' /\ ~Works(c) /\ ~HasEnded(c)
      BY <1>3, <1>8, <2>1, <2>5, CallersAssumption DEF Pooled, Works, AtWork, HasEnded
    <3>2. \A t \in Sessions :
            /\ sessions'[t].state # "tx" => sessions'[t].pending = {}
            /\ sessions'[t].state = "aborted" => Pooled'
            /\ sessions'[t].holder = 0 => t # s
      BY <2>6, <3>1 DEF PoolInv, ClientsHeld
    <3>3. \A t \in Sessions : t # s => (IsClean(t) => IsClean(t)')
      BY <2>6 DEF IsClean
    <3>4. IsClean(s)'
      BY <2>6 DEF IsClean
    <3>5. \A t \in Sessions : sessions'[t].holder = 0 => IsClean(t)'
      BY <1>3, <2>6, <3>2, <3>3 DEF PoolInv, ClientsHeld
    <3>6. \A r \in Callers \ {c} : /\ Works(r)' = Works(r) /\ HasEnded(r)' = HasEnded(r) /\ IsDead(r)' = IsDead(r)
                                   /\ callers'[r].session = callers[r].session
      BY <1>3, <2>5 DEF Works, HasEnded, IsDead, SameCaller
    <3>7. ASSUME NEW t \in Sessions, NEW r \in Callers, sessions'[t].holder = r
          PROVE  callers'[r].session = t /\ (Works(r)' \/ (HasEnded(r)' /\ IsDead(r)'))
      <4>1. CASE t = s
        <5>1. r = c
          BY <2>6, <3>7, <4>1
        <5> QED BY <2>5, <3>1, <4>1, <5>1 DEF Works
      <4>2. CASE t # s
        <5>1. sessions[t].holder = r
          BY <2>6, <3>7, <4>2
        <5>2. callers[r].session = t /\ (Works(r) \/ (HasEnded(r) /\ IsDead(r)))
          BY <1>3, <5>1 DEF PoolInv, ClientsHeld
        <5>3. r # c
          BY <3>1, <5>2
        <5> QED BY <3>6, <5>2, <5>3
      <4> QED BY <4>1, <4>2
    <3>8. ASSUME NEW r \in Callers, Works(r)'
          PROVE  callers'[r].session \in Sessions /\ sessions'[callers'[r].session].holder = r
      <4>1. CASE r = c
        BY <2>5, <2>6, <4>1
      <4>2. CASE r # c
        <5>1. callers'[r].session = callers[r].session /\ callers[r].session \in Sessions
              /\ sessions[callers[r].session].holder = r
          BY <1>3, <3>6, <3>8, <4>2 DEF PoolInv, ClientsHeld
        <5>2. callers[r].session # s
          BY <1>3, <5>1, CallersAssumption
        <5> QED BY <2>6, <5>1, <5>2
      <4> QED BY <4>1, <4>2
    <3>9. ASSUME NEW t \in Sessions, NEW r \in Callers,
                 callers'[r].phase \in {"statement", "begin"}, callers'[r].session = t
          PROVE  IsClean(t)'
      <4>1. CASE t = s
        BY <3>4, <4>1
      <4>2. CASE t # s
        <5>1. r # c /\ callers[r].phase \in {"statement", "begin"} /\ callers[r].session = t
          BY <2>5, <3>9, <4>2 DEF SameCaller
        <5> QED BY <1>3, <3>3, <4>2, <5>1 DEF PoolInv, ClientsHeld
      <4> QED BY <4>1, <4>2
    <3> QED BY <3>2, <3>5, <3>7, <3>8, <3>9 DEF ClientsHeld
  <2> QED BY <2>7, <2>9, <2>10 DEF PoolInv
<1> QED BY <1>5, <1>7, <1>8

-----------------------------------------------------------------------------
(* The pool: the theorem *)

LEMMA PoolInit == Init => PoolInv
<1> SUFFICES ASSUME Init PROVE PoolInv
  OBVIOUS
<1>1. /\ adapter \in Adapters /\ sessions = [s \in Sessions |-> Idle] /\ waiting = <<>>
      /\ callers = [p \in Callers |-> NewCaller] /\ query = [p \in Callers |-> NoQuery] /\ failures = 0
  BY DEF Init
<1>2. Idle \in SessionType
  BY DEF Idle, SessionType, Holders
<1>3. NewCaller \in CallerType /\ NewCaller.phase = "new" /\ NewCaller.kind = "none" /\ NewCaller.writes = {}
  BY DEF NewCaller, CallerType, Phases
<1>4. waiting \in Seq(Callers) /\ Len(waiting) = 0 /\ Range(waiting) = {}
  BY <1>1, EmptySeq DEF Range
<1>5. committed \in SUBSET Nat
  BY BoundsAssumption DEF Init
<1>6. failures \in 0..MaxFailures
  BY <1>1, BoundsAssumption
<1>7. \A p \in Callers : callers[p].phase = "new" /\ callers[p].kind = "none" /\ callers[p].writes = {}
  BY <1>1, <1>3
<1>8. Typed
  <2>1. \A p \in Callers : IsFiniteSet(callers[p].writes)
    BY <1>7, FS_EmptySet
  <2> QED BY <1>1, <1>2, <1>3, <1>4, <1>5, <1>6, <2>1 DEF Typed
<1>9. CallsFit
  <2>1. \A p \in Callers : PhaseFits(p)
    BY <1>7 DEF PhaseFits
  <2> QED BY <1>4, <1>7, <2>1 DEF CallsFit
<1>10. ClientsHeld
  <2>1. \A s \in Sessions : sessions[s].state = "idle" /\ sessions[s].pending = {} /\ ~sessions[s].cursor
                             /\ sessions[s].holder = 0
    BY <1>1 DEF Idle
  <2>2. \A p \in Callers : p # 0 /\ ~Works(p) /\ callers[p].phase \notin {"statement", "begin"}
    BY <1>7, CallersAssumption DEF Works, AtWork
  <2> QED BY <2>1, <2>2 DEF ClientsHeld, IsClean
<1> QED BY <1>8, <1>9, <1>10 DEF PoolInv

LEMMA PoolNext == PoolInv /\ [Next]_vars => PoolInv'
<1> SUFFICES ASSUME PoolInv, [Next]_vars PROVE PoolInv'
  OBVIOUS
<1>1. ASSUME NEW p \in Callers, NEW kind \in {"transaction", "chunks", "rows", "statement"},
             NEW o \in Options, Call(p, kind, o)
      PROVE  PoolInv'
  BY <1>1, CallPool
<1>2. ASSUME NEW s \in Sessions, Grant(s) PROVE PoolInv'
  BY <1>2, GrantPool
<1>3. ASSUME NEW p \in Callers, Continue(p) PROVE PoolInv'
  <2>1. CASE Query(p)
    BY <2>1, QueryPool
  <2>2. CASE BeginTransaction(p) \/ BeginFails(p)
    BY <2>2, BeginPool
  <2>3. CASE ActionWrites(p) \/ ActionWriteFails(p) \/ \E isFulfilled \in BOOLEAN : ActionEnds(p, isFulfilled)
    BY <2>3, ActionPool
  <2>4. CASE ActionNests(p)
    BY <2>4, ActionNestsPool
  <2>5. CASE \E o \in Options : ActionFetches(p, o)
    BY <2>5, ActionFetchesPool
  <2>6. CASE CommitTransaction(p) \/ CommitFails(p)
    BY <2>6, CommitPool
  <2>7. CASE RollbackTransaction(p) \/ RollbackFails(p)
    BY <2>7, RollbackPool
  <2>8. CASE Declare(p) \/ DeclareFails(p)
    BY <2>8, DeclarePool, DeclareFailsPool
  <2>9. CASE Fetch(p) \/ FetchFails(p)
    BY <2>9, FetchPool, FetchFailsPool
  <2>10. CASE Consume(p) \/ \E n \in 1..FetchSize, throws \in BOOLEAN : ConsumeUpTo(p, n, throws)
    BY <2>10, ConsumePool
  <2>11. CASE \E dontBreak \in BOOLEAN : LastBatch(p, dontBreak)
    BY <2>11, LastBatchPool
  <2>12. CASE Close(p) \/ CloseFails(p)
    BY <2>12, ClosePool
  <2>13. CASE RowsAction(p)
    BY <2>13, RowsPool
  <2> QED BY <1>3, <2>1, <2>2, <2>3, <2>4, <2>5, <2>6, <2>7, <2>8, <2>9, <2>10, <2>11, <2>12, <2>13
          DEF Continue, RowsAction
<1>4. CASE UNCHANGED vars
  <2>1. Typed'
    BY <1>4 DEF PoolInv, Typed, vars
  <2>2. CallsFit'
    BY <1>4 DEF PoolInv, CallsFit, PhaseFits, Pooled, IsQuery, vars
  <2>3. ClientsHeld'
    BY <1>4 DEF PoolInv, ClientsHeld, Pooled, Works, HasEnded, IsDead, IsClean, vars
  <2> QED BY <2>1, <2>2, <2>3 DEF PoolInv
<1> QED BY <1>1, <1>2, <1>3, <1>4 DEF Next, Progress

LEMMA PoolIsConsistent == PoolInv => PoolConsistent
<1> SUFFICES ASSUME PoolInv PROVE PoolConsistent
  OBVIOUS
<1>1. TypeOK
  <2>1. \A s \in Sessions : /\ sessions[s].state \in {"idle", "tx", "aborted"}
                            /\ sessions[s].holder \in {0} \cup Callers
                            /\ sessions[s].state # "tx" => sessions[s].pending = {}
    <3> TAKE s \in Sessions
    <3>1. sessions[s] \in SessionType
      BY DEF PoolInv, Typed
    <3> QED BY <3>1 DEF SessionType, Holders, PoolInv, ClientsHeld
  <2>2. \A p \in Callers : /\ callers[p].phase \in Phases
                           /\ callers[p].phase \in {"waiting", "nesting"} <=> p \in Range(waiting)
    BY DEF PoolInv, Typed, CallsFit, CallerType
  <2>3. \A p \in Callers : Pooled /\ HoldsClient(p) => Session(p).holder = p
    BY DEF PoolInv, ClientsHeld, HoldsClient, Works, AtWork, Session, SessionOf
  <2> QED BY <2>1, <2>2, <2>3 DEF TypeOK, PoolInv, Typed
<1>2. IdleClean
  BY DEF PoolInv, ClientsHeld, IdleClean, IsClean
<1>3. ClientsReleased
  <2> SUFFICES ASSUME Pooled, NEW s \in Sessions, sessions[s].holder # 0, HasEnded(sessions[s].holder)
               PROVE  IsDead(sessions[s].holder)
    BY DEF ClientsReleased
  <2>1. PICK p \in Callers : sessions[s].holder = p
    BY DEF PoolInv, Typed, SessionType, Holders
  <2>2. HasEnded(p) /\ (Works(p) \/ IsDead(p))
    BY <2>1 DEF PoolInv, ClientsHeld, HasEnded
  <2> QED BY <2>1, <2>2 DEF HasEnded, Works, AtWork
<1> QED BY <1>1, <1>2, <1>3 DEF PoolConsistent

\* Clients of the PostgreSQL pool that nobody uses are outside of a transaction block and
\* without a cursor, each caller at work has a client of its own, and the pool gets the
\* clients back from the calls that have ended; but for queries in chunks that take no rows
\* or whose cursor cannot be declared (postgres-adapter.ts: transaction, iquery).
THEOREM ClientsComeBack == Spec => []PoolConsistent
<1>1. Init => PoolInv
  BY PoolInit
<1>2. PoolInv /\ [Next]_vars => PoolInv'
  BY PoolNext
<1>3. PoolInv => PoolConsistent
  BY PoolIsConsistent
<1> QED BY <1>1, <1>2, <1>3, PTL DEF Spec

-----------------------------------------------------------------------------
(* Transactions: rows and outcomes *)

LEMMA RowsDisjoint ==
  ASSUME NEW p \in Callers, NEW r \in Callers, p # r
  PROVE  RowsOf(p) \cap RowsOf(r) = {}
<1>1. p \in Nat /\ r \in Nat /\ RowsPerCaller \in Nat
  BY CallersAssumption, RowsAssumption
<1>2. ASSUME NEW a \in Nat, NEW b \in Nat, a < b, NEW i \in 0..(RowsPerCaller - 1), NEW j \in 0..(RowsPerCaller - 1)
      PROVE  RowsPerCaller * a + i # RowsPerCaller * b + j
  <2>1. PICK d \in Nat : b = a + 1 + d
    <3>1. b - a - 1 \in Nat /\ b = a + 1 + (b - a - 1)
      BY <1>2
    <3> QED BY <3>1
  <2>2. RowsPerCaller * b = RowsPerCaller * a + RowsPerCaller + RowsPerCaller * d
    BY <1>1, <2>1
  <2>3. RowsPerCaller * d \in Nat /\ RowsPerCaller * a \in Nat /\ RowsPerCaller * b \in Nat
    BY <1>1
  <2> HIDE <2>1
  <2> QED BY <1>1, <2>2, <2>3
<1>3. ASSUME NEW x, x \in RowsOf(p), x \in RowsOf(r) PROVE FALSE
  <2>1. PICK i \in 0..(RowsPerCaller - 1) : x = RowsPerCaller * p + i
    BY <1>3 DEF RowsOf
  <2>2. PICK j \in 0..(RowsPerCaller - 1) : x = RowsPerCaller * r + j
    BY <1>3 DEF RowsOf
  <2>3. p < r \/ r < p
    BY <1>1
  <2> QED BY <1>1, <1>2, <2>1, <2>2, <2>3
<1> QED BY <1>3

\* A caller's next row is one of its own, as long as it may write.
LEMMA RowIsOwn ==
  ASSUME Typed, NEW p \in Callers, Cardinality(callers[p].writes) < MaxWrites \/ callers[p].writes = {}
  PROVE  RowOf(p) \in RowsOf(p)
<1>1. RowOf(p) = RowsPerCaller * p + Cardinality(callers[p].writes) /\ Cardinality(callers[p].writes) \in Nat
  BY RowNumber
<1>2. RowsPerCaller \in Nat /\ MaxWrites \in Nat /\ MaxWrites < RowsPerCaller
  BY RowsAssumption, BoundsAssumption
<1>3. Cardinality({}) = 0
  BY FS_EmptySet
<1>4. Cardinality(callers[p].writes) \in 0..(RowsPerCaller - 1)
  <2> DEFINE n == Cardinality(callers[p].writes)
  <2>1. n \in Nat /\ (n < MaxWrites \/ n = 0)
    BY <1>1, <1>3
  <2> HIDE DEF n
  <2>2. n \in 0..(RowsPerCaller - 1)
    BY <1>2, <2>1
  <2> QED BY <2>2 DEF n
<1> QED BY <1>1, <1>4 DEF RowsOf

\* Nobody of whom the outcome was not told before is told it later.
Telling ==
  /\ \A r \in Callers : IsTold(r)' => IsTold(r)
  /\ \A r \in Callers : callers[r].phase = "new" /\ IsTold(r) => IsTold(r)'
\* Only the caller that commits can hide a failure.
Swallowing(p) ==
  /\ \A r \in Callers \ {p} : callers'[r].swallowed = callers[r].swallowed
  /\ callers'[p].swallowed =>
       callers[p].swallowed \/ (callers'[p].kind = "transaction" /\ callers'[p].phase = "resolved")

LEMMA MarkingTold ==
  ASSUME PoolInv, AtomicInv, NEW p \in Callers, NEW next \in CallerType, MarkOverlap(p, next)
  PROVE  /\ IsTold(p)' => ~next.swallowed /\ ~next.unknown /\ ~next.overlapped /\ ~Overlaps(p)
         /\ \A r \in Callers \ {p} : IsTold(r)' => IsTold(r) /\ ~(Overlaps(p) /\ r = sessions[1].holder)
         /\ \A r \in Callers \ {p} : callers[r].phase = "new" => callers'[r] = callers[r]
         /\ callers'[p].swallowed = next.swallowed
         /\ \A r \in Callers \ {p} : callers'[r].swallowed = callers[r].swallowed
<1>1. callers'[p] = [next EXCEPT !.overlapped = Overlaps(p) \/ next.overlapped]
  BY DEF MarkOverlap
<1>2. /\ callers'[p].swallowed = next.swallowed /\ callers'[p].unknown = next.unknown
      /\ callers'[p].overlapped = (Overlaps(p) \/ next.overlapped)
  BY <1>1 DEF CallerType
<1>3. IsTold(p)' => ~next.swallowed /\ ~next.unknown /\ ~next.overlapped /\ ~Overlaps(p)
  BY <1>2 DEF IsTold
<1>4. ASSUME NEW r \in Callers \ {p} PROVE IsTold(r)' => IsTold(r) /\ ~(Overlaps(p) /\ r = sessions[1].holder)
  <2>1. callers[r] \in CallerType
    BY DEF PoolInv, Typed
  <2>2. CASE Overlaps(p) /\ r = sessions[1].holder
    <3>1. callers'[r] = [callers[r] EXCEPT !.overlapped = TRUE]
      BY <2>2 DEF MarkOverlap
    <3>2. callers'[r].overlapped = TRUE
      BY <2>1, <3>1 DEF CallerType
    <3> QED BY <3>2 DEF IsTold
  <2>3. CASE ~(Overlaps(p) /\ r = sessions[1].holder)
    <3>1. callers'[r] = callers[r]
      BY <2>3 DEF MarkOverlap
    <3> QED BY <2>3, <3>1 DEF IsTold
  <2> QED BY <2>2, <2>3
<1>5. ASSUME NEW r \in Callers \ {p} PROVE callers'[r].swallowed = callers[r].swallowed
  <2>1. callers[r] \in CallerType
    BY DEF PoolInv, Typed
  <2>2. callers'[r] = callers[r] \/ callers'[r] = [callers[r] EXCEPT !.overlapped = TRUE]
    BY DEF MarkOverlap
  <2> QED BY <2>1, <2>2 DEF CallerType
<1>6. ASSUME NEW r \in Callers \ {p}, callers[r].phase = "new" PROVE callers'[r] = callers[r]
  <2>1. callers[r].kind = "none"
    BY <1>6 DEF PoolInv, CallsFit, PhaseFits
  <2>2. ~(Overlaps(p) /\ r = sessions[1].holder)
    BY <2>1 DEF AtomicInv, PendingOnConnection, Overlaps
  <2> QED BY <2>2 DEF MarkOverlap
<1> QED BY <1>2, <1>3, <1>4, <1>5, <1>6

LEMMA MovingTold ==
  ASSUME PoolInv, AtomicInv, NEW p \in Callers, NEW phase, callers[p].phase # "new",
         Goes(p, phase) \/ MarkOverlap(p, [callers[p] EXCEPT !.phase = phase]), phase \in Phases
  PROVE  Telling /\ Swallowing(p) /\ callers'[p].writes = callers[p].writes
<1> DEFINE next == [callers[p] EXCEPT !.phase = phase]
<1>1. callers[p] \in CallerType /\ next \in CallerType /\ next.writes = callers[p].writes
      /\ next.swallowed = callers[p].swallowed /\ next.unknown = callers[p].unknown
      /\ next.overlapped = callers[p].overlapped
  BY DEF PoolInv, Typed, CallerType
<1>2. CASE Goes(p, phase)
  <2>1. callers' = [callers EXCEPT ![p] = next]
    BY <1>1, <1>2 DEF Goes, PoolInv, Typed, CallerType
  <2> HIDE DEF next
  <2>2. callers'[p] = next /\ \A r \in Callers \ {p} : callers'[r] = callers[r]
    BY <2>1 DEF PoolInv, Typed
  <2> QED BY <1>1, <2>2 DEF Telling, Swallowing, IsTold
<1>3. CASE MarkOverlap(p, next)
  <2> HIDE DEF next
  <2>1. callers'[p].writes = callers[p].writes
    BY <1>1, <1>3, Marking DEF PoolInv
  <2>2. IsTold(p)' => IsTold(p)
    BY <1>1, <1>3, MarkingTold DEF IsTold
  <2>3. \A r \in Callers \ {p} : /\ IsTold(r)' => IsTold(r)
                                 /\ callers[r].phase = "new" => callers'[r] = callers[r]
    BY <1>1, <1>3, MarkingTold
  <2>4. Swallowing(p)
    BY <1>1, <1>3, MarkingTold DEF Swallowing
  <2> QED BY <2>1, <2>2, <2>3, <2>4 DEF Telling, IsTold
<1> QED BY <1>2, <1>3

\* A step of one caller: rows are committed with its outcome.
LEMMA OutcomeStep ==
  ASSUME RowsApart, FlagsFit, CommittedWithOutcome,
         NEW p \in Callers, NEW phase, Moves(p, phase), Telling, Swallowing(p),
         phase \notin {"new", "waiting", "statement", "begin"},
         callers'[p].writes \subseteq RowsOf(p),
         callers[p].kind \in {"none", "chunks", "rows"} => callers'[p].writes = {},
         callers[p].phase # "resolved" \/ callers[p].kind \in {"chunks", "rows"},
         committed \subseteq committed',
         \A r \in Callers \ {p} : IsTold(r)' => committed' \cap RowsOf(r) \subseteq committed,
         IsTold(p)' /\ (phase # "resolved" \/ callers[p].kind \in {"chunks", "rows"}) =>
           committed' \cap RowsOf(p) \subseteq committed,
         IsTold(p)' /\ phase = "resolved" => callers'[p].writes \subseteq committed'
  PROVE  RowsApart' /\ FlagsFit' /\ CommittedWithOutcome'
<1>1. callers'[p].kind = callers[p].kind /\ callers'[p].phase = phase
  BY DEF Moves
<1>2. \A r \in Callers \ {p} : /\ callers'[r].kind = callers[r].kind /\ callers'[r].phase = callers[r].phase
                              /\ callers'[r].writes = callers[r].writes
  BY DEF Moves, SameCaller
<1>3. \A r \in Callers : callers'[r].writes \subseteq RowsOf(r)
  BY <1>2 DEF RowsApart
<1>4. \A r \in Callers : callers'[r].kind \in {"none", "chunks", "rows"} \/
                        callers'[r].phase \in {"new", "waiting", "statement", "begin"} => callers'[r].writes = {}
  BY <1>1, <1>2 DEF RowsApart
<1>5. ASSUME NEW r \in Callers, IsTold(r)', callers'[r].phase # "resolved" \/ callers'[r].kind \in {"chunks", "rows"}
      PROVE  committed' \cap RowsOf(r) = {}
  <2>1. IsTold(r) /\ (callers[r].phase # "resolved" \/ callers[r].kind \in {"chunks", "rows"})
    BY <1>1, <1>2, <1>5 DEF Telling
  <2>2. committed \cap RowsOf(r) = {}
    BY <2>1 DEF CommittedWithOutcome
  <2>3. committed' \cap RowsOf(r) \subseteq committed
    BY <1>1, <1>5
  <2> QED BY <2>2, <2>3
<1>6. ASSUME NEW r \in Callers, IsTold(r)', callers'[r].phase = "resolved"
      PROVE  callers'[r].writes \subseteq committed'
  <2>1. CASE r = p
    BY <1>1, <1>6, <2>1
  <2>2. CASE r # p
    <3>1. IsTold(r) /\ callers[r].phase = "resolved" /\ callers'[r].writes = callers[r].writes
      BY <1>2, <1>6, <2>2 DEF Telling
    <3> QED BY <3>1 DEF CommittedWithOutcome
  <2> QED BY <2>1, <2>2
<1>7. FlagsFit'
  <2>1. \A r \in Callers : callers'[r].swallowed => callers'[r].kind = "transaction" /\ callers'[r].phase = "resolved"
    BY <1>1, <1>2 DEF FlagsFit, Swallowing
  <2>2. \A r \in Callers : callers'[r].phase = "new" => IsTold(r)'
    BY <1>1, <1>2 DEF FlagsFit, Telling
  <2> QED BY <2>1, <2>2 DEF FlagsFit
<1> QED BY <1>3, <1>4, <1>5, <1>6, <1>7 DEF RowsApart, CommittedWithOutcome

\* A step that commits nothing.
LEMMA QuietOutcome ==
  ASSUME AtomicInv, committed' = committed, NEW p \in Callers, NEW phase, Moves(p, phase),
         Telling, Swallowing(p), callers'[p].writes = callers[p].writes,
         phase \notin {"new", "waiting", "statement", "begin"},
         phase # "resolved" \/ callers[p].kind \in {"chunks", "rows"},
         callers[p].phase # "resolved" \/ callers[p].kind \in {"chunks", "rows"}
  PROVE  RowsApart' /\ FlagsFit' /\ CommittedWithOutcome'
<1>1. callers'[p].writes \subseteq RowsOf(p)
      /\ (callers[p].kind \in {"none", "chunks", "rows"} => callers'[p].writes = {})
  BY DEF AtomicInv, RowsApart
<1> QED BY <1>1, OutcomeStep DEF AtomicInv

\* What is pending on the other clients stays the same.
LEMMA ClientsStep ==
  ASSUME PoolInv, PendingOnClients, Pooled, adapter' = adapter,
         NEW p \in Callers, Works(p), NEW phase, Moves(p, phase),
         \A t \in Sessions \ {SessionOf(p)} : sessions'[t] = sessions[t],
         sessions'[SessionOf(p)].holder \in {0, p},
         sessions'[SessionOf(p)].state = "tx" => sessions'[SessionOf(p)].pending = callers'[p].writes,
         InTransaction(p)' => sessions'[SessionOf(p)].state # "idle"
  PROVE  PendingOnClients' /\ PendingOnConnection'
<1> DEFINE s == SessionOf(p)
<1>1. s \in Sessions /\ s = callers[p].session /\ sessions[s].holder = p
  BY OwnSession
<1>2. ASSUME NEW t \in Sessions, NEW r \in Callers, sessions'[t].holder = r, sessions'[t].state = "tx"
      PROVE  sessions'[t].pending = callers'[r].writes
  <2>1. CASE t = s
    <3>1. r = p
      BY <1>2, <2>1, CallersAssumption
    <3> QED BY <1>2, <2>1, <3>1
  <2>2. CASE t # s
    <3>1. sessions[t].holder = r /\ sessions[t].state = "tx" /\ sessions'[t].pending = sessions[t].pending
      BY <1>2, <2>2
    <3>2. callers[r].session = t
      BY <3>1 DEF PoolInv, ClientsHeld
    <3>3. r # p
      BY <1>1, <2>2, <3>2
    <3> QED BY <3>1, <3>3 DEF PendingOnClients, Moves
  <2> QED BY <2>1, <2>2
<1>3. ASSUME NEW r \in Callers, InTransaction(r)' PROVE sessions'[callers'[r].session].state # "idle"
  <2>1. CASE r = p
    BY <1>1, <1>3, <2>1 DEF Moves
  <2>2. CASE r # p
    <3>1. InTransaction(r) /\ callers'[r].session = callers[r].session
      BY <1>3, <2>2 DEF InTransaction, Moves, SameCaller
    <3>2. Works(r)
      BY <3>1 DEF InTransaction, Works, AtWork
    <3>3. callers[r].session \in Sessions /\ sessions[callers[r].session].holder = r
      BY <3>2 DEF PoolInv, ClientsHeld
    <3>4. callers[r].session # s
      BY <1>1, <2>2, <3>3
    <3> QED BY <3>1, <3>3, <3>4 DEF PendingOnClients
  <2> QED BY <2>1, <2>2
<1> QED BY <1>2, <1>3 DEF PendingOnClients, PendingOnConnection, Pooled

\* What is pending on the connection of SQLite is that of the same transaction.
LEMMA ConnectionStep ==
  ASSUME PendingOnConnection, ~Pooled, adapter' = adapter,
         NEW p \in Callers, NEW phase, Moves(p, phase), Telling,
         sessions'[1].state = sessions[1].state, sessions'[1].holder = sessions[1].holder,
         \A r \in Callers \ {p} : IsTold(r)' =>
           sessions'[1].pending \cap RowsOf(r) = sessions[1].pending \cap RowsOf(r),
         sessions[1].holder = p => phase \in {"action", "commit", "rollback", "rejected"},
         IsTold(p)' /\ phase \in {"action", "commit"} => callers[p].phase \in {"action", "commit"},
         IsTold(p)' /\ sessions[1].holder = p =>
           phase # "rejected" /\ sessions'[1].pending \cap RowsOf(p) = callers'[p].writes,
         IsTold(p)' /\ sessions[1].holder # p => sessions'[1].pending \cap RowsOf(p) = {}
  PROVE  PendingOnClients' /\ PendingOnConnection'
<1>1. callers'[p].kind = callers[p].kind /\ callers'[p].phase = phase
  BY DEF Moves
<1>2. \A r \in Callers \ {p} : callers'[r].kind = callers[r].kind /\ callers'[r].phase = callers[r].phase
                              /\ callers'[r].writes = callers[r].writes
  BY DEF Moves, SameCaller
<1>3. sessions'[1].state = "idle" <=> sessions'[1].holder = 0
  BY DEF PendingOnConnection
<1>4. ASSUME NEW r \in Callers, sessions'[1].holder = r
      PROVE  callers'[r].kind = "transaction" /\ callers'[r].phase \in {"action", "commit", "rollback", "rejected"}
  BY <1>1, <1>2, <1>4 DEF PendingOnConnection
<1>5. ASSUME NEW r \in Callers, IsTold(r)'
      PROVE  /\ callers'[r].phase \in {"action", "commit"} => sessions'[1].holder = r
             /\ sessions'[1].holder = r =>
                  /\ callers'[r].phase \in {"action", "commit", "rollback"}
                  /\ sessions'[1].pending \cap RowsOf(r) = callers'[r].writes
             /\ sessions'[1].holder # r => sessions'[1].pending \cap RowsOf(r) = {}
  <2>1. IsTold(r)
    BY <1>5 DEF Telling
  <2>2. CASE r = p
    BY <1>1, <1>5, <2>1, <2>2 DEF PendingOnConnection
  <2>3. CASE r # p
    <3>1. sessions'[1].pending \cap RowsOf(r) = sessions[1].pending \cap RowsOf(r)
      BY <1>5, <2>3
    <3>2. callers'[r].kind = callers[r].kind /\ callers'[r].phase = callers[r].phase
          /\ callers'[r].writes = callers[r].writes
      BY <1>2, <2>3
    <3> QED BY <2>1, <3>1, <3>2 DEF PendingOnConnection
  <2> QED BY <2>2, <2>3
<1> QED BY <1>3, <1>4, <1>5 DEF PendingOnClients, PendingOnConnection, Pooled

\* The connection is not used, and nothing is committed.
LEMMA SameConnection ==
  ASSUME AtomicInv, ~Pooled, adapter' = adapter, sessions' = sessions, committed' = committed,
         NEW p \in Callers, NEW phase, Moves(p, phase),
         Telling, Swallowing(p), callers'[p].writes = callers[p].writes,
         phase \notin {"new", "waiting", "statement", "begin"},
         phase # "resolved" \/ callers[p].kind = "rows",
         callers[p].phase # "resolved" \/ callers[p].kind = "rows",
         sessions[1].holder = p => phase \in {"action", "commit", "rollback", "rejected"},
         IsTold(p)' /\ phase \in {"action", "commit"} => callers[p].phase \in {"action", "commit"},
         IsTold(p)' /\ sessions[1].holder = p => phase # "rejected"
  PROVE  AtomicInv'
<1>1. RowsApart' /\ FlagsFit' /\ CommittedWithOutcome'
  BY QuietOutcome
<1>2. IsTold(p)' => IsTold(p)
  BY DEF Telling
<1>3. /\ IsTold(p)' /\ sessions[1].holder = p => sessions'[1].pending \cap RowsOf(p) = callers'[p].writes
      /\ IsTold(p)' /\ sessions[1].holder # p => sessions'[1].pending \cap RowsOf(p) = {}
  BY <1>2 DEF AtomicInv, PendingOnConnection
<1>4. PendingOnClients' /\ PendingOnConnection'
  BY <1>3, ConnectionStep DEF AtomicInv
<1> QED BY <1>1, <1>4 DEF AtomicInv

\* A client is not used otherwise than before, or is aborted, and nothing is committed.
LEMMA SameClient ==
  ASSUME PoolInv, AtomicInv, Pooled, adapter' = adapter, committed' = committed,
         NEW p \in Callers, Works(p), NEW phase, Moves(p, phase),
         Telling, Swallowing(p), callers'[p].writes = callers[p].writes,
         phase \notin {"new", "waiting", "statement", "begin"},
         phase # "resolved" \/ callers[p].kind = "chunks",
         \A t \in Sessions \ {SessionOf(p)} : sessions'[t] = sessions[t],
         sessions'[SessionOf(p)].holder \in {0, p},
         \/ sessions'[SessionOf(p)].state = sessions[SessionOf(p)].state
              /\ sessions'[SessionOf(p)].pending = sessions[SessionOf(p)].pending
              /\ (InTransaction(p)' => InTransaction(p))
         \/ sessions'[SessionOf(p)].state = "aborted"
         \/ sessions'[SessionOf(p)].state = "idle" /\ ~InTransaction(p)'
  PROVE  AtomicInv'
<1>1. callers[p].phase # "resolved"
  BY DEF Works, AtWork
<1>2. RowsApart' /\ FlagsFit' /\ CommittedWithOutcome'
  BY <1>1, QuietOutcome
<1>3. SessionOf(p) \in Sessions /\ SessionOf(p) = callers[p].session /\ sessions[SessionOf(p)].holder = p
  BY OwnSession
<1>4. sessions'[SessionOf(p)].state = "tx" => sessions'[SessionOf(p)].pending = callers'[p].writes
  BY <1>3 DEF AtomicInv, PendingOnClients
<1>5. InTransaction(p)' => sessions'[SessionOf(p)].state # "idle"
  BY <1>3 DEF AtomicInv, PendingOnClients
<1>6. PendingOnClients' /\ PendingOnConnection'
  BY <1>4, <1>5, ClientsStep DEF AtomicInv
<1> QED BY <1>2, <1>6 DEF AtomicInv

-----------------------------------------------------------------------------
(* Transactions: the actions *)

\* What is pending on a connection of SQLite.
LEMMA ConnectionFacts ==
  ASSUME PoolInv, AtomicInv, ~Pooled
  PROVE  /\ 1 \in Sessions /\ sessions[1] \in SessionType /\ \A p \in Callers : SessionOf(p) = 1
         /\ sessions[1].state \in {"idle", "tx"}
         /\ sessions[1].state = "idle" => sessions[1].pending = {} /\ sessions[1].holder = 0
         /\ sessions[1].state = "tx" => sessions[1].holder # 0
<1>1. 1 \in Sessions /\ \A p \in Callers : SessionOf(p) = 1
  BY PoolAssumption DEF Sessions, SessionOf
<1>2. sessions[1] \in SessionType
  BY <1>1 DEF PoolInv, Typed
<1>3. sessions[1].state # "aborted" /\ (sessions[1].state # "tx" => sessions[1].pending = {})
  BY <1>1 DEF PoolInv, ClientsHeld
<1>4. sessions[1].state = "idle" <=> sessions[1].holder = 0
  BY DEF AtomicInv, PendingOnConnection
<1> QED BY <1>1, <1>2, <1>3, <1>4 DEF SessionType

LEMMA BeginAtomic ==
  ASSUME PoolInv, AtomicInv, NEW p \in Callers, BeginTransaction(p) \/ BeginFails(p)
  PROVE  AtomicInv'
<1> DEFINE s == SessionOf(p)
<1>1. Works(p) /\ callers[p].phase = "begin" /\ callers[p].kind = "transaction" /\ Typed
  BY DEF BeginTransaction, BeginFails, Works, AtWork, PoolInv, CallsFit, PhaseFits
<1>2. s \in Sessions /\ sessions[s] \in SessionType /\ (Pooled => s = callers[p].session /\ sessions[s].holder = p)
  BY <1>1, OwnSession DEF PoolInv, Typed
<1>3. adapter' = adapter /\ committed' = committed
  BY DEF BeginTransaction, BeginFails
<1>4. callers[p].writes = {} /\ (~Pooled => sessions[1].holder # p)
  BY <1>1 DEF AtomicInv, RowsApart, PendingOnConnection
<1>5. CASE BeginTransaction(p) /\ MayBegin(p)
  <2> DEFINE begun == [sessions[s] EXCEPT !.state = "tx", !.holder = p]
  <2>1. Moves(p, "action") /\ Telling /\ Swallowing(p) /\ callers'[p].writes = callers[p].writes
    BY <1>1, <1>5, Moving, MovingTold DEF BeginTransaction, Phases
  <2>2. begun.state = "tx" /\ begun.holder = p /\ begun.pending = sessions[s].pending
    BY <1>2 DEF SessionType
  <2>3. sessions' = [sessions EXCEPT ![s] = begun]
    BY <1>2, <1>5 DEF BeginTransaction, SessionType, PoolInv, Typed
  <2>4. sessions'[s] = begun /\ \A t \in Sessions \ {s} : sessions'[t] = sessions[t]
    <3> HIDE DEF begun, s
    <3> QED BY <1>2, <2>3 DEF PoolInv, Typed
  <2> HIDE DEF begun
  <2>5. sessions[s].pending = {}
    <3> HIDE DEF s
    <3>1. sessions[SessionOf(p)].state = "idle"
      BY <1>5 DEF MayBegin
    <3> QED BY <1>2, <3>1 DEF PoolInv, ClientsHeld, s
  <2>6. RowsApart' /\ FlagsFit' /\ CommittedWithOutcome'
    BY <1>1, <1>3, <2>1, QuietOutcome
  <2>7. CASE Pooled
    <3>1. PendingOnClients' /\ PendingOnConnection'
      BY <1>1, <1>3, <1>4, <2>1, <2>2, <2>4, <2>5, <2>7, ClientsStep DEF AtomicInv
    <3> QED BY <2>6, <3>1 DEF AtomicInv
  <2>8. CASE ~Pooled
    <3>1. s = 1 /\ sessions[1].holder = 0
      BY <1>5, <2>8, ConnectionFacts DEF MayBegin
    <3>2. sessions'[1].state = "tx" /\ sessions'[1].holder = p /\ sessions'[1].pending = {} /\ p # 0
      BY <2>2, <2>4, <2>5, <3>1, CallersAssumption
    <3>3. callers'[p].kind = "transaction" /\ callers'[p].phase = "action" /\ callers'[p].writes = {}
      BY <1>1, <1>4, <2>1 DEF Moves
    <3>4. ASSUME NEW r \in Callers \ {p}, IsTold(r)'
          PROVE  callers'[r].phase \notin {"action", "commit"}
      <4>1. IsTold(r) /\ callers'[r].phase = callers[r].phase /\ sessions[1].holder # r
        BY <2>1, <3>1, <3>4, CallersAssumption DEF Telling, Moves, SameCaller
      <4> QED BY <2>8, <4>1 DEF AtomicInv, PendingOnConnection
    <3>5. PendingOnConnection'
      BY <3>2, <3>3, <3>4 DEF PendingOnConnection
    <3>6. PendingOnClients'
      BY <1>3, <2>8 DEF PendingOnClients, Pooled
    <3> QED BY <2>6, <3>5, <3>6 DEF AtomicInv
  <2> QED BY <2>7, <2>8
<1>6. CASE BeginTransaction(p) /\ ~MayBegin(p)
  <2>1. Moves(p, "rollback") /\ Telling /\ Swallowing(p) /\ callers'[p].writes = callers[p].writes
        /\ sessions' = sessions
    BY <1>1, <1>6, Moving, MovingTold DEF BeginTransaction, Phases
  <2>2. ~InTransaction(p)'
    BY <2>1 DEF Moves, InTransaction
  <2>3. CASE Pooled
    BY <1>1, <1>2, <1>3, <2>1, <2>2, <2>3, SameClient
  <2>4. CASE ~Pooled
    BY <1>1, <1>3, <1>4, <2>1, <2>4, SameConnection
  <2> QED BY <2>3, <2>4
<1>7. CASE BeginFails(p) /\ Pooled
  <2>1. Moves(p, "rejected") /\ Telling /\ Swallowing(p) /\ callers'[p].writes = callers[p].writes
        /\ Destroyed(s)
    BY <1>1, <1>7, Moving, MovingTold DEF BeginFails, Phases
  <2>2. sessions'[s] = Idle /\ \A t \in Sessions \ {s} : sessions'[t] = sessions[t]
    BY <1>1, <1>2, <2>1, SessionChanges
  <2>3. ~InTransaction(p)'
    BY <2>1 DEF Moves, InTransaction
  <2> QED BY <1>1, <1>3, <1>7, <2>1, <2>2, <2>3, SameClient DEF Idle
<1>8. CASE BeginFails(p) /\ ~Pooled
  <2>1. Moves(p, "rollback") /\ Telling /\ Swallowing(p) /\ callers'[p].writes = callers[p].writes
        /\ sessions' = sessions
    BY <1>1, <1>8, Moving, MovingTold DEF BeginFails, Phases
  <2> QED BY <1>1, <1>3, <1>4, <1>8, <2>1, SameConnection
<1> QED BY <1>5, <1>6, <1>7, <1>8

LEMMA QueryAtomic ==
  ASSUME PoolInv, AtomicInv, NEW p \in Callers, Query(p)
  PROVE  AtomicInv'
<1> DEFINE s == SessionOf(p)
           next == [callers[p] EXCEPT !.phase = "resolved", !.writes = {RowOf(p)}]
<1>1. Works(p) /\ callers[p].phase = "statement" /\ callers[p].kind = "statement" /\ Typed
      /\ callers[p] \in CallerType
  BY DEF Query, Works, AtWork, PoolInv, CallsFit, PhaseFits, Typed
<1>2. s \in Sessions /\ sessions[s] \in SessionType
      /\ (Pooled => s = callers[p].session /\ sessions[s].holder = p /\ IsClean(s))
  BY <1>1, OwnSession DEF PoolInv, Typed, ClientsHeld
<1>3. callers[p].writes = {} /\ RowOf(p) \in RowsOf(p) /\ RowOf(p) \in Nat
      /\ (~Pooled => sessions[1].holder # p) /\ ~callers[p].swallowed
  BY <1>1, RowIsOwn, RowNumber DEF AtomicInv, RowsApart, FlagsFit, PendingOnConnection
<1>4. next \in CallerType /\ next.kind = callers[p].kind /\ next.session = callers[p].session
      /\ next.phase = "resolved" /\ next.writes = {RowOf(p)} /\ next.swallowed = callers[p].swallowed
      /\ next.unknown = callers[p].unknown /\ next.overlapped = callers[p].overlapped
  BY <1>1, <1>3 DEF CallerType, Phases
<1>5. MarkOverlap(p, next) /\ adapter' = adapter
  BY DEF Query
<1> HIDE DEF next
<1>6. Moves(p, "resolved") /\ callers'[p].writes = {RowOf(p)}
  <2>1. IsFiniteSet({RowOf(p)})
    BY FS_Singleton
  <2> QED BY <1>1, <1>4, <1>5, <2>1, Marking DEF Moves
<1>7. /\ IsTold(p)' => IsTold(p) /\ ~Overlaps(p)
      /\ \A r \in Callers \ {p} : IsTold(r)' => IsTold(r) /\ ~(Overlaps(p) /\ r = sessions[1].holder)
  BY <1>1, <1>4, <1>5, MarkingTold DEF IsTold
<1>8. Telling /\ Swallowing(p)
  <2>1. \A r \in Callers : callers[r].phase = "new" => callers'[r] = callers[r]
    BY <1>1, <1>4, <1>5, MarkingTold
  <2>2. Telling
    BY <1>7, <2>1 DEF Telling, IsTold
  <2> QED BY <1>3, <1>4, <1>5, <2>2, MarkingTold DEF Swallowing
<1>9. \A r \in Callers \ {p} : RowOf(p) \notin RowsOf(r)
  BY <1>3, RowsDisjoint
<1>10. ASSUME committed' = committed \cup {RowOf(p)} \/ committed' = committed,
              IsTold(p)' => RowOf(p) \in committed'
       PROVE  RowsApart' /\ FlagsFit' /\ CommittedWithOutcome'
  <2>1. committed \subseteq committed' /\ \A r \in Callers \ {p} : committed' \cap RowsOf(r) \subseteq committed
    BY <1>9, <1>10
  <2>2. callers'[p].writes \subseteq RowsOf(p) /\ (IsTold(p)' => callers'[p].writes \subseteq committed')
    BY <1>3, <1>6, <1>10
  <2> QED BY <1>1, <1>6, <1>8, <2>1, <2>2, OutcomeStep DEF AtomicInv
<1>11. CASE Pooled
  <2> DEFINE released == [sessions[s] EXCEPT !.holder = 0]
  <2>1. released.state = "idle" /\ released.holder = 0
    BY <1>2, <1>11 DEF SessionType, IsClean
  <2>2. sessions' = [sessions EXCEPT ![s] = released] /\ committed' = committed \cup {RowOf(p)}
    BY <1>2, <1>11 DEF Query, Released, PoolInv, Typed, SessionType
  <2>3. sessions'[s] = released /\ \A t \in Sessions \ {s} : sessions'[t] = sessions[t]
    <3> HIDE DEF released, s
    <3> QED BY <1>2, <2>2 DEF PoolInv, Typed
  <2> HIDE DEF released
  <2>4. ~InTransaction(p)'
    BY <1>6 DEF Moves, InTransaction
  <2>5. PendingOnClients' /\ PendingOnConnection'
    BY <1>1, <1>5, <1>6, <1>11, <2>1, <2>3, <2>4, ClientsStep DEF AtomicInv
  <2> QED BY <1>10, <2>2, <2>5 DEF AtomicInv
<1>12. CASE ~Pooled
  <2>1. Write(1, RowOf(p)) /\ 1 \in Sessions
    BY <1>12, ConnectionFacts DEF Query
  <2>2. /\ sessions[1].state = "idle" => sessions' = sessions /\ committed' = committed \cup {RowOf(p)}
        /\ sessions[1].state # "idle" =>
             committed' = committed /\ sessions'[1].pending = sessions[1].pending \cup {RowOf(p)}
        /\ sessions'[1].state = sessions[1].state /\ sessions'[1].holder = sessions[1].holder
    BY <1>1, <1>3, <2>1, Writing
  <2>3. sessions[1].state # "idle" => Overlaps(p)
    BY <1>3, <1>12, ConnectionFacts DEF Overlaps
  <2>4. RowsApart' /\ FlagsFit' /\ CommittedWithOutcome'
    BY <1>7, <1>10, <2>2, <2>3
  <2>5. \A r \in Callers \ {p} : sessions'[1].pending \cap RowsOf(r) = sessions[1].pending \cap RowsOf(r)
    BY <1>9, <2>2
  <2>6. IsTold(p)' => sessions'[1].pending \cap RowsOf(p) = {}
    BY <1>3, <1>7, <1>12, <2>2, <2>3 DEF AtomicInv, PendingOnConnection
  <2>7. PendingOnClients' /\ PendingOnConnection'
    BY <1>3, <1>5, <1>6, <1>8, <1>12, <2>2, <2>5, <2>6, ConnectionStep DEF AtomicInv
  <2> QED BY <2>4, <2>7 DEF AtomicInv
<1> QED BY <1>11, <1>12

LEMMA ActionWritesAtomic ==
  ASSUME PoolInv, AtomicInv, NEW p \in Callers, ActionWrites(p)
  PROVE  AtomicInv'
<1> DEFINE s == SessionOf(p)
           next == [callers[p] EXCEPT !.writes = callers[p].writes \cup {RowOf(p)}]
<1>1. callers[p].phase = "action" /\ Typed /\ adapter' = adapter
  BY DEF ActionWrites, PoolInv
<1>2. /\ Works(p) /\ callers[p] \in CallerType /\ s \in Sessions /\ sessions[s] \in SessionType
      /\ callers[p].kind = "transaction" /\ (Pooled => s = callers[p].session /\ sessions[s].holder = p)
  BY <1>1, AtWorkInTransaction
<1>3. RowOf(p) \in RowsOf(p) /\ RowOf(p) \in Nat /\ callers[p].writes \subseteq RowsOf(p)
      /\ IsFiniteSet(callers[p].writes) /\ ~callers[p].swallowed
  BY <1>1, RowIsOwn, RowNumber DEF ActionWrites, AtomicInv, RowsApart, FlagsFit, Typed
<1>4. next \in CallerType /\ next.phase = "action" /\ next.kind = callers[p].kind
      /\ next.session = callers[p].session /\ next.writes = callers[p].writes \cup {RowOf(p)}
      /\ next.swallowed = callers[p].swallowed /\ next.unknown = callers[p].unknown
      /\ next.overlapped = callers[p].overlapped
  BY <1>1, <1>2, <1>3 DEF CallerType
<1>5. IsFiniteSet(next.writes)
  BY <1>3, <1>4, FS_AddElement
<1>6. callers' = [callers EXCEPT ![p] = next]
  BY <1>2 DEF ActionWrites, PoolInv, Typed, CallerType
<1> HIDE DEF next
<1>7. Moves(p, "action") /\ callers'[p].writes = callers[p].writes \cup {RowOf(p)}
  BY <1>4, <1>5, <1>6 DEF Moves, PoolInv, Typed, SameCaller
<1>8. callers'[p] = next /\ \A r \in Callers \ {p} : callers'[r] = callers[r]
  BY <1>1, <1>6 DEF Typed
<1>9. Telling /\ Swallowing(p) /\ (IsTold(p)' => IsTold(p))
  BY <1>4, <1>8 DEF Telling, Swallowing, IsTold
<1>10. \A r \in Callers \ {p} : RowOf(p) \notin RowsOf(r)
  BY <1>3, RowsDisjoint
<1>11. Write(s, RowOf(p)) /\ sessions[s].state # "aborted"
  BY DEF ActionWrites, WriteInTransaction
<1>12. /\ sessions[s].state = "idle" => sessions' = sessions /\ committed' = committed \cup {RowOf(p)}
       /\ sessions[s].state # "idle" =>
            committed' = committed /\ sessions'[s].pending = sessions[s].pending \cup {RowOf(p)}
       /\ sessions'[s].state = sessions[s].state /\ sessions'[s].holder = sessions[s].holder
       /\ \A t \in Sessions \ {s} : sessions'[t] = sessions[t]
  <2> HIDE DEF s
  <2> QED BY <1>1, <1>2, <1>3, <1>11, Writing
<1>13. sessions[s].state = "idle" => ~IsTold(p)
  <2>1. CASE Pooled
    BY <1>1, <1>2, <2>1 DEF AtomicInv, PendingOnClients, InTransaction
  <2>2. CASE ~Pooled
    BY <1>1, <2>2, ConnectionFacts, CallersAssumption DEF AtomicInv, PendingOnConnection
  <2> QED BY <2>1, <2>2
<1> HIDE DEF s
<1>14. RowsApart' /\ FlagsFit' /\ CommittedWithOutcome'
  <2>1. committed \subseteq committed' /\ \A r \in Callers \ {p} : committed' \cap RowsOf(r) \subseteq committed
    BY <1>10, <1>12
  <2>2. IsTold(p)' => committed' = committed
    BY <1>9, <1>12, <1>13
  <2>3. callers'[p].writes \subseteq RowsOf(p)
    BY <1>3, <1>7
  <2> QED BY <1>1, <1>2, <1>7, <1>9, <2>1, <2>2, <2>3, OutcomeStep DEF AtomicInv
<1>15. CASE Pooled
  <2>1. sessions[s].state = "tx"
    BY <1>1, <1>2, <1>11, <1>15 DEF AtomicInv, PendingOnClients, InTransaction, SessionType
  <2>2. sessions[s].pending = callers[p].writes
    BY <1>2, <1>15, <2>1 DEF AtomicInv, PendingOnClients
  <2>3. PendingOnClients' /\ PendingOnConnection'
    BY <1>1, <1>2, <1>7, <1>12, <1>15, <2>1, <2>2, ClientsStep DEF AtomicInv, s
  <2> QED BY <1>14, <2>3 DEF AtomicInv
<1>16. CASE ~Pooled
  <2>1. s = 1
    BY <1>16 DEF s, SessionOf
  <2>2. \A r \in Callers \ {p} : sessions'[1].pending \cap RowsOf(r) = sessions[1].pending \cap RowsOf(r)
    BY <1>10, <1>12, <2>1
  <2>3. IsTold(p)' => sessions[1].holder = p /\ sessions[1].pending \cap RowsOf(p) = callers[p].writes
    BY <1>1, <1>9, <1>16 DEF AtomicInv, PendingOnConnection
  <2>4. IsTold(p)' => sessions'[1].pending \cap RowsOf(p) = callers'[p].writes
    BY <1>3, <1>7, <1>9, <1>12, <1>13, <2>1, <2>3
  <2>5. PendingOnClients' /\ PendingOnConnection'
    BY <1>1, <1>7, <1>9, <1>12, <1>16, <2>1, <2>2, <2>3, <2>4, ConnectionStep DEF AtomicInv
  <2> QED BY <1>14, <2>5 DEF AtomicInv
<1> QED BY <1>15, <1>16

\* A caller in its action that does not write.
LEMMA ActionAtomic ==
  ASSUME PoolInv, AtomicInv, NEW p \in Callers,
         \/ ActionWriteFails(p) \/ ActionNests(p)
         \/ \E isFulfilled \in BOOLEAN : ActionEnds(p, isFulfilled)
         \/ \E o \in Options : ActionFetches(p, o)
  PROVE  AtomicInv'
<1> DEFINE s == SessionOf(p)
<1>1. callers[p].phase = "action" /\ Typed /\ adapter' = adapter /\ committed' = committed
  BY DEF ActionWriteFails, ActionNests, ActionEnds, ActionFetches, PoolInv
<1>2. /\ Works(p) /\ callers[p] \in CallerType /\ s \in Sessions /\ sessions[s] \in SessionType
      /\ callers[p].kind = "transaction" /\ (Pooled => s = callers[p].session /\ sessions[s].holder = p)
  BY <1>1, AtWorkInTransaction
<1>3. PICK phase \in {"action", "nesting", "commit", "rollback", "declare"} :
        /\ Moves(p, phase) /\ Telling /\ Swallowing(p) /\ callers'[p].writes = callers[p].writes
        /\ ~Pooled => phase \in {"action", "commit", "rollback"}
  <2>1. CASE ActionWriteFails(p)
    BY <1>1, <1>2, <2>1 DEF ActionWriteFails, Moves, Telling, Swallowing, IsTold, Typed, SameCaller
  <2>2. CASE ActionNests(p)
    <3> DEFINE phase == IF Pooled THEN "nesting" ELSE "action"
               next == [callers[p] EXCEPT !.nested = TRUE, !.phase = phase]
    <3>1. next \in CallerType /\ next.phase = phase /\ next.kind = callers[p].kind
          /\ next.session = callers[p].session /\ next.writes = callers[p].writes
          /\ next.swallowed = callers[p].swallowed /\ next.unknown = callers[p].unknown
          /\ next.overlapped = callers[p].overlapped
      BY <1>2 DEF CallerType, Phases
    <3>2. callers' = [callers EXCEPT ![p] = next]
      BY <1>1, <1>2, <2>2 DEF ActionNests, Typed, CallerType
    <3>3. phase \in {"nesting", "action"} /\ (~Pooled => phase = "action")
      OBVIOUS
    <3> HIDE DEF next, phase
    <3>4. callers'[p] = next /\ \A r \in Callers \ {p} : callers'[r] = callers[r]
      BY <1>1, <3>2 DEF Typed
    <3>5. Moves(p, phase)
      BY <1>1, <3>1, <3>2, <3>4 DEF Moves, Typed, SameCaller
    <3>6. Telling /\ Swallowing(p) /\ callers'[p].writes = callers[p].writes
      BY <3>1, <3>4 DEF Telling, Swallowing, IsTold
    <3> QED BY <3>3, <3>5, <3>6
  <2>3. CASE \E isFulfilled \in BOOLEAN : ActionEnds(p, isFulfilled)
    <3>1. PICK phase \in {"commit", "rollback"} : Goes(p, phase)
      BY <2>3 DEF ActionEnds
    <3> QED BY <1>1, <3>1, Moving, MovingTold DEF Phases
  <2>4. CASE \E o \in Options : ActionFetches(p, o)
    <3>1. Goes(p, "declare") /\ Pooled
      BY <2>4 DEF ActionFetches
    <3> QED BY <1>1, <3>1, Moving, MovingTold DEF Phases
  <2> QED BY <2>1, <2>2, <2>3, <2>4
<1>4. sessions' = sessions \/ sessions' = Aborted(s)
  BY DEF ActionWriteFails, ActionNests, ActionEnds, ActionFetches
<1>5. CASE Pooled
  <2>1. \A t \in Sessions \ {s} : sessions'[t] = sessions[t]
    BY <1>1, <1>2, <1>4, SessionChanges
  <2>2. InTransaction(p)
    BY <1>1 DEF InTransaction
  <2>3. sessions' = sessions \/ sessions'[s].state = "aborted"
    BY <1>1, <1>2, <1>4, SessionChanges
  <2>4. sessions'[s].holder = p
    BY <1>1, <1>2, <1>4, <1>5, SessionChanges
  <2> QED BY <1>1, <1>2, <1>3, <1>5, <2>1, <2>2, <2>3, <2>4, SameClient
<1>6. CASE ~Pooled
  <2>1. sessions' = sessions
    BY <1>4, <1>6 DEF Aborted
  <2> QED BY <1>1, <1>2, <1>3, <1>6, <2>1, SameConnection
<1> QED BY <1>5, <1>6

\* The transaction in progress on a connection of SQLite is over.
LEMMA EndOfConnection ==
  ASSUME AtomicInv, ~Pooled, adapter' = adapter,
         NEW p \in Callers, NEW phase \in {"resolved", "rejected"}, Moves(p, phase), sessions'[1] = Idle,
         \A r \in Callers \ {p} : IsTold(r)' => IsTold(r) /\ ~(Overlaps(p) /\ r = sessions[1].holder)
  PROVE  PendingOnClients' /\ PendingOnConnection'
<1>1. sessions'[1].state = "idle" /\ sessions'[1].holder = 0 /\ sessions'[1].pending = {}
  BY DEF Idle
<1>2. ASSUME NEW r \in Callers, IsTold(r)' PROVE callers'[r].phase \notin {"action", "commit"}
  <2>1. CASE r = p
    BY <2>1 DEF Moves
  <2>2. CASE r # p
    <3>1. callers'[r].phase = callers[r].phase /\ IsTold(r) /\ ~(Overlaps(p) /\ r = sessions[1].holder)
      BY <1>2, <2>2 DEF Moves, SameCaller
    <3>2. sessions[1].holder = r => Overlaps(p)
      BY <2>2, CallersAssumption DEF Overlaps
    <3> QED BY <3>1, <3>2 DEF AtomicInv, PendingOnConnection
  <2> QED BY <2>1, <2>2
<1>3. \A r \in Callers : r # 0
  BY CallersAssumption
<1>4. PendingOnConnection'
  BY <1>1, <1>2, <1>3 DEF PendingOnConnection
<1>5. PendingOnClients'
  BY DEF PendingOnClients, Pooled
<1> QED BY <1>4, <1>5

LEMMA CommitAtomic ==
  ASSUME PoolInv, AtomicInv, NEW p \in Callers, CommitTransaction(p)
  PROVE  AtomicInv'
<1> DEFINE s == SessionOf(p)
           phase == IF sessions[s].state = "idle" THEN "rejected" ELSE "resolved"
           next == [callers[p] EXCEPT !.phase = phase, !.swallowed = sessions[s].state = "aborted"]
<1>1. callers[p].phase = "commit" /\ Typed /\ adapter' = adapter
      /\ committed' = committed \cup sessions[s].pending
  BY DEF CommitTransaction, PoolInv
<1>2. /\ Works(p) /\ callers[p] \in CallerType /\ s \in Sessions /\ sessions[s] \in SessionType
      /\ callers[p].kind = "transaction" /\ (Pooled => s = callers[p].session /\ sessions[s].holder = p)
  BY <1>1, AtWorkInTransaction
<1>3. (sessions[s].state = "aborted") \in BOOLEAN /\ phase \in {"rejected", "resolved"}
      /\ (sessions[s].state # "idle" <=> phase = "resolved")
  OBVIOUS
<1>4. next \in CallerType /\ next.phase = phase /\ next.kind = callers[p].kind
      /\ next.session = callers[p].session /\ next.writes = callers[p].writes
      /\ next.unknown = callers[p].unknown /\ next.overlapped = callers[p].overlapped
      /\ next.swallowed = (sessions[s].state = "aborted")
  BY <1>2, <1>3 DEF CallerType, Phases
<1>5. MarkOverlap(p, next) /\ Destroyed(s)
  BY DEF CommitTransaction, AfterCommit, Destroyed
<1>6. ~callers[p].swallowed /\ callers[p].writes \subseteq RowsOf(p) /\ IsFiniteSet(callers[p].writes)
  BY <1>1 DEF AtomicInv, FlagsFit, RowsApart, Typed
<1> HIDE DEF next, phase, s
<1>7. sessions'[s] = Idle /\ \A t \in Sessions \ {s} : sessions'[t] = sessions[t]
  BY <1>1, <1>2, <1>5, SessionChanges
<1>8. Moves(p, phase) /\ callers'[p].writes = callers[p].writes
  BY <1>1, <1>4, <1>5, <1>6, Marking DEF Moves
<1>9. /\ IsTold(p)' => IsTold(p) /\ ~Overlaps(p) /\ sessions[s].state # "aborted"
      /\ \A r \in Callers \ {p} : IsTold(r)' => IsTold(r) /\ ~(Overlaps(p) /\ r = sessions[1].holder)
  BY <1>1, <1>4, <1>5, <1>6, MarkingTold DEF IsTold
<1>10. Telling /\ Swallowing(p)
  <2>1. Telling
    <3>1. \A r \in Callers : callers[r].phase = "new" => callers'[r] = callers[r]
      BY <1>1, <1>4, <1>5, MarkingTold
    <3> QED BY <1>9, <3>1 DEF Telling, IsTold
  <2>2. callers'[p].swallowed => sessions[s].state = "aborted"
    BY <1>1, <1>4, <1>5, MarkingTold
  <2>3. callers'[p].swallowed => callers'[p].kind = "transaction" /\ callers'[p].phase = "resolved"
    BY <1>2, <1>3, <1>8, <2>2 DEF Moves
  <2>4. \A r \in Callers \ {p} : callers'[r].swallowed = callers[r].swallowed
    BY <1>1, <1>4, <1>5, MarkingTold
  <2> QED BY <2>1, <2>3, <2>4 DEF Swallowing
<1>11. ASSUME NEW r \in Callers \ {p}, IsTold(r)' PROVE sessions[s].pending \cap RowsOf(r) = {}
  <2>1. CASE Pooled
    <3>1. sessions[s].pending = {} \/ sessions[s].pending = callers[p].writes
      BY <1>2, <2>1 DEF PoolInv, ClientsHeld, AtomicInv, PendingOnClients
    <3> QED BY <1>6, <3>1, RowsDisjoint
  <2>2. CASE ~Pooled
    <3>1. s = 1 /\ IsTold(r) /\ ~(Overlaps(p) /\ r = sessions[1].holder)
      BY <1>9, <1>11, <2>2 DEF s, SessionOf
    <3>2. sessions[1].holder # r
      BY <2>2, <3>1, CallersAssumption DEF Overlaps
    <3> QED BY <2>2, <3>1, <3>2 DEF AtomicInv, PendingOnConnection
  <2> QED BY <2>1, <2>2
<1>12. IsTold(p)' => sessions[s].state # "idle" /\ callers[p].writes \subseteq sessions[s].pending
  <2> SUFFICES ASSUME IsTold(p)' PROVE sessions[s].state # "idle" /\ callers[p].writes \subseteq sessions[s].pending
    OBVIOUS
  <2>1. CASE Pooled
    <3>1. sessions[s].state = "tx"
      BY <1>1, <1>2, <1>9, <2>1 DEF AtomicInv, PendingOnClients, InTransaction, SessionType
    <3>2. sessions[s].pending = callers[p].writes
      BY <1>2, <2>1, <3>1 DEF AtomicInv, PendingOnClients
    <3> QED BY <3>1, <3>2
  <2>2. CASE ~Pooled
    <3>1. s = 1 /\ sessions[1].holder = p /\ sessions[1].pending \cap RowsOf(p) = callers[p].writes
      BY <1>1, <1>9, <2>2 DEF AtomicInv, PendingOnConnection, s, SessionOf
    <3>2. sessions[1].state # "idle"
      BY <2>2, <3>1, ConnectionFacts, CallersAssumption
    <3> QED BY <3>1, <3>2
  <2> QED BY <2>1, <2>2
<1>13. RowsApart' /\ FlagsFit' /\ CommittedWithOutcome'
  <2>1. committed \subseteq committed'
        /\ \A r \in Callers \ {p} : IsTold(r)' => committed' \cap RowsOf(r) \subseteq committed
    BY <1>1, <1>11
  <2>2. IsTold(p)' => phase = "resolved" /\ callers'[p].writes \subseteq committed'
    BY <1>1, <1>3, <1>8, <1>12
  <2>3. callers'[p].writes \subseteq RowsOf(p)
    BY <1>6, <1>8
  <2> QED BY <1>1, <1>2, <1>3, <1>8, <1>10, <2>1, <2>2, <2>3, OutcomeStep DEF AtomicInv
<1>14. CASE Pooled
  <2>1. ~InTransaction(p)'
    BY <1>3, <1>8 DEF Moves, InTransaction
  <2>2. PendingOnClients' /\ PendingOnConnection'
    BY <1>1, <1>2, <1>7, <1>8, <1>14, <2>1, ClientsStep DEF AtomicInv, Idle, s
  <2> QED BY <1>13, <2>2 DEF AtomicInv
<1>15. CASE ~Pooled
  <2>1. s = 1
    BY <1>15 DEF s, SessionOf
  <2>2. PendingOnClients' /\ PendingOnConnection'
    BY <1>1, <1>3, <1>7, <1>8, <1>9, <1>15, <2>1, EndOfConnection
  <2> QED BY <1>13, <2>2 DEF AtomicInv
<1> QED BY <1>14, <1>15

LEMMA CommitFailsAtomic ==
  ASSUME PoolInv, AtomicInv, NEW p \in Callers, CommitFails(p)
  PROVE  AtomicInv'
<1> DEFINE s == SessionOf(p)
           next == [callers[p] EXCEPT !.phase = "rejected", !.unknown = TRUE]
<1>1. callers[p].phase = "commit" /\ Typed /\ adapter' = adapter
  BY DEF CommitFails, PoolInv
<1>2. /\ Works(p) /\ callers[p] \in CallerType /\ s \in Sessions /\ sessions[s] \in SessionType
      /\ callers[p].kind = "transaction" /\ (Pooled => s = callers[p].session /\ sessions[s].holder = p)
  BY <1>1, AtWorkInTransaction
<1>3. next \in CallerType /\ next.phase = "rejected" /\ next.kind = callers[p].kind
      /\ next.session = callers[p].session /\ next.writes = callers[p].writes
      /\ next.unknown /\ next.swallowed = callers[p].swallowed
  BY <1>2 DEF CallerType, Phases
<1>4. callers' = [callers EXCEPT ![p] = next]
  BY <1>1, <1>2 DEF CommitFails, Typed, CallerType
<1> HIDE DEF next
<1>5. callers'[p] = next /\ \A r \in Callers \ {p} : callers'[r] = callers[r]
  BY <1>1, <1>4 DEF Typed
<1>6. Moves(p, "rejected") /\ callers'[p].writes = callers[p].writes
  BY <1>1, <1>3, <1>4, <1>5 DEF Moves, Typed, SameCaller
<1>7. ~IsTold(p)' /\ Telling /\ Swallowing(p)
  BY <1>1, <1>3, <1>5 DEF Telling, Swallowing, IsTold
<1>8. callers[p].writes \subseteq RowsOf(p)
  BY DEF AtomicInv, RowsApart
<1>9. CASE Pooled
  <2>1. Destroyed(s) /\ (committed' = committed \/ committed' = committed \cup sessions[s].pending)
    BY <1>9 DEF CommitFails
  <2>2. sessions'[s] = Idle /\ \A t \in Sessions \ {s} : sessions'[t] = sessions[t]
    BY <1>1, <1>2, <2>1, SessionChanges
  <2>3. sessions[s].pending = {} \/ sessions[s].pending = callers[p].writes
    <3> HIDE DEF s
    <3> QED BY <1>2, <1>9 DEF PoolInv, ClientsHeld, AtomicInv, PendingOnClients
  <2>4. committed \subseteq committed' /\ \A r \in Callers \ {p} : committed' \cap RowsOf(r) \subseteq committed
    BY <1>8, <2>1, <2>3, RowsDisjoint
  <2>5. RowsApart' /\ FlagsFit' /\ CommittedWithOutcome'
    BY <1>1, <1>2, <1>6, <1>7, <1>8, <2>4, OutcomeStep DEF AtomicInv
  <2>6. ~InTransaction(p)'
    BY <1>6 DEF Moves, InTransaction
  <2>7. PendingOnClients' /\ PendingOnConnection'
    BY <1>1, <1>2, <1>6, <1>9, <2>2, <2>6, ClientsStep DEF AtomicInv, Idle
  <2> QED BY <2>5, <2>7 DEF AtomicInv
<1>10. CASE ~Pooled
  <2>1. sessions' = sessions /\ committed' = committed
    BY <1>10 DEF CommitFails
  <2> QED BY <1>1, <1>6, <1>7, <1>10, <2>1, SameConnection
<1> QED BY <1>9, <1>10

LEMMA RollbackAtomic ==
  ASSUME PoolInv, AtomicInv, NEW p \in Callers, RollbackTransaction(p) \/ RollbackFails(p)
  PROVE  AtomicInv'
<1> DEFINE s == SessionOf(p)
<1>1. callers[p].phase = "rollback" /\ Typed /\ adapter' = adapter /\ committed' = committed
  BY DEF RollbackTransaction, RollbackFails, PoolInv
<1>2. /\ Works(p) /\ s \in Sessions /\ callers[p] \in CallerType
      /\ (Pooled => s = callers[p].session /\ sessions[s].holder = p)
  BY <1>1, AtWorkInTransaction
<1>3. Moves(p, "rejected") /\ Telling /\ Swallowing(p) /\ callers'[p].writes = callers[p].writes
  BY <1>1, Moving, MovingTold DEF RollbackTransaction, RollbackFails, Phases
<1>4. Destroyed(s)
  BY DEF RollbackTransaction, RollbackFails, Destroyed
<1>5. sessions'[s] = Idle /\ \A t \in Sessions \ {s} : sessions'[t] = sessions[t]
  BY <1>1, <1>2, <1>4, SessionChanges
<1>6. CASE Pooled
  <2>1. ~InTransaction(p)'
    BY <1>3 DEF Moves, InTransaction
  <2> QED BY <1>1, <1>2, <1>3, <1>5, <1>6, <2>1, SameClient DEF Idle
<1>7. CASE ~Pooled
  <2> DEFINE next == [callers[p] EXCEPT !.phase = "rejected"]
  <2>1. next \in CallerType /\ MarkOverlap(p, next) /\ s = 1
    BY <1>2, <1>7 DEF RollbackTransaction, RollbackFails, CallerType, Phases, SessionOf
  <2> HIDE DEF next
  <2>2. \A r \in Callers \ {p} : IsTold(r)' => IsTold(r) /\ ~(Overlaps(p) /\ r = sessions[1].holder)
    BY <1>1, <2>1, MarkingTold
  <2>3. PendingOnClients' /\ PendingOnConnection'
    BY <1>1, <1>3, <1>5, <1>7, <2>1, <2>2, EndOfConnection
  <2>4. RowsApart' /\ FlagsFit' /\ CommittedWithOutcome'
    BY <1>1, <1>3, QuietOutcome
  <2> QED BY <2>3, <2>4 DEF AtomicInv
<1> QED BY <1>6, <1>7

LEMMA DeclareAtomic ==
  ASSUME PoolInv, AtomicInv, NEW p \in Callers, Declare(p) \/ DeclareFails(p)
  PROVE  AtomicInv'
<1> DEFINE s == SessionOf(p)
<1>1. callers[p].phase = "declare" /\ Typed /\ adapter' = adapter /\ committed' = committed
  BY DEF Declare, DeclareFails, PoolInv
<1>2. /\ Works(p) /\ Pooled /\ callers[p].kind \in {"transaction", "chunks"} /\ s \in Sessions
      /\ sessions[s] \in SessionType /\ s = callers[p].session /\ sessions[s].holder = p
  BY <1>1, AtWorkOnCursor
<1>3. PICK phase \in {"action", "fetch", "resolved", "rejected"} :
        Goes(p, phase) /\ (phase \in {"resolved", "rejected"} => callers[p].kind = "chunks")
  BY <1>2 DEF Declare, DeclareFails, AfterQuery, AfterError, IsInTransaction
<1>4. Moves(p, phase) /\ Telling /\ Swallowing(p) /\ callers'[p].writes = callers[p].writes
  BY <1>1, <1>3, Moving, MovingTold DEF Phases
<1>5. callers[p].kind = "chunks" => callers[p].writes = {}
  BY DEF AtomicInv, RowsApart
<1>6. CASE Declare(p)
  <2> DEFINE opened == [sessions[s] EXCEPT !.state = "tx", !.cursor = (query[p].take # 0) \/ @]
  <2>1. opened.state = "tx" /\ opened.holder = p /\ opened.pending = sessions[s].pending
    BY <1>2 DEF SessionType
  <2>2. sessions' = [sessions EXCEPT ![s] = opened]
    BY <1>1, <1>2, <1>6 DEF Declare, Typed, SessionType
  <2> HIDE DEF opened
  <2>3. sessions'[s] = opened /\ \A t \in Sessions \ {s} : sessions'[t] = sessions[t]
    <3> HIDE DEF s
    <3> QED BY <1>1, <1>2, <2>2 DEF Typed
  <2>4. sessions[s].pending = callers[p].writes
    <3>1. sessions[s].state # "aborted"
      BY <1>6 DEF Declare, Session
    <3> HIDE DEF s
    <3>2. CASE sessions[s].state = "tx"
      BY <1>2, <3>2 DEF AtomicInv, PendingOnClients
    <3>3. CASE sessions[s].state = "idle"
      <4>1. callers[p].kind = "chunks"
        BY <1>1, <1>2, <3>3 DEF AtomicInv, PendingOnClients, InTransaction
      <4> QED BY <1>2, <1>5, <3>3, <4>1 DEF PoolInv, ClientsHeld
    <3> QED BY <1>2, <3>1, <3>2, <3>3 DEF SessionType
  <2>5. PendingOnClients' /\ PendingOnConnection'
    BY <1>1, <1>2, <1>4, <2>1, <2>3, <2>4, ClientsStep DEF AtomicInv
  <2>6. RowsApart' /\ FlagsFit' /\ CommittedWithOutcome'
    BY <1>1, <1>3, <1>4, QuietOutcome
  <2> QED BY <2>5, <2>6 DEF AtomicInv
<1>7. CASE DeclareFails(p)
  <2>1. sessions' = Aborted(s)
    BY <1>7 DEF DeclareFails
  <2>2. sessions'[s].state = "aborted" \/ sessions' = sessions
    BY <1>1, <1>2, <2>1, SessionChanges
  <2>3. sessions'[s].holder = p /\ \A t \in Sessions \ {s} : sessions'[t] = sessions[t]
    BY <1>1, <1>2, <2>1, SessionChanges
  <2>4. InTransaction(p)' => InTransaction(p)
    BY <1>1, <1>3, <1>4, <1>7 DEF InTransaction, Moves, DeclareFails, Goes, AfterError, IsInTransaction, Typed, CallerType
  <2> QED BY <1>1, <1>2, <1>3, <1>4, <2>2, <2>3, <2>4, SameClient
<1> QED BY <1>6, <1>7

\* Fetching and consuming rows of a cursor.
LEMMA FetchAtomic ==
  ASSUME PoolInv, AtomicInv, NEW p \in Callers,
         \/ Fetch(p) \/ FetchFails(p) \/ Consume(p)
         \/ \E n \in 1..FetchSize, throws \in BOOLEAN : ConsumeUpTo(p, n, throws)
         \/ \E dontBreak \in BOOLEAN : LastBatch(p, dontBreak)
  PROVE  AtomicInv'
<1> DEFINE s == SessionOf(p)
<1>1. callers[p].phase = "fetch" /\ Typed /\ adapter' = adapter /\ committed' = committed /\ callers' = callers
  BY DEF Fetch, FetchFails, Consume, ConsumeUpTo, LastBatch, PoolInv
<1>2. /\ Works(p) /\ Pooled /\ callers[p].kind \in {"transaction", "chunks"} /\ s \in Sessions
      /\ sessions[s] \in SessionType /\ s = callers[p].session /\ sessions[s].holder = p
  BY <1>1, AtWorkOnCursor
<1>3. Moves(p, "fetch") /\ Telling /\ Swallowing(p) /\ callers'[p].writes = callers[p].writes
  BY <1>1 DEF Moves, Telling, Swallowing, IsTold, SameCaller, Typed
<1>4. sessions' = sessions \/ sessions' = Aborted(s)
  BY DEF Fetch, FetchFails, Consume, ConsumeUpTo, LastBatch
<1>5. sessions'[s].holder = p /\ \A t \in Sessions \ {s} : sessions'[t] = sessions[t]
  BY <1>1, <1>2, <1>4, SessionChanges
<1>6. sessions'[s].state = "aborted" \/ sessions' = sessions
  BY <1>1, <1>2, <1>4, SessionChanges
<1>7. InTransaction(p)' => InTransaction(p)
  BY <1>1 DEF InTransaction
<1> QED BY <1>1, <1>2, <1>3, <1>5, <1>6, <1>7, SameClient

LEMMA CloseAtomic ==
  ASSUME PoolInv, AtomicInv, NEW p \in Callers, Close(p) \/ CloseFails(p)
  PROVE  AtomicInv'
<1> DEFINE s == SessionOf(p)
<1>1. callers[p].phase = "fetch" /\ Typed /\ adapter' = adapter /\ committed' = committed
  BY DEF Close, CloseFails, PoolInv
<1>2. /\ Works(p) /\ Pooled /\ callers[p].kind \in {"transaction", "chunks"} /\ s \in Sessions
      /\ sessions[s] \in SessionType /\ s = callers[p].session /\ sessions[s].holder = p
  BY <1>1, AtWorkOnCursor
<1>3. PICK phase \in {"action", "resolved", "rejected"} :
        Goes(p, phase) /\ (phase = "action" <=> callers[p].kind = "transaction")
  BY <1>2 DEF Close, CloseFails, AfterQuery, AfterError, IsInTransaction
<1>4. Moves(p, phase) /\ Telling /\ Swallowing(p) /\ callers'[p].writes = callers[p].writes
  BY <1>1, <1>3, Moving, MovingTold DEF Phases
<1>5. InTransaction(p)' <=> callers[p].kind = "transaction"
  BY <1>3, <1>4 DEF InTransaction, Moves
<1>6. InTransaction(p) <=> callers[p].kind = "transaction"
  BY <1>1 DEF InTransaction
<1>7. phase # "resolved" \/ callers[p].kind = "chunks"
  BY <1>2, <1>3
<1>8. CASE Close(p) /\ IsInTransaction(p)
  <2> DEFINE closed == [sessions[s] EXCEPT !.cursor = FALSE]
  <2>1. closed.state = sessions[s].state /\ closed.holder = p /\ closed.pending = sessions[s].pending
    BY <1>2 DEF SessionType
  <2>2. sessions' = [sessions EXCEPT ![s] = closed]
    BY <1>1, <1>2, <1>8 DEF Close, CursorClosed, Typed
  <2> HIDE DEF closed
  <2>3. sessions'[s] = closed /\ \A t \in Sessions \ {s} : sessions'[t] = sessions[t]
    <3> HIDE DEF s
    <3> QED BY <1>1, <1>2, <2>2 DEF Typed
  <2> QED BY <1>1, <1>2, <1>3, <1>4, <1>5, <1>6, <1>7, <2>1, <2>3, SameClient
<1>9. CASE Close(p) /\ ~IsInTransaction(p)
  <2> DEFINE ended == [sessions[s] EXCEPT !.state = "idle", !.pending = {}, !.cursor = FALSE, !.holder = 0]
  <2>1. ended.state = "idle" /\ ended.holder = 0
    BY <1>2 DEF SessionType
  <2>2. sessions' = [sessions EXCEPT ![s] = ended]
    BY <1>1, <1>2, <1>9 DEF Close, EndOfBlock, Typed
  <2> HIDE DEF ended
  <2>3. sessions'[s] = ended /\ \A t \in Sessions \ {s} : sessions'[t] = sessions[t]
    <3> HIDE DEF s
    <3> QED BY <1>1, <1>2, <2>2 DEF Typed
  <2>4. ~InTransaction(p)'
    BY <1>5, <1>9 DEF IsInTransaction
  <2> QED BY <1>1, <1>2, <1>3, <1>4, <1>7, <2>1, <2>3, <2>4, SameClient
<1>10. CASE CloseFails(p) /\ IsInTransaction(p)
  <2>1. sessions' = Aborted(s)
    BY <1>10 DEF CloseFails
  <2>2. sessions'[s].state = "aborted" \/ sessions' = sessions
    BY <1>1, <1>2, <2>1, SessionChanges
  <2>3. sessions'[s].holder = p /\ \A t \in Sessions \ {s} : sessions'[t] = sessions[t]
    BY <1>1, <1>2, <2>1, SessionChanges
  <2> QED BY <1>1, <1>2, <1>3, <1>4, <1>5, <1>6, <1>7, <2>2, <2>3, SameClient
<1>11. CASE CloseFails(p) /\ ~IsInTransaction(p)
  <2>1. Destroyed(s)
    BY <1>11 DEF CloseFails
  <2>2. sessions'[s] = Idle /\ \A t \in Sessions \ {s} : sessions'[t] = sessions[t]
    BY <1>1, <1>2, <2>1, SessionChanges
  <2>3. ~InTransaction(p)'
    BY <1>5, <1>11 DEF IsInTransaction
  <2> QED BY <1>1, <1>2, <1>3, <1>4, <1>7, <2>2, <2>3, SameClient DEF Idle
<1> QED BY <1>8, <1>9, <1>10, <1>11

LEMMA RowsAtomic ==
  ASSUME PoolInv, AtomicInv, NEW p \in Callers, RowsAction(p)
  PROVE  AtomicInv'
<1>1. callers[p].kind = "rows" /\ Typed
  BY DEF RowsAction, Iterates, StartRows, StartRowsFails, SkipRow, StepFails, GiveRow, Complete, PoolInv
<1>2. ~Pooled /\ callers[p].phase \in {"rows", "resolved", "rejected"}
  BY <1>1 DEF PoolInv, CallsFit, PhaseFits, Typed, CallerType, Phases
<1>3. UNCHANGED <<adapter, sessions, committed>>
  BY DEF RowsAction, StartRows, StartRowsFails, SkipRow, StepFails, GiveRow, Complete
<1>4. callers' = callers \/ Goes(p, "rejected") \/ Goes(p, "resolved")
  BY DEF RowsAction, StartRows, StartRowsFails, SkipRow, StepFails, GiveRow, Complete
<1>5. PICK phase \in {"rows", "resolved", "rejected"} :
        Moves(p, phase) /\ Telling /\ Swallowing(p) /\ callers'[p].writes = callers[p].writes
  <2>1. CASE callers' = callers
    BY <1>1, <1>2, <2>1 DEF Moves, Telling, Swallowing, IsTold, SameCaller, Typed
  <2>2. CASE Goes(p, "rejected") \/ Goes(p, "resolved")
    BY <1>1, <1>2, <2>2, Moving, MovingTold DEF Phases
  <2> QED BY <1>4, <2>1, <2>2
<1>6. sessions[1].holder # p
  BY <1>1, <1>2 DEF AtomicInv, PendingOnConnection
<1> QED BY <1>1, <1>2, <1>3, <1>5, <1>6, SameConnection

-----------------------------------------------------------------------------
(* Transactions: calls, and what holds always *)

\* A caller that is called, or gets its client.
LEMMA NewOutcome ==
  ASSUME AtomicInv, committed' = committed, NEW p \in Callers,
         \A r \in Callers \ {p} : callers'[r] = callers[r],
         callers'[p].writes = {}, callers'[p].phase \notin {"new", "resolved"}, callers[p].phase # "resolved",
         IsTold(p)' => IsTold(p), ~callers'[p].swallowed
  PROVE  RowsApart' /\ FlagsFit' /\ CommittedWithOutcome'
<1>1. RowsApart' /\ FlagsFit'
  BY DEF AtomicInv, RowsApart, FlagsFit, IsTold
<1>2. CommittedWithOutcome'
  BY DEF AtomicInv, CommittedWithOutcome, IsTold
<1> QED BY <1>1, <1>2

LEMMA CallAtomic ==
  ASSUME PoolInv, AtomicInv, NEW p \in Callers,
         NEW kind \in {"transaction", "chunks", "rows", "statement"}, NEW o \in Options, Call(p, kind, o)
  PROVE  AtomicInv'
<1> DEFINE next == [NewCaller EXCEPT !.kind = kind, !.phase = FirstPhase(kind)]
<1>1. callers[p].phase = "new" /\ callers[p].kind = "none"
  BY DEF Call, PoolInv, CallsFit, PhaseFits
<1>2. next.phase = FirstPhase(kind) /\ next.kind = kind /\ next.writes = {} /\ ~next.swallowed
  BY DEF NewCaller
<1>3. FirstPhase(kind) \in {"waiting", "begin", "rows", "statement"}
  BY DEF FirstPhase
<1>4. callers' = [callers EXCEPT ![p] = next] /\ UNCHANGED <<adapter, sessions, committed>>
  BY DEF Call
<1> HIDE DEF next
<1>5. callers'[p] = next /\ \A r \in Callers \ {p} : callers'[r] = callers[r]
  BY <1>4 DEF PoolInv, Typed
<1>6. IsTold(p)
  BY <1>1 DEF AtomicInv, FlagsFit
<1>7. RowsApart' /\ FlagsFit' /\ CommittedWithOutcome'
  BY <1>1, <1>2, <1>3, <1>4, <1>5, <1>6, NewOutcome
<1>8. ~InTransaction(p)' /\ callers[p].writes = callers'[p].writes
  BY <1>1, <1>2, <1>3, <1>5 DEF InTransaction, AtomicInv, RowsApart
<1>9. PendingOnClients'
  BY <1>4, <1>5, <1>8 DEF AtomicInv, PendingOnClients, Pooled, InTransaction
<1>10. PendingOnConnection'
  <2>1. CASE ~Pooled
    <3>1. sessions[1].holder # p /\ callers'[p].phase \notin {"action", "commit"}
      BY <1>1, <1>2, <1>3, <1>5, <2>1 DEF AtomicInv, PendingOnConnection
    <3>2. sessions[1].pending \cap RowsOf(p) = {}
      BY <1>6, <2>1, <3>1 DEF AtomicInv, PendingOnConnection
    <3> QED BY <1>4, <1>5, <2>1, <3>1, <3>2 DEF AtomicInv, PendingOnConnection, IsTold
  <2>2. CASE Pooled
    BY <1>4, <2>2 DEF PendingOnConnection, Pooled
  <2> QED BY <2>1, <2>2
<1> QED BY <1>7, <1>9, <1>10 DEF AtomicInv

LEMMA GrantAtomic ==
  ASSUME PoolInv, AtomicInv, NEW s \in Sessions, Grant(s)
  PROVE  AtomicInv'
<1>1. PICK p \in Callers : p = Head(waiting) /\ callers[p].phase \in {"waiting", "nesting"} /\ Typed
  <2>1. waiting \in Seq(Callers) /\ waiting # <<>>
    BY DEF PoolInv, Typed, Grant
  <2>2. Head(waiting) \in Callers /\ Head(waiting) = waiting[1] /\ 1 \in DOMAIN waiting
    BY <2>1
  <2>3. Head(waiting) \in Range(waiting)
    BY <2>2 DEF Range
  <2> QED BY <2>2, <2>3 DEF PoolInv, CallsFit
<1>2. Pooled /\ adapter' = adapter /\ committed' = committed /\ sessions[s].holder = 0
  BY DEF Grant
<1>3. CASE callers[p].phase = "nesting"
  <2>1. Goes(p, "action") /\ sessions' = sessions
    BY <1>1, <1>3 DEF Grant, GivesBack
  <2>2. Moves(p, "action") /\ Telling /\ Swallowing(p) /\ callers'[p].writes = callers[p].writes
    BY <1>1, <1>3, <2>1, Moving, MovingTold DEF Phases
  <2>3. Works(p) /\ InTransaction(p)
    BY <1>3 DEF Works, AtWork, InTransaction
  <2>4. sessions[SessionOf(p)].holder = p
    BY <1>1, <1>2, <2>3, OwnSession
  <2> QED BY <1>1, <1>2, <2>1, <2>2, <2>3, <2>4, SameClient
<1>4. CASE callers[p].phase # "nesting"
  <2> DEFINE next == [callers[p] EXCEPT !.phase = PhaseWithClient(p), !.session = s]
             held == [sessions[s] EXCEPT !.holder = p]
  <2>1. callers[p] \in CallerType /\ sessions[s] \in SessionType /\ callers[p].phase = "waiting"
    BY <1>1, <1>4 DEF Typed
  <2>2. next.phase = PhaseWithClient(p) /\ next.kind = callers[p].kind /\ next.writes = callers[p].writes
        /\ next.swallowed = callers[p].swallowed /\ next.unknown = callers[p].unknown
        /\ next.overlapped = callers[p].overlapped /\ next.session = s
    BY <2>1 DEF CallerType
  <2>3. PhaseWithClient(p) \in {"begin", "declare", "statement"}
        /\ (PhaseWithClient(p) = "declare" => callers[p].kind # "transaction")
    BY DEF PhaseWithClient
  <2>4. callers' = [callers EXCEPT ![p] = next]
    BY <1>1, <1>4, <2>1 DEF Grant, Typed, CallerType
  <2>5. held.state = sessions[s].state
    BY <2>1 DEF SessionType
  <2>6. sessions' = [sessions EXCEPT ![s] = held]
    BY <1>1, <1>4, <2>1 DEF Grant, Typed, SessionType
  <2> HIDE DEF next, held
  <2>7. callers'[p] = next /\ \A r \in Callers \ {p} : callers'[r] = callers[r]
    BY <1>1, <2>4 DEF Typed
  <2>8. sessions'[s] = held /\ \A t \in Sessions \ {s} : sessions'[t] = sessions[t]
    BY <1>1, <2>6 DEF Typed
  <2>9. sessions'[s].state = "idle"
    BY <1>2, <2>5, <2>8 DEF PoolInv, ClientsHeld, IsClean
  <2>10. callers'[p].writes = {} /\ ~callers'[p].swallowed /\ (IsTold(p)' => IsTold(p))
    <3>1. callers[p].writes = {}
      BY <1>1, <2>1 DEF AtomicInv, RowsApart
    <3>2. ~callers[p].swallowed
      BY <1>1, <2>1 DEF AtomicInv, FlagsFit
    <3>3. IsTold(p)' => IsTold(p)
      BY <2>2, <2>7 DEF IsTold
    <3> QED BY <2>2, <2>7, <3>1, <3>2, <3>3
  <2>11. RowsApart' /\ FlagsFit' /\ CommittedWithOutcome'
    <3>1. callers'[p].phase \notin {"new", "resolved"} /\ callers[p].phase # "resolved"
      BY <2>1, <2>2, <2>3, <2>7
    <3> QED BY <1>1, <1>2, <2>7, <2>10, <3>1, NewOutcome
  <2>12. ASSUME NEW t \in Sessions, NEW r \in Callers, sessions'[t].holder = r, sessions'[t].state = "tx"
         PROVE  sessions'[t].pending = callers'[r].writes
    <3>1. t # s /\ sessions'[t] = sessions[t]
      BY <2>8, <2>9, <2>12
    <3>2. Works(r) \/ HasEnded(r)
      BY <1>2, <2>12, <3>1 DEF PoolInv, ClientsHeld
    <3>3. r # p
      BY <2>1, <3>2 DEF Works, AtWork, HasEnded
    <3> QED BY <1>2, <2>7, <2>12, <3>1, <3>3 DEF AtomicInv, PendingOnClients
  <2>13. ASSUME NEW r \in Callers, InTransaction(r)' PROVE sessions'[callers'[r].session].state # "idle"
    <3>1. r # p
      BY <2>2, <2>3, <2>7, <2>13 DEF InTransaction
    <3>2. callers'[r] = callers[r] /\ InTransaction(r)
      BY <2>7, <2>13, <3>1 DEF InTransaction
    <3>3. Works(r)
      BY <3>2 DEF InTransaction, Works, AtWork
    <3>4. callers[r].session \in Sessions /\ sessions[callers[r].session].holder = r /\ r # 0
      BY <1>2, <3>3, CallersAssumption DEF PoolInv, ClientsHeld
    <3>5. callers[r].session # s
      BY <1>2, <3>4
    <3> QED BY <1>2, <2>8, <3>2, <3>4, <3>5 DEF AtomicInv, PendingOnClients
  <2>14. PendingOnClients' /\ PendingOnConnection'
    BY <1>2, <2>12, <2>13 DEF PendingOnClients, PendingOnConnection, Pooled
  <2> QED BY <2>11, <2>14 DEF AtomicInv
<1> QED BY <1>3, <1>4

LEMMA AtomicInit == Init => AtomicInv
<1> SUFFICES ASSUME Init PROVE AtomicInv
  OBVIOUS
<1>1. \A p \in Callers : /\ callers[p].kind = "none" /\ callers[p].phase = "new" /\ callers[p].writes = {}
                         /\ ~callers[p].swallowed /\ IsTold(p) /\ ~InTransaction(p)
  BY DEF Init, NewCaller, IsTold, InTransaction
<1>2. \A s \in Sessions : sessions[s].state = "idle" /\ sessions[s].pending = {} /\ sessions[s].holder = 0
  BY DEF Init, Idle
<1>3. 1 \in Sessions /\ \A p \in Callers : p # 0
  BY PoolAssumption, CallersAssumption DEF Sessions
<1>4. RowsApart /\ FlagsFit
  BY <1>1 DEF RowsApart, FlagsFit
<1>5. CommittedWithOutcome
  <2>1. PICK n \in InitialRows : committed = 1..n
    BY DEF Init
  <2>2. ASSUME NEW p \in Callers PROVE committed \cap RowsOf(p) = {}
    <3>1. n \in Nat /\ n < RowsPerCaller /\ RowsPerCaller \in Nat /\ p \in Nat /\ p >= 1
      BY RowsAssumption, BoundsAssumption, CallersAssumption
    <3>2. RowsPerCaller * p >= RowsPerCaller
      <4>1. PICK d \in Nat : p = d + 1
        <5>1. p - 1 \in Nat /\ p = (p - 1) + 1
          BY <3>1
        <5> QED BY <5>1
      <4>2. RowsPerCaller * p = RowsPerCaller * d + RowsPerCaller /\ RowsPerCaller * d \in Nat
        BY <3>1, <4>1
      <4> QED BY <3>1, <4>2
    <3>3. ASSUME NEW i \in 0..(RowsPerCaller - 1) PROVE RowsPerCaller * p + i \notin 1..n
      <4> DEFINE m == RowsPerCaller * p
      <4>1. m \in Nat /\ m >= RowsPerCaller
        BY <3>1, <3>2
      <4> HIDE DEF m
      <4>2. m + i \notin 1..n
        BY <3>1, <3>3, <4>1
      <4> QED BY <4>2 DEF m
    <3> QED BY <2>1, <3>3 DEF RowsOf
  <2> QED BY <1>1, <2>2 DEF CommittedWithOutcome
<1>6. PendingOnClients
  BY <1>1, <1>2, <1>3 DEF PendingOnClients
<1>7. PendingOnConnection
  <2>1. \A p \in Callers : sessions[1].holder # p /\ callers[p].phase \notin {"action", "commit"}
                           /\ sessions[1].pending \cap RowsOf(p) = {}
    BY <1>1, <1>2, <1>3
  <2> QED BY <1>2, <1>3, <2>1 DEF PendingOnConnection
<1> QED BY <1>4, <1>5, <1>6, <1>7 DEF AtomicInv

LEMMA AtomicNext == PoolInv /\ AtomicInv /\ [Next]_vars => AtomicInv'
<1> SUFFICES ASSUME PoolInv, AtomicInv, [Next]_vars PROVE AtomicInv'
  OBVIOUS
<1>1. ASSUME NEW p \in Callers, NEW kind \in {"transaction", "chunks", "rows", "statement"}, NEW o \in Options,
             Call(p, kind, o)
      PROVE  AtomicInv'
  BY <1>1, CallAtomic
<1>2. ASSUME NEW s \in Sessions, Grant(s) PROVE AtomicInv'
  BY <1>2, GrantAtomic
<1>3. ASSUME NEW p \in Callers, Continue(p) PROVE AtomicInv'
  <2>1. CASE Query(p)
    BY <2>1, QueryAtomic
  <2>2. CASE BeginTransaction(p) \/ BeginFails(p)
    BY <2>2, BeginAtomic
  <2>3. CASE ActionWrites(p)
    BY <2>3, ActionWritesAtomic
  <2>4. CASE \/ ActionWriteFails(p) \/ ActionNests(p)
             \/ \E isFulfilled \in BOOLEAN : ActionEnds(p, isFulfilled)
             \/ \E o \in Options : ActionFetches(p, o)
    BY <2>4, ActionAtomic
  <2>5. CASE CommitTransaction(p)
    BY <2>5, CommitAtomic
  <2>6. CASE CommitFails(p)
    BY <2>6, CommitFailsAtomic
  <2>7. CASE RollbackTransaction(p) \/ RollbackFails(p)
    BY <2>7, RollbackAtomic
  <2>8. CASE Declare(p) \/ DeclareFails(p)
    BY <2>8, DeclareAtomic
  <2>9. CASE \/ Fetch(p) \/ FetchFails(p) \/ Consume(p)
             \/ \E n \in 1..FetchSize, throws \in BOOLEAN : ConsumeUpTo(p, n, throws)
             \/ \E dontBreak \in BOOLEAN : LastBatch(p, dontBreak)
    BY <2>9, FetchAtomic
  <2>10. CASE Close(p) \/ CloseFails(p)
    BY <2>10, CloseAtomic
  <2>11. CASE RowsAction(p)
    BY <2>11, RowsAtomic
  <2> QED BY <1>3, <2>1, <2>2, <2>3, <2>4, <2>5, <2>6, <2>7, <2>8, <2>9, <2>10, <2>11 DEF Continue, RowsAction
<1>4. CASE UNCHANGED vars
  <2>1. RowsApart' /\ FlagsFit' /\ CommittedWithOutcome'
    BY <1>4 DEF AtomicInv, RowsApart, FlagsFit, CommittedWithOutcome, IsTold, vars
  <2>2. PendingOnClients'
    BY <1>4 DEF AtomicInv, PendingOnClients, InTransaction, Pooled, vars
  <2>3. PendingOnConnection'
    BY <1>4 DEF AtomicInv, PendingOnConnection, IsTold, Pooled, vars
  <2> QED BY <2>1, <2>2, <2>3 DEF AtomicInv
<1> QED BY <1>1, <1>2, <1>3, <1>4 DEF Next, Progress

LEMMA OutcomeIsTold ==
  ASSUME RowsApart, CommittedWithOutcome, NEW p \in Callers, IsTold(p)
  PROVE  TellsOutcome(p)
<1>1. CASE callers[p].phase = "resolved"
  <2>1. callers[p].writes \subseteq committed
    BY <1>1 DEF CommittedWithOutcome
  <2> QED BY <1>1, <2>1 DEF TellsOutcome
<1>2. CASE callers[p].phase # "resolved"
  <2>1. committed \cap RowsOf(p) = {} /\ callers[p].writes \subseteq RowsOf(p)
    BY <1>2 DEF CommittedWithOutcome, RowsApart
  <2> QED BY <1>2, <2>1 DEF TellsOutcome
<1> QED BY <1>1, <1>2

\* A transaction is committed as a whole when its promise is fulfilled, and not at all when
\* it is rejected; unless its action has hidden a failing statement, its commit has failed,
\* or on SQLite, where all calls share one connection, another call has overlapped with it
\* (postgres-adapter.ts, sqlite-node-adapter.ts: transaction).
THEOREM TransactionsAreAtomic == Spec => []Atomic
<1>1. Init => PoolInv /\ AtomicInv
  BY PoolInit, AtomicInit
<1>2. PoolInv /\ AtomicInv /\ [Next]_vars => PoolInv' /\ AtomicInv'
  BY PoolNext, AtomicNext
<1>3. PoolInv /\ AtomicInv => Atomic
  BY OutcomeIsTold DEF Atomic, AtomicInv, IsTold
<1> QED BY <1>1, <1>2, <1>3, PTL DEF Spec

\* With the clients of a pool, calls do not overlap.
NoOverlap == Pooled /\ \A p \in Callers : ~callers[p].overlapped

LEMMA NoOverlapMarked ==
  ASSUME Typed, NoOverlap, NEW p \in Callers, NEW next \in CallerType, MarkOverlap(p, next), ~next.overlapped
  PROVE  \A r \in Callers : ~callers'[r].overlapped
<1>1. ~Overlaps(p)
  BY DEF NoOverlap, Overlaps
<1>2. callers'[p] = [next EXCEPT !.overlapped = Overlaps(p) \/ next.overlapped]
  BY DEF MarkOverlap
<1>3. callers'[p].overlapped = (Overlaps(p) \/ next.overlapped)
  BY <1>2 DEF CallerType
<1>4. \A r \in Callers \ {p} : callers'[r] = callers[r]
  BY <1>1 DEF MarkOverlap
<1> QED BY <1>1, <1>3, <1>4 DEF NoOverlap

LEMMA NoOverlapNext == Typed /\ NoOverlap /\ [Next]_vars => NoOverlap'
<1> SUFFICES ASSUME Typed, NoOverlap, [Next]_vars PROVE NoOverlap'
  OBVIOUS
<1>0. \A r \in Callers : callers[r] \in CallerType /\ ~callers[r].overlapped
  BY DEF NoOverlap, Typed
<1>1. ASSUME NEW p \in Callers, NEW kind \in {"transaction", "chunks", "rows", "statement"}, NEW o \in Options,
             Call(p, kind, o)
      PROVE  NoOverlap'
  BY <1>0, <1>1 DEF Call, NewCaller, NoOverlap, Pooled, Typed
<1>2. ASSUME NEW s \in Sessions, Grant(s) PROVE NoOverlap'
  <2>1. PICK p \in Callers : p = Head(waiting)
    BY <1>2 DEF Grant, Typed
  <2>2. adapter' = adapter
    BY <1>2 DEF Grant
  <2>3. CASE Goes(p, "action")
    <3>1. ~[callers[p] EXCEPT !.phase = "action"].overlapped
          /\ callers' = [callers EXCEPT ![p] = [callers[p] EXCEPT !.phase = "action"]]
      BY <1>0, <2>3 DEF Goes, Typed, CallerType
    <3>2. \A r \in Callers : ~callers'[r].overlapped
      BY <1>0, <3>1 DEF Typed
    <3> QED BY <2>2, <3>2 DEF NoOverlap, Pooled
  <2>4. CASE callers' = [callers EXCEPT ![p].phase = PhaseWithClient(p), ![p].session = s]
    <3> DEFINE next == [callers[p] EXCEPT !.phase = PhaseWithClient(p), !.session = s]
    <3>1. ~next.overlapped /\ callers' = [callers EXCEPT ![p] = next]
      BY <1>0, <2>4 DEF Typed, CallerType
    <3> HIDE DEF next
    <3>2. \A r \in Callers : ~callers'[r].overlapped
      BY <1>0, <3>1 DEF Typed
    <3> QED BY <2>2, <3>2 DEF NoOverlap, Pooled
  <2> QED BY <1>2, <2>1, <2>3, <2>4 DEF Grant
<1>3. ASSUME NEW p \in Callers, Continue(p) PROVE NoOverlap'
  <2>1. CASE Query(p) \/ BeginTransaction(p) \/ BeginFails(p) \/ CommitTransaction(p) \/ RollbackTransaction(p)
    <3>1. PICK next \in CallerType : ~next.overlapped /\ (MarkOverlap(p, next) \/ callers' = [callers EXCEPT ![p] = next])
      <4>1. ASSUME NEW phase \in Phases, NEW writes \in SUBSET Nat, NEW swallowed \in BOOLEAN
            PROVE  /\ [callers[p] EXCEPT !.phase = phase] \in CallerType
                   /\ [callers[p] EXCEPT !.phase = phase, !.writes = writes] \in CallerType
                   /\ [callers[p] EXCEPT !.phase = phase, !.swallowed = swallowed] \in CallerType
                   /\ ~[callers[p] EXCEPT !.phase = phase].overlapped
                   /\ ~[callers[p] EXCEPT !.phase = phase, !.writes = writes].overlapped
                   /\ ~[callers[p] EXCEPT !.phase = phase, !.swallowed = swallowed].overlapped
        BY <1>0 DEF CallerType
      <4>2. CASE Query(p)
        <5>1. {RowOf(p)} \in SUBSET Nat /\ "resolved" \in Phases
          BY RowNumber DEF Phases
        <5> QED BY <4>1, <4>2, <5>1 DEF Query
      <4>3. CASE BeginTransaction(p) \/ BeginFails(p)
        <5>1. {"action", "rollback", "rejected"} \subseteq Phases
          BY DEF Phases
        <5>2. PICK phase \in Phases : Goes(p, phase) \/ MarkOverlap(p, [callers[p] EXCEPT !.phase = phase])
          BY <4>3, <5>1 DEF BeginTransaction, BeginFails
        <5>3. Goes(p, phase) => callers' = [callers EXCEPT ![p] = [callers[p] EXCEPT !.phase = phase]]
          BY <1>0 DEF Goes, Typed
        <5> QED BY <4>1, <5>2, <5>3
      <4>4. CASE CommitTransaction(p)
        <5> DEFINE phase == IF sessions[SessionOf(p)].state = "idle" THEN "rejected" ELSE "resolved"
                   swallowed == sessions[SessionOf(p)].state = "aborted"
        <5>1. phase \in Phases /\ swallowed \in BOOLEAN
          BY DEF Phases
        <5>2. MarkOverlap(p, [callers[p] EXCEPT !.phase = phase, !.swallowed = swallowed])
          BY <4>4 DEF CommitTransaction
        <5> HIDE DEF phase, swallowed
        <5> QED BY <4>1, <5>1, <5>2
      <4>5. CASE RollbackTransaction(p)
        <5>1. "rejected" \in Phases
          BY DEF Phases
        <5> QED BY <4>1, <4>5, <5>1 DEF RollbackTransaction
      <4> QED BY <2>1, <4>2, <4>3, <4>4, <4>5
    <3>2. \A r \in Callers : ~callers'[r].overlapped
      BY <1>0, <3>1, NoOverlapMarked DEF Typed
    <3>3. adapter' = adapter
      BY <2>1 DEF Query, BeginTransaction, BeginFails, CommitTransaction, RollbackTransaction
    <3> QED BY <3>2, <3>3 DEF NoOverlap, Pooled
  <2>2. CASE \/ ActionWrites(p) \/ ActionWriteFails(p) \/ ActionNests(p) \/ CommitFails(p) \/ RollbackFails(p)
             \/ \E isFulfilled \in BOOLEAN : ActionEnds(p, isFulfilled)
             \/ \E o \in Options : ActionFetches(p, o)
    BY <1>0, <2>2 DEF ActionWrites, ActionWriteFails, ActionNests, CommitFails, RollbackFails, ActionEnds,
                      ActionFetches, Goes, NoOverlap, Pooled, Typed, CallerType
  <2>3. CASE \/ Declare(p) \/ DeclareFails(p) \/ Fetch(p) \/ FetchFails(p) \/ Consume(p)
             \/ \E n \in 1..FetchSize, throws \in BOOLEAN : ConsumeUpTo(p, n, throws)
             \/ \E dontBreak \in BOOLEAN : LastBatch(p, dontBreak)
             \/ Close(p) \/ CloseFails(p)
    <3>1. adapter' = adapter /\ (callers' = callers \/ \E phase : Goes(p, phase))
      BY <2>3 DEF Declare, DeclareFails, Fetch, FetchFails, Consume, ConsumeUpTo, LastBatch, Close, CloseFails
    <3> QED BY <1>0, <3>1 DEF Goes, NoOverlap, Pooled, Typed, CallerType
  <2>4. CASE RowsAction(p)
    <3>1. adapter' = adapter /\ (callers' = callers \/ \E phase : Goes(p, phase))
      BY <2>4 DEF RowsAction, StartRows, StartRowsFails, SkipRow, StepFails, GiveRow, Complete
    <3> QED BY <1>0, <3>1 DEF Goes, NoOverlap, Pooled, Typed, CallerType
  <2> QED BY <1>3, <2>1, <2>2, <2>3, <2>4 DEF Continue, RowsAction
<1>4. CASE UNCHANGED vars
  BY <1>4 DEF NoOverlap, Pooled, vars
<1> QED BY <1>1, <1>2, <1>3, <1>4 DEF Next, Progress

\* The PostgreSQL adapter keeps what the SQLite adapter does not: independent transactions
\* may be invoked in parallel (postgres-adapter.ts: transaction; developer-guide.md:2693).
THEOREM PostgresRunsInParallel ==
  ASSUME Adapters = {"postgres"}
  PROVE  Spec => []ParallelAtomic
<1>1. Init => PoolInv /\ AtomicInv /\ NoOverlap
  <2> SUFFICES ASSUME Init PROVE NoOverlap
    BY PoolInit, AtomicInit
  <2> QED BY DEF Init, NoOverlap, Pooled, NewCaller
<1>2. PoolInv /\ AtomicInv /\ NoOverlap /\ [Next]_vars => PoolInv' /\ AtomicInv' /\ NoOverlap'
  BY PoolNext, AtomicNext, NoOverlapNext DEF PoolInv
<1>3. PoolInv /\ AtomicInv /\ NoOverlap => ParallelAtomic
  BY OutcomeIsTold DEF ParallelAtomic, AtomicInv, NoOverlap, IsTold
<1> QED BY <1>1, <1>2, <1>3, PTL DEF Spec
=============================================================================

--------------------------- MODULE ManagerLifecycle ---------------------------
(***************************************************************************)
(* Starting, restarting, stopping and disposing the communication manager  *)
(* of an agent (com/communication-manager.ts, runtime/container.ts).       *)
(*                                                                         *)
(* A binding is used only once: unjoining it puts a new one in place at    *)
(* once, while the old one goes on unjoining in the background.  Bindings  *)
(* are numbered in the order of their creation; each one behaves like a    *)
(* BindingLifecycle.  start(options) joins whatever binding is in place    *)
(* when the promise of the one it has unjoined is resolved.                *)
(***************************************************************************)
EXTENDS Naturals, FiniteSets

CONSTANTS
    MaxBindings,    \* bound on the number of bindings created
    MaxDowns,       \* bound on the number of connections lost
    Patient         \* callers wait for the promises of earlier calls

ASSUME ParametersAssumption ==
    /\ MaxBindings \in Nat \ {0}
    /\ MaxDowns \in Nat
    /\ Patient \in BOOLEAN

VARIABLES
    binding,            \* state, link and unjoin promise of each binding
    current,            \* _binding
    operatingState,     \* _operatingStateSubject
    communicationState, \* _communicationStateSubject
    observers,          \* subscribers of _observeAssociate() and of the two
                        \* Discover observers in the current _observedRequests
    calls,              \* start(options) and stop() calls not yet resolved
    disposed,           \* _isDisposed
    downs,              \* history: connections lost
    errors              \* history: bindings whose client has reported an error
                        \* since it was connected

vars == <<binding, current, operatingState, communicationState, observers,
          calls, disposed, downs, errors>>

Bindings == 1 .. MaxBindings

BindingStates ==
    [state : {"Initialized", "Joined", "Unjoined"}, link : {"none", "down", "up"},
     promise : {"none", "pending", "resolved"}]

TypeOK ==
    /\ binding \in [Bindings -> BindingStates]
    /\ current \in Bindings
    /\ operatingState \in {"Started", "Stopped"}
    /\ communicationState \in {"Online", "Offline"}
    /\ observers \in Nat
    /\ calls \subseteq [op : {"start", "stop"}, on : Bindings]
    /\ disposed \in BOOLEAN
    /\ downs \in 0 .. MaxDowns
    /\ errors \subseteq Bindings

Init ==
    /\ binding = [g \in Bindings |->
                    [state |-> "Initialized", link |-> "none", promise |-> "none"]]
    /\ current = 1
    /\ operatingState = "Stopped"
    /\ communicationState = "Offline"
    /\ observers = 0
    /\ calls = {}
    /\ disposed = FALSE
    /\ downs = 0
    /\ errors = {}

------------------------------------------------------------------------------

\* CommunicationBinding.join()
Joined(b) ==
    IF b.state = "Initialized" THEN [b EXCEPT !.state = "Joined", !.link = "down"]
                               ELSE b

\* Fault: the promise is not returned.
UnjoinedUndefined(b) == [b EXCEPT !.state = "Unjoined", !.promise = "undefined"]

\* Fault: a binding that has never been joined resolves no promise.
UnjoinedIfJoined(b) ==
    [b EXCEPT !.state = "Unjoined",
              !.promise = IF b.state = "Joined" THEN "pending" ELSE b.promise]

\* Fault: the promise does not wait for the client to end.
UnjoinedAtOnce(b) == [b EXCEPT !.state = "Unjoined", !.promise = "resolved"]

\* CommunicationBinding.unjoin()
Unjoined(b) ==
    [b EXCEPT !.state = "Unjoined",
              !.promise = IF b.state = "Joined" THEN "pending"
                          ELSE IF b.state = "Initialized" THEN "resolved"
                          ELSE b.promise]

\* _joinBinding(): joins the binding in place and observes Associate and
\* Discover events, whether or not the binding let itself be joined.
JoinBinding ==
    /\ binding' = [binding EXCEPT ![current] = Joined(@)]
    /\ observers' = observers + 1
    /\ operatingState' = "Started"
    /\ UNCHANGED <<current, communicationState, disposed, downs, errors>>

\* Fault: the observers of the former binding are not completed.
KeepObservers == observers' = observers

\* _unobserveObservedItems(): all observers are completed and forgotten.
UnobserveObservedItems == observers' = 0

\* _unjoinBinding(): a new binding replaces the current one, except in a
\* disposed manager, before the current one is unjoined.  A binding that has
\* never been joined is reset, which reports it Offline.
UnjoinBinding ==
    /\ operatingState' = "Stopped"
    /\ UnobserveObservedItems
    /\ binding' = [binding EXCEPT ![current] = Unjoined(@)]
    /\ communicationState' = IF binding[current].state = "Initialized" THEN "Offline"
                             ELSE communicationState
    /\ current' = IF disposed' THEN current ELSE current + 1
    /\ UNCHANGED <<downs, errors>>

MayCall == ~disposed /\ (Patient => calls = {})

\* start() without options joins a binding that has not been joined yet.
Start ==
    /\ MayCall
    /\ binding[current].state = "Initialized"
    /\ JoinBinding
    /\ UNCHANGED calls

\* start(options) and stop() both unjoin the current binding.
Unjoining(op) ==
    /\ MayCall
    /\ current < MaxBindings
    /\ calls' = calls \cup {[op |-> op, on |-> current]}
    /\ UNCHANGED disposed
    /\ UnjoinBinding

StartWithOptions == Unjoining("start")

Stop == Unjoining("stop")

\* The promise of a stop() call is resolved.
StopResolved ==
    \E c \in calls :
        /\ c.op = "stop"
        /\ binding[c.on].promise = "resolved"
        /\ calls' = calls \ {c}
        /\ UNCHANGED <<binding, current, operatingState, communicationState,
                       observers, disposed, downs, errors>>

\* Fault: the continuation of start(options) joins a disposed manager.
StartResolvedAnyway ==
    \E c \in calls :
        /\ c.op = "start"
        /\ binding[c.on].promise = "resolved"
        /\ calls' = calls \ {c}
        /\ JoinBinding

\* The continuation of start(options).  In a disposed manager it fails, for
\* the container has no identity to advertise any more.
StartResolved ==
    \E c \in calls :
        /\ c.op = "start"
        /\ binding[c.on].promise = "resolved"
        /\ calls' = calls \ {c}
        /\ \/ /\ ~disposed
              /\ JoinBinding
           \/ /\ disposed
              /\ UNCHANGED <<binding, current, operatingState,
                             communicationState, observers, disposed, downs, errors>>

\* onDispose(), called by Container.shutdown() at any time.
Dispose ==
    /\ ~disposed
    /\ disposed' = TRUE
    /\ UnjoinBinding
    /\ UNCHANGED calls

------------------------------------------------------------------------------
(* Bindings; each reports its communication state to the manager.          *)

GoUp(g) ==
    /\ binding[g].link = "down"
    /\ binding' = [binding EXCEPT ![g].link = "up"]
    /\ communicationState' = "Online"
    /\ errors' = errors \ {g}
    /\ UNCHANGED <<current, operatingState, observers, calls, disposed, downs>>

GoDown(g) ==
    /\ binding[g].link = "up"
    /\ downs < MaxDowns
    /\ downs' = downs + 1
    /\ binding' = [binding EXCEPT ![g].link = "down"]
    /\ communicationState' = "Offline"
    /\ UNCHANGED <<current, operatingState, observers, calls, disposed, errors>>

\* "error": a refused connection, or a packet that cannot be parsed.  Either is
\* reported as Offline, but the second one leaves the session open.
ClientError(g) ==
    /\ binding[g].link # "none"
    /\ communicationState' = "Offline"
    /\ errors' = errors \cup {g}
    /\ UNCHANGED <<binding, current, operatingState, observers, calls, disposed, downs>>

UnjoinCompletes(g) ==
    /\ binding[g].promise = "pending"
    /\ binding' = [binding EXCEPT ![g].promise = "resolved", ![g].link = "none"]
    /\ communicationState' = "Offline"
    /\ UNCHANGED <<current, operatingState, observers, calls, disposed, downs, errors>>

Next ==
    \/ Start
    \/ StartWithOptions
    \/ Stop
    \/ StopResolved
    \/ StartResolved
    \/ Dispose
    \/ \E g \in Bindings : GoUp(g) \/ GoDown(g) \/ ClientError(g) \/ UnjoinCompletes(g)

Spec == Init /\ [][Next]_vars

\* Promise continuations are run, and a binding that unjoins gets done with
\* it as long as the broker is reachable.
Fairness ==
    /\ WF_vars(StopResolved)
    /\ WF_vars(StartResolved)
    /\ \A g \in Bindings : WF_vars(UnjoinCompletes(g))

FairSpec == Spec /\ Fairness

------------------------------------------------------------------------------
(* Properties                                                              *)

Live(g) == binding[g].link # "none"

\* No two bindings of an agent have an MQTT client at the same time: all of
\* them use the same client id, so the broker would break the older session
\* and publish its last will, a Deadvertise event, after the newer one has
\* advertised the agent's identity.
OneBindingLive ==
    \A g, h \in Bindings : Live(g) /\ Live(h) => g = h

\* The operating state is Started exactly if the binding in place is joined.
OperatingStateCurrent ==
    operatingState = "Started" <=> binding[current].state = "Joined"

\* While started, the manager handles each Associate event once and answers
\* each Discover event for its identity once; while stopped it does not.
ObserversOnce ==
    observers = IF operatingState = "Started" THEN 1 ELSE 0

\* Until the manager is disposed, the communication state reported to the
\* application is the one of the binding that has a client, even while a
\* former binding is unjoining and a new one is in place: it is Online as long
\* as there is a session, unless the client has reported an error since it was
\* connected ("error", mqtt-binding.ts:446), which is reported as Offline until
\* the next connection although the session may be open.
CommunicationStateCurrent ==
    ~disposed =>
        (communicationState = "Online" <=>
            \E g \in Bindings \ errors : binding[g].link = "up")

\* The promise of stop() is resolved only when the manager has unjoined: no
\* binding that existed when stop() was called has a client any more.
StopResolvedUnjoined ==
    [][\A c \in calls \ calls' :
          c.op = "stop" => \A g \in 1 .. c.on : binding[g].link = "none"]_vars

\* A restart gets through, unless the manager is disposed meanwhile.
RestartCompletes ==
    (\E c \in calls : c.op = "start") ~> operatingState = "Started" \/ disposed
==============================================================================

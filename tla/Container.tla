------------------------------ MODULE Container ------------------------------
(***************************************************************************)
(* The container of an agent (runtime/container.ts): it creates and        *)
(* initialises controllers, tells them when the communication manager is   *)
(* starting and stopping, and disposes them.  The operating state of the   *)
(* manager is the one of ManagerLifecycle.                                 *)
(*                                                                         *)
(* Controllers are numbered in the order of their creation.  _controllers, *)
(* a map from names to controllers, is a sequence of entries in the order  *)
(* of their insertion: Map.forEach visits an entry added meanwhile, and an *)
(* entry set again keeps its place.  Controllers may register further      *)
(* controllers within each of their callbacks.                             *)
(***************************************************************************)
EXTENDS ManagerLifecycle, Sequences

CONSTANTS
    Names,          \* names of controllers
    Components,     \* the names of the controllers in Components, in order:
                    \* the keys of an object
    MaxControllers  \* bound on the number of controllers created

ASSUME ContainerAssumption ==
    /\ Components \in Seq(Names)
    /\ \A i, j \in 1 .. Len(Components) : Components[i] = Components[j] => i = j
    /\ MaxControllers \in Nat
    /\ Len(Components) <= MaxControllers

VARIABLES
    entries,    \* _controllers
    created,    \* the number of controllers created
    told,       \* what each controller has been told last
    dispatch,   \* the callbacks being made, and the entry that is called
    listening,  \* _operatingStateSubscription
    shutdown,   \* _isShutdown
    nested,     \* history: controllers registered within callbacks
    replaced,   \* history: controllers whose name has been registered again
    odd         \* history: controllers told the same twice, or to stop
                \* without having been told to start

containerVars ==
    <<entries, created, told, dispatch, listening, shutdown, nested, replaced, odd>>

Controllers == 1 .. MaxControllers

Callbacks == {"init", "Started", "Stopped", "dispose"}

NoDispatch == [what |-> "nothing", at |-> 0]

ContainerTypeOK ==
    /\ entries \in Seq([name : Names, ctrl : Controllers])
    /\ created \in 0 .. MaxControllers
    /\ told \in [Controllers -> Callbacks \cup {"nothing"}]
    /\ dispatch \in [what : Callbacks \cup {"nothing"}, at : Nat]
    /\ listening \in BOOLEAN
    /\ shutdown \in BOOLEAN
    /\ nested \subseteq Controllers
    /\ replaced \subseteq Controllers
    /\ odd \subseteq Controllers

\* _resolveComponents has created the manager and all controllers in
\* Components, and is about to initialise them.
ContainerInit ==
    /\ entries = [i \in 1 .. Len(Components) |-> [name |-> Components[i], ctrl |-> i]]
    /\ created = Len(Components)
    /\ told = [c \in Controllers |-> "nothing"]
    /\ dispatch = [what |-> "init", at |-> 1]
    /\ listening = FALSE
    /\ shutdown = FALSE
    /\ nested = {}
    /\ replaced = {}
    /\ odd = {}

------------------------------------------------------------------------------

\* A callback that does not continue what the controller has been told.
IsOdd(c, what) ==
    \/ told[c] = what
    \/ what = "Stopped" /\ told[c] # "Started"
    \/ what = "init" /\ told[c] # "nothing"
    \/ what # "init" /\ told[c] = "nothing"
    \/ what = "dispose" /\ told[c] = "Started"

\* onInit(), onCommunicationManagerStarting(), ...Stopping(), onDispose()
Tell(c, what) ==
    /\ told' = [told EXCEPT ![c] = what]
    /\ odd' = IF IsOdd(c, what) THEN odd \cup {c} ELSE odd

\* The next entry is called, by forEach.
CallController ==
    /\ dispatch.what # "nothing"
    /\ dispatch.at <= Len(entries)
    /\ Tell(entries[dispatch.at].ctrl, dispatch.what)
    /\ dispatch' = [dispatch EXCEPT !.at = @ + 1]
    /\ UNCHANGED <<entries, created, listening, shutdown, nested, replaced, vars>>

\* Fault: the state is dispatched whatever it is.
SubscribedAnyway(state) == [what |-> state, at |-> 1]

\* The operating state is observed when all controllers are initialised; an
\* initial Stopped is not dispatched.
Subscribed(state) ==
    IF state = "Started" THEN [what |-> "Started", at |-> 1] ELSE NoDispatch

\* Fault: a manager that is disposed while started stops, and that is all.
OnlyStopped(isShutdown) == NoDispatch

\* What follows when controllers have been told to stop.
AfterStopped(isShutdown) ==
    IF isShutdown THEN [what |-> "dispose", at |-> 1] ELSE NoDispatch

\* forEach has called all entries.  A disposed container forgets them.
DispatchEnds ==
    /\ dispatch.what # "nothing"
    /\ dispatch.at > Len(entries)
    /\ dispatch' = IF dispatch.what = "init" THEN Subscribed(operatingState)
                   ELSE IF dispatch.what = "Stopped" THEN AfterStopped(shutdown)
                   ELSE NoDispatch
    /\ listening' = (dispatch.what # "dispose" /\ (listening \/ dispatch.what = "init"))
    /\ entries' = IF dispatch.what = "dispose" THEN << >> ELSE entries
    /\ UNCHANGED <<created, told, shutdown, nested, replaced, odd, vars>>

\* Map.set
EntriesWith(name, c) ==
    IF \E i \in DOMAIN entries : entries[i].name = name
    THEN [i \in DOMAIN entries |->
            IF entries[i].name = name THEN [name |-> name, ctrl |-> c] ELSE entries[i]]
    ELSE Append(entries, [name |-> name, ctrl |-> c])

\* Fault: a controller registered after the start is not told.
ToldInit(state) == "init"

\* What a new controller has been told: onInit, and then
\* onCommunicationManagerStarting if the manager is started.
ToldFirst(state) == IF state = "Started" THEN "Started" ELSE "init"

\* registerController, by the application or within a callback.
RegisterController(name) ==
    /\ ~shutdown
    /\ created < MaxControllers
    /\ dispatch.what # "nothing" => dispatch.at > 1
    /\ created' = created + 1
    /\ entries' = EntriesWith(name, created')
    /\ told' = [told EXCEPT ![created'] = ToldFirst(operatingState)]
    /\ nested' = IF dispatch.what = "nothing" THEN nested ELSE nested \cup {created'}
    /\ replaced' = replaced \cup {entries[i].ctrl : i \in {j \in DOMAIN entries : entries[j].name = name}}
    /\ UNCHANGED <<dispatch, listening, shutdown, odd, vars>>

------------------------------------------------------------------------------

\* An operating state that the manager emits is dispatched to controllers.
Dispatched ==
    dispatch' = IF operatingState' # operatingState /\ listening
                THEN [what |-> operatingState', at |-> 1] ELSE dispatch

\* start() and stop() by the application, and start() in onInit() of a
\* controller.  Other calls in callbacks are left out.
ManagerCalled ==
    /\ \/ dispatch.what \in {"nothing", "init"} /\ Start
       \/ dispatch.what = "nothing" /\ (StartWithOptions \/ Stop)
    /\ Dispatched
    /\ UNCHANGED <<entries, created, told, listening, shutdown, nested, replaced, odd>>

Quiet == dispatch = NoDispatch

\* Promises and bindings go on when no callback is being made.
Continues(A) ==
    /\ Quiet
    /\ A
    /\ Dispatched
    /\ UNCHANGED <<entries, created, told, listening, shutdown, nested, replaced, odd>>

\* The callbacks that shutdown() makes first: onDispose of the manager stops
\* it if it is started.
FirstOnShutdown(state) == IF state = "Started" THEN "Stopped" ELSE "dispose"

\* shutdown()
Shutdown ==
    /\ Quiet
    /\ ~shutdown
    /\ shutdown' = TRUE
    /\ Dispose
    /\ dispatch' = [what |-> FirstOnShutdown(operatingState), at |-> 1]
    /\ UNCHANGED <<entries, created, told, listening, nested, replaced, odd>>

BindingsContinue ==
    \E g \in Bindings :
        Continues(GoUp(g)) \/ Continues(GoDown(g)) \/ Continues(ClientError(g))

UnjoinContinues == \E g \in Bindings : Continues(UnjoinCompletes(g))

ContainerNext ==
    \/ CallController
    \/ DispatchEnds
    \/ \E name \in Names : RegisterController(name)
    \/ ManagerCalled
    \/ Shutdown
    \/ Continues(StopResolved)
    \/ Continues(StartResolved)
    \/ BindingsContinue
    \/ UnjoinContinues

agentVars == <<vars, containerVars>>

AgentInit == Init /\ ContainerInit

AgentSpec == AgentInit /\ [][ContainerNext]_agentVars

\* Callbacks return, promise continuations run, and a binding gets done.
AgentFairness ==
    /\ WF_agentVars(CallController)
    /\ WF_agentVars(DispatchEnds)
    /\ WF_agentVars(Continues(StopResolved))
    /\ WF_agentVars(Continues(StartResolved))
    /\ \A g \in Bindings : WF_agentVars(Continues(UnjoinCompletes(g)))

FairAgentSpec == AgentSpec /\ AgentFairness

------------------------------------------------------------------------------
(* Properties                                                              *)

AgentTypeOK == TypeOK /\ ContainerTypeOK

Registered == {entries[i].ctrl : i \in DOMAIN entries}

\* When callbacks have returned, all controllers that are registered have
\* been told to start if and only if the manager is started: those in
\* Components, those registered later, and those registered by others in the
\* midst of callbacks (container.ts:124-134, 238-245).
ControllersCurrent ==
    Quiet => \A c \in Registered :
        IF operatingState = "Started" THEN told[c] = "Started"
        ELSE told[c] \in {"init", "Stopped"}

\* A controller is initialised once, and then told to start and to stop in
\* turn, even if it is registered while the manager runs or restarts, unless
\* it is registered within the callback of another (controller.ts:25-37).
CallbacksAlternate == odd \subseteq nested

\* A container that is shut down has disposed all of its controllers, and has
\* told the ones that were started to stop before (container.ts:265-276).
AllDisposed ==
    shutdown /\ Quiet =>
        /\ entries = << >>
        /\ \A c \in 1 .. created : told[c] = "dispose" \/ c \in replaced

\* One binding is live at most, and what the manager reports of its operating
\* state, its communication state and its observed items fits to it, however
\* start, restart, stop and shutdown overlap.
ManagerConsistent ==
    /\ AgentTypeOK
    /\ OneBindingLive
    /\ OperatingStateCurrent
    /\ ObserversOnce
    /\ CommunicationStateCurrent

\* Controllers know the operating state, are told of starting and stopping in
\* turn, and are disposed of once with the container.
ControllersTold == ControllersCurrent /\ CallbacksAlternate /\ AllDisposed

\* Every binding behaves as its base class promises.
Lifecycle(g) == INSTANCE BindingLifecycle WITH
    state <- binding[g].state, link <- binding[g].link, promise <- binding[g].promise

\* All operations of the communication manager use each of its bindings as
\* BindingLifecycle allows: joined at most once and never after unjoining.
BindingsUsedOnce ==
    /\ \A g \in Bindings : Lifecycle(g)!Init
    /\ [][\A g \in Bindings : Lifecycle(g)!Next \/ UNCHANGED Lifecycle(g)!vars]_vars

\* A single stop() is resolved once the manager has unjoined, and no binding
\* is joined twice or after unjoining.
PromisesKept == StopResolvedUnjoined /\ BindingsUsedOnce

==============================================================================

-------------------------- MODULE IoActorController --------------------------
(***************************************************************************)
(* The IO actor controller (io-routing/io-actor-controller.ts) with one IO *)
(* actor, and what the communication manager of its agent does with the    *)
(* values it receives.  Values are numbered; 0 is undefined.               *)
(***************************************************************************)
EXTENDS Naturals

VARIABLES
    actorStarted,       \* the manager of this agent is started
    actorState,         \* the manager has the actor associated
    actorRegistered,    \* the actor is in _actorItems
    stateListeners,     \* subscriptions on the manager's IO state subject
    valueListeners,     \* subscriptions on its IO values
    actorAssociation,   \* item[1], the subject for the association state
    value               \* item[2], the subject for IO values

actorVars == <<actorStarted, actorState, actorRegistered, stateListeners,
               valueListeners, actorAssociation, value>>

ActorTypeOK ==
    /\ actorStarted \in BOOLEAN
    /\ actorState \in BOOLEAN
    /\ actorRegistered \in BOOLEAN
    /\ actorAssociation \in BOOLEAN
    /\ stateListeners \in 0 .. 2
    /\ valueListeners \in 0 .. 2
    /\ value \in Nat

ActorInit ==
    /\ actorStarted = FALSE
    /\ actorState = FALSE
    /\ actorRegistered = FALSE
    /\ stateListeners = 0
    /\ valueListeners = 0
    /\ actorAssociation = FALSE
    /\ value = 0

\* _ensureRegistered
RegisterActor ==
    /\ ~actorRegistered
    /\ actorRegistered' = TRUE
    /\ stateListeners' = stateListeners + 1
    /\ valueListeners' = valueListeners + 1
    /\ actorAssociation' = actorState
    /\ UNCHANGED <<actorStarted, actorState, value>>

\* Fault: the observers of IO values are not renewed.
OnlyStateObserved(n) == n

\* The subscriptions on IO values after _reregisterAll.
ValuesObserved(n) == n + 1

\* _reregisterAll, when the manager has been started.
ActorStarts ==
    /\ ~actorStarted
    /\ actorStarted' = TRUE
    /\ IF actorRegistered
       THEN /\ stateListeners' = stateListeners + 1
            /\ valueListeners' = ValuesObserved(valueListeners)
            /\ actorAssociation' = FALSE
       ELSE UNCHANGED <<stateListeners, valueListeners, actorAssociation>>
    /\ UNCHANGED <<actorState, actorRegistered, value>>

\* Fault: observers of an IO state are completed only.
NotDispatched(state) == actorAssociation

\* _onIoStateChanged, for each listener.
StateDispatched(state) == IF stateListeners > 0 THEN state ELSE actorAssociation

\* _unobserveIoStateAndValue of the manager: IO state observers are told, and
\* then all of them are completed.  The value is kept.
ActorStops ==
    /\ actorStarted
    /\ actorStarted' = FALSE
    /\ actorState' = FALSE
    /\ actorAssociation' = StateDispatched(FALSE)
    /\ stateListeners' = 0
    /\ valueListeners' = 0
    /\ UNCHANGED <<actorRegistered, value>>

\* _handleAssociate
AssociateActor ==
    /\ actorStarted
    /\ actorState' = ~actorState
    /\ actorAssociation' = StateDispatched(actorState')
    /\ UNCHANGED <<actorStarted, actorRegistered, stateListeners, valueListeners,
                   value>>

\* Values of a route are received as long as it is subscribed, and given to
\* the actors that are associated and observed (_dispatchIoValue).
Accepts == actorStarted /\ actorState /\ actorRegistered

\* _dispatchIoValue and _onIoValueChanged
DispatchIoValue(v) ==
    /\ value' = IF actorState /\ valueListeners > 0 THEN v ELSE value
    /\ UNCHANGED <<actorStarted, actorState, actorRegistered, stateListeners,
                   valueListeners, actorAssociation>>

ActorNext == RegisterActor \/ ActorStarts \/ ActorStops \/ AssociateActor

------------------------------------------------------------------------------

\* The association state that the controller shows is always the one of the
\* manager, whether it is started, stopped or started again, and in whatever
\* order the actor is registered (io-actor-controller.ts:99-140).
ActorCurrent == actorRegistered => actorAssociation = actorState
==============================================================================

------------------------------- MODULE IoPoints -------------------------------
(***************************************************************************)
(* An IO source and an IO actor on two agents.  IO routers associate each  *)
(* of them at any time: an Associate event reaches the two agents          *)
(* independently, so that one of them may be associated without the other. *)
(* Both agents stop and start.  The values of a route are delivered in the *)
(* order of their publication to agents that subscribe the route.          *)
(***************************************************************************)
EXTENDS IoSourceController, IoActorController

vars == <<sourceVars, actorVars, channel>>

TypeOK == SourceTypeOK /\ ActorTypeOK

Init == SourceInit /\ ActorInit

Source == SourceNext /\ UNCHANGED actorVars

Actor == ActorNext /\ UNCHANGED <<sourceVars, channel>>

\* The next value on the route is delivered; without an associated actor
\* that is observed nobody receives it.
Deliver ==
    /\ channel # << >>
    /\ channel' = Tail(channel)
    /\ DispatchIoValue(Head(channel))
    /\ lost' = IF Accepts THEN lost ELSE lost \cup {Head(channel)}
    /\ UNCHANGED <<sourceStarted, sourceState, sourceRegistered, sourceListeners,
                   sourceAssociation, updateRate, updateSubscription, waiting,
                   handling, repeated, offered, latest>>

Next == Source \/ Actor \/ Deliver

Spec == Init /\ [][Next]_vars

\* Timers elapse, observers return, and the broker delivers messages.
Fairness ==
    /\ WF_vars(TimerElapses /\ UNCHANGED actorVars)
    /\ WF_vars(ObserversReturn /\ UNCHANGED actorVars)
    /\ WF_vars(Deliver)

FairSpec == Spec /\ Fairness

------------------------------------------------------------------------------

\* An IO actor never gets an older value after a newer one, although rates
\* change while values wait (io-source-controller.ts:199-200,
\* io-actor-controller.ts:143-151), and keeps its value over restarts.
ValuesInOrder == [][value' >= value]_vars

\* A value that waits for its time gets to the actor, or a later one does,
\* unless the association or its rate changes or the actor does not listen
\* when that value is at stake:
\* an idle source does not keep its last value (io-source-controller.ts:211-231).
WaitingArrives ==
    \A v \in Values : waiting = v ~> value >= v \/ \E w \in lost : w >= v

\* What observers of an IO source and an IO actor are told is the state of the
\* association, and a value is kept for publication until it is superseded.
EndsCurrent == TypeOK /\ SourceCurrent /\ ActorCurrent /\ LatestKept

==============================================================================

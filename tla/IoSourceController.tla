-------------------------- MODULE IoSourceController --------------------------
(***************************************************************************)
(* The IO source controller (io-routing/io-source-controller.ts) with one  *)
(* IO source: it follows the IO state that the communication manager of    *)
(* its agent reports, and publishes IO values at the recommended rate.     *)
(*                                                                         *)
(* The code is single-threaded, but application code runs within it: the   *)
(* observers of an association state and of an update rate are called      *)
(* before the subscription that publishes values is renewed.  handling     *)
(* says which of them are being called; they may publish values.           *)
(*                                                                         *)
(* Values are numbered in the order of their publication.  sampleTime and  *)
(* debounceTime both keep the last value until a timer elapses.            *)
(***************************************************************************)
EXTENDS Naturals, Sequences

CONSTANTS
    Rates, NoRate,  \* recommended update rates; undefined or 0
    Paced,          \* the backpressure strategy is not None
    MaxValues       \* bound on the number of values published

ASSUME SourceAssumption ==
    NoRate \notin Rates /\ Paced \in BOOLEAN /\ MaxValues \in Nat

VARIABLES
    sourceStarted,      \* the manager of this agent is started
    sourceState,        \* the IO state of the source in that manager
    sourceRegistered,   \* the source is in _sourceItems
    sourceListeners,    \* subscriptions on the manager's IO state subject
    sourceAssociation,  \* item[3], the subject for the association state
    updateRate,         \* item[2], the subject for the update rate
    updateSubscription, \* item[5]: "none", or the rate it publishes at
    waiting,            \* the value it keeps, or 0
    handling,           \* observers being called
    repeated,           \* history: a state has been emitted twice in a row
    offered,            \* history: the number of values published so far
    latest,             \* history: value last given to this subscription
    lost,               \* history: values discarded after they were taken
    channel             \* values on their way to the IO actor

sourceVars == <<sourceStarted, sourceState, sourceRegistered, sourceListeners,
    sourceAssociation, updateRate, updateSubscription, waiting, handling,
    repeated, offered, latest, lost>>

IoStates == [is : BOOLEAN, rate : Rates \cup {NoRate}]
Disassociated == [is |-> FALSE, rate |-> NoRate]
Subscriptions == [on : BOOLEAN, rate : Rates \cup {NoRate}]
NoSubscription == [on |-> FALSE, rate |-> NoRate]
Values == 1 .. MaxValues

SourceTypeOK ==
    /\ sourceStarted \in BOOLEAN
    /\ sourceState \in IoStates
    /\ sourceRegistered \in BOOLEAN
    /\ sourceListeners \in 0 .. 2
    /\ sourceAssociation \in BOOLEAN
    /\ updateRate \in Rates \cup {NoRate}
    /\ updateSubscription \in Subscriptions
    /\ waiting \in 0 .. MaxValues
    /\ handling \in {"nothing", "association", "rate"}
    /\ repeated \in BOOLEAN
    /\ offered \in 0 .. MaxValues
    /\ latest \in 0 .. MaxValues
    /\ lost \subseteq Values
    /\ channel \in Seq(Values)

SourceInit ==
    /\ sourceStarted = FALSE
    /\ sourceState = Disassociated
    /\ sourceRegistered = FALSE
    /\ sourceListeners = 0
    /\ sourceAssociation = FALSE
    /\ updateRate = NoRate
    /\ updateSubscription = NoSubscription
    /\ waiting = 0
    /\ handling = "nothing"
    /\ repeated = FALSE
    /\ offered = 0
    /\ latest = 0
    /\ lost = {}
    /\ channel = << >>

------------------------------------------------------------------------------
(* The subscription that publishes values                                  *)

\* Fault: a change of the rate only leaves the subscription as it is.
SubscribedAtFirstRate(is, rate) ==
    IF ~is THEN NoSubscription
    ELSE IF updateSubscription.on THEN updateSubscription
    ELSE [on |-> TRUE, rate |-> IF Paced THEN rate ELSE NoRate]

\* The observable for an association state and a rate.
Subscribed(is, rate) ==
    IF is THEN [on |-> TRUE, rate |-> IF Paced THEN rate ELSE NoRate]
          ELSE NoSubscription

\* Fault: scheduled values stay scheduled.
KeepsWaiting == latest' = waiting /\ UNCHANGED <<waiting, lost>>

\* The value that waits in the subscription being unsubscribed is discarded.
DiscardWaiting ==
    /\ waiting' = 0
    /\ latest' = 0
    /\ lost' = lost \cup ({waiting} \ {0})

\* _updateUpdateRateObservable
UpdateUpdateRateObservable(is, rate) ==
    /\ updateSubscription' = Subscribed(is, rate)
    /\ DiscardWaiting

\* The update rate is dispatched to its observers, if it has changed, and
\* then, if anything has changed, the subscription is renewed.
RateChanged(state, needsUpdate) ==
    IF updateRate # state.rate
    THEN /\ updateRate' = state.rate
         /\ handling' = "rate"
         /\ UNCHANGED <<updateSubscription, waiting, latest, lost>>
    ELSE /\ handling' = "nothing"
         /\ IF needsUpdate
            THEN UpdateUpdateRateObservable(state.is, state.rate)
            ELSE UNCHANGED <<updateSubscription, waiting, latest, lost>>
         /\ UNCHANGED updateRate

\* _onIoStateChanged, up to the first call of observers.
OnIoStateChanged(state) ==
    IF sourceAssociation # state.is
    THEN /\ sourceAssociation' = state.is
         /\ handling' = "association"
         /\ UNCHANGED <<updateRate, updateSubscription, waiting, latest, lost>>
    ELSE /\ RateChanged(state, FALSE)
         /\ UNCHANGED sourceAssociation

\* The observers of the association state, or of the rate, return.
ObserversReturn ==
    /\ handling # "nothing"
    /\ \/ /\ handling = "association"
          /\ RateChanged(sourceState, TRUE)
       \/ /\ handling = "rate"
          /\ handling' = "nothing"
          /\ UpdateUpdateRateObservable(sourceState.is, sourceState.rate)
          /\ UNCHANGED updateRate
    /\ UNCHANGED <<sourceStarted, sourceState, sourceRegistered, sourceListeners,
                   sourceAssociation, repeated, offered, channel>>

------------------------------------------------------------------------------
(* Operations of the controller                                            *)

\* _ensureRegistered for a source that is not registered yet: called by each
\* operation of the controller on the source.
RegisterSource ==
    /\ ~sourceRegistered
    /\ sourceRegistered' = TRUE
    /\ sourceListeners' = sourceListeners + 1
    /\ sourceAssociation' = sourceState.is
    /\ updateRate' = sourceState.rate
    /\ UpdateUpdateRateObservable(sourceState.is, sourceState.rate)
    /\ UNCHANGED <<sourceStarted, sourceState, handling, repeated, offered,
                   channel>>

\* publishIoValue of the manager: only for a source it knows associated.
Sent(value) == IF sourceState.is THEN Append(channel, value) ELSE channel

\* Fault: the first value since the timer elapsed is kept.
FirstWaiting(value) == IF waiting = 0 THEN value ELSE waiting

\* The value that waits when a further one is given to a paced subscription.
NowWaiting(value) == value

\* publish, for a source that is registered: also called by observers of its
\* association state and its rate.  A value is discarded unless the source is
\* associated, and while no subscription takes it.
PublishValue ==
    /\ sourceRegistered
    /\ offered < MaxValues
    /\ offered' = offered + 1
    /\ \/ /\ ~(sourceAssociation /\ updateSubscription.on)
          /\ UNCHANGED <<waiting, latest, channel>>
       \/ /\ sourceAssociation /\ updateSubscription.on
          /\ latest' = offered'
          /\ IF updateSubscription.rate = NoRate
             THEN channel' = Sent(offered') /\ UNCHANGED waiting
             ELSE waiting' = NowWaiting(offered') /\ UNCHANGED channel
    /\ UNCHANGED <<sourceStarted, sourceState, sourceRegistered, sourceListeners,
                   sourceAssociation, updateRate, updateSubscription, handling,
                   repeated, lost>>

\* The timer of the paced subscription elapses.
TimerElapses ==
    /\ handling = "nothing"
    /\ waiting # 0
    /\ channel' = Sent(waiting)
    /\ waiting' = 0
    /\ UNCHANGED <<sourceStarted, sourceState, sourceRegistered, sourceListeners,
                   sourceAssociation, updateRate, updateSubscription, handling,
                   repeated, offered, latest, lost>>

------------------------------------------------------------------------------
(* The communication manager of the source's agent                         *)

\* _handleAssociate: the first IO actor is associated, the update rate is
\* changed, or the last actor is disassociated.
AssociateSource(state) ==
    /\ sourceStarted /\ handling = "nothing"
    /\ state.rate # NoRate => state.is
    /\ state # sourceState
    /\ sourceState' = state
    /\ IF sourceListeners > 0
       THEN OnIoStateChanged(state)
       ELSE UNCHANGED <<sourceAssociation, updateRate, updateSubscription,
                        waiting, latest, lost, handling>>
    /\ UNCHANGED <<sourceStarted, sourceRegistered, sourceListeners, repeated,
                   offered, channel>>

\* The subscriptions on an IO state after _reregisterAll: the subscription
\* of a source registered while stopped is not closed.
Reregistered(n) == n + 1

\* _reregisterAll, when the manager has been started: the initial IO state is
\* emitted although the controller may have the same one.
SourceStarts ==
    /\ ~sourceStarted
    /\ sourceStarted' = TRUE
    /\ IF sourceRegistered
       THEN /\ sourceListeners' = Reregistered(sourceListeners)
            /\ sourceAssociation' = FALSE
            /\ updateRate' = NoRate
            /\ UpdateUpdateRateObservable(FALSE, NoRate)
            /\ repeated' = TRUE
       ELSE UNCHANGED <<sourceListeners, sourceAssociation, updateRate,
                        updateSubscription, waiting, latest, lost, repeated>>
    /\ UNCHANGED <<sourceState, sourceRegistered, handling, offered, channel>>

\* Fault: subscribers of an IO state are told that it ends, but not completed.
NotCompleted(n) == n

\* The subscriptions left when the manager completes an IO state.
Completed(n) == 0

\* _deregisterAll, and then _unobserveIoStateAndValue of the manager, which
\* reports that the source is disassociated to a listener that is left.
SourceStops ==
    /\ sourceStarted /\ handling = "nothing"
    /\ sourceStarted' = FALSE
    /\ sourceState' = Disassociated
    /\ sourceListeners' = Completed(sourceListeners)
    /\ updateSubscription' = NoSubscription
    /\ DiscardWaiting
    /\ IF sourceListeners > 1
       THEN sourceAssociation' = FALSE /\ updateRate' = NoRate
       ELSE UNCHANGED <<sourceAssociation, updateRate>>
    /\ UNCHANGED <<sourceRegistered, handling, repeated, offered, channel>>

SourceNext ==
    \/ RegisterSource
    \/ PublishValue
    \/ TimerElapses
    \/ ObserversReturn
    \/ SourceStarts
    \/ SourceStops
    \/ \E state \in IoStates : AssociateSource(state)

------------------------------------------------------------------------------

\* While communication is started, and observers are not being called, the
\* controller shows the IO state of the manager, and publishes values at the
\* rate recommended last, or not at all (io-source-controller.ts:163-232).
\* This takes subscriptions renewed at each restart and at each change.
SourceCurrent ==
    sourceStarted /\ sourceRegistered /\ handling = "nothing" =>
        /\ sourceAssociation = sourceState.is
        /\ updateRate = sourceState.rate
        /\ updateSubscription =
              IF sourceState.is
              THEN [on |-> TRUE, rate |-> IF Paced THEN sourceState.rate ELSE NoRate]
              ELSE NoSubscription

\* The last value given to the current subscription has been published or
\* waits to be, and nothing else waits (io-source-controller.ts:196-232): a
\* rate drops values in between, but never the last one.
LatestKept ==
    /\ waiting \in {0, latest}
    /\ latest # 0 /\ waiting = 0 /\ channel # << >>
          => channel[Len(channel)] = latest
    /\ waiting # 0 /\ handling = "nothing" => sourceStarted /\ sourceState.is

\* Association states are emitted when they change only ("emits distinct
\* boolean values until changed", io-source-controller.ts:115).
DistinctStates == ~repeated
==============================================================================

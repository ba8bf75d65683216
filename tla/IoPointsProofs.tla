--------------------------- MODULE IoPointsProofs ---------------------------
(***************************************************************************)
(* Proofs about the IO controllers of an IO source and an IO actor.        *)
(***************************************************************************)
EXTENDS IoPoints, SequenceTheorems, TLAPS

------------------------------------------------------------------------------
(* The inductive invariant                                                 *)

\* A manager that is stopped has no association, and nothing is published.
StoppedSource ==
    ~sourceStarted =>
        /\ sourceState = Disassociated
        /\ handling = "nothing"
        /\ sourceListeners <= 1
        /\ ~updateSubscription.on

\* The controller listens to the manager as long as it has to.
SourceListens ==
    /\ sourceStarted /\ sourceRegistered => sourceListeners > 0
    /\ ~sourceRegistered =>
          sourceListeners = 0 /\ handling = "nothing" /\ ~updateSubscription.on

\* While observers are called, what they are told is up to date.
ToldInOrder ==
    /\ handling # "nothing" => sourceAssociation = sourceState.is
    /\ handling = "rate" => updateRate = sourceState.rate

\* Only a paced subscription keeps a value.
OnlyPacedWaits ==
    waiting # 0 => updateSubscription.on /\ updateSubscription.rate # NoRate

ActorListens ==
    /\ ~actorRegistered => stateListeners = 0 /\ valueListeners = 0
    /\ ~actorStarted => ~actorState /\ stateListeners <= 1 /\ valueListeners <= 1
    /\ actorStarted /\ actorRegistered => stateListeners > 0 /\ valueListeners > 0

\* Values are on their way in the order of their publication: what the actor
\* has, the route, and what waits to be published.
InOrder ==
    /\ \A i \in 1 .. Len(channel) : channel[i] >= value /\ channel[i] <= offered
    /\ \A i, j \in 1 .. Len(channel) : i < j => channel[i] < channel[j]
    /\ value <= offered
    /\ waiting <= offered
    /\ waiting # 0 => /\ value < waiting
                      /\ \A i \in 1 .. Len(channel) : channel[i] < waiting

IInv ==
    /\ TypeOK
    /\ StoppedSource /\ SourceListens /\ ToldInOrder /\ OnlyPacedWaits
    /\ SourceCurrent /\ LatestKept
    /\ ActorListens /\ ActorCurrent
    /\ InOrder
------------------------------------------------------------------------------
(* Values on their way                                                     *)

\* A value newer than all others goes last.
LEMMA SentLast ==
    ASSUME IInv, NEW v \in Values,
           \A i \in 1 .. Len(channel) : channel[i] < v
    PROVE  /\ Sent(v) \in Seq(Values)
           /\ \A i \in 1 .. Len(Sent(v)) :
                 (i \in 1 .. Len(channel) /\ Sent(v)[i] = channel[i]) \/ Sent(v)[i] = v
           /\ \A i, j \in 1 .. Len(Sent(v)) : i < j => Sent(v)[i] < Sent(v)[j]
           /\ sourceState.is => Sent(v)[Len(Sent(v))] = v /\ Sent(v) # << >>
           /\ ~sourceState.is => Sent(v) = channel
<1>1. channel \in Seq(Values)
  BY DEF IInv, TypeOK, SourceTypeOK
<1>2. CASE ~sourceState.is
  BY <1>1, <1>2 DEF Sent, IInv, InOrder
<1>3. CASE sourceState.is
  <2>1. /\ Append(channel, v) \in Seq(Values)
        /\ Len(Append(channel, v)) = Len(channel) + 1
        /\ \A i \in 1 .. Len(channel) : Append(channel, v)[i] = channel[i]
        /\ Append(channel, v)[Len(channel) + 1] = v
    BY <1>1, AppendProperties
  <2>2. Len(channel) \in Nat
    BY <1>1, LenProperties
  <2>3. \A i \in 1 .. Len(channel) + 1 : i \in 1 .. Len(channel) \/ i = Len(channel) + 1
    BY <2>2
  <2>4. Sent(v) = Append(channel, v)
    BY <1>3 DEF Sent
  <2>5. \A i \in 1 .. Len(channel) + 1 :
           (i \in 1 .. Len(channel) /\ Sent(v)[i] = channel[i]) \/ Sent(v)[i] = v
    BY <2>1, <2>3, <2>4
  <2>6. ASSUME NEW i \in 1 .. Len(channel) + 1, NEW j \in 1 .. Len(channel) + 1, i < j
        PROVE  Sent(v)[i] < Sent(v)[j]
    <3>1. i \in 1 .. Len(channel) /\ Sent(v)[i] = channel[i]
      BY <2>1, <2>2, <2>4, <2>6
    <3>2. CASE j = Len(channel) + 1
      BY <2>1, <2>4, <3>1, <3>2
    <3>3. CASE j \in 1 .. Len(channel)
      BY <2>1, <2>4, <2>6, <3>1, <3>3 DEF IInv, InOrder
    <3> QED
      BY <2>3, <3>2, <3>3
  <2>7. Append(channel, v) # << >>
    BY <2>1, <2>2
  <2>8. Len(Sent(v)) = Len(channel) + 1
    BY <2>1, <2>4
  <2> QED
    BY <1>3, <2>1, <2>4, <2>5, <2>6, <2>7, <2>8
<1> QED
  BY <1>2, <1>3

LEMMA InitInvariant == Init => IInv
<1> SUFFICES ASSUME Init PROVE IInv
  OBVIOUS
<1> USE DEF Init, SourceInit, ActorInit
<1>1. channel \in Seq(Values) /\ Len(channel) = 0
  OBVIOUS
<1>2. SourceTypeOK
  <2>1. /\ sourceStarted \in BOOLEAN /\ sourceRegistered \in BOOLEAN
        /\ sourceAssociation \in BOOLEAN /\ repeated \in BOOLEAN
        /\ handling \in {"nothing", "association", "rate"}
    OBVIOUS
  <2>2. /\ sourceState \in IoStates /\ updateSubscription \in Subscriptions
        /\ updateRate \in Rates \cup {NoRate}
    BY DEF IoStates, Disassociated, Subscriptions, NoSubscription
  <2>3. /\ sourceListeners \in 0 .. 2 /\ waiting \in 0 .. MaxValues
        /\ offered \in 0 .. MaxValues /\ latest \in 0 .. MaxValues /\ lost \subseteq Values
    BY SourceAssumption
  <2> QED
    BY <1>1, <2>1, <2>2, <2>3 DEF SourceTypeOK
<1>3. ActorTypeOK
  <2>1. /\ actorStarted \in BOOLEAN /\ actorState \in BOOLEAN
        /\ actorRegistered \in BOOLEAN /\ actorAssociation \in BOOLEAN
    OBVIOUS
  <2>2. stateListeners \in 0 .. 2 /\ valueListeners \in 0 .. 2 /\ value \in Nat
    OBVIOUS
  <2> QED
    BY <2>1, <2>2 DEF ActorTypeOK
<1>4. SourceCurrent /\ LatestKept /\ ActorCurrent
  BY DEF SourceCurrent, LatestKept, ActorCurrent
<1>5. StoppedSource /\ SourceListens /\ ToldInOrder /\ OnlyPacedWaits /\ ActorListens
  BY DEF StoppedSource, SourceListens, ToldInOrder, OnlyPacedWaits, ActorListens, NoSubscription
<1>6. InOrder
  BY <1>1 DEF InOrder
<1> QED
  BY <1>2, <1>3, <1>4, <1>5, <1>6 DEF IInv, TypeOK

------------------------------------------------------------------------------
(* The source                                                              *)

\* The subscription for an IO state is one.
LEMMA SubscribedType ==
    ASSUME NEW is \in BOOLEAN, NEW rate \in Rates \cup {NoRate}
    PROVE  Subscribed(is, rate) \in Subscriptions
  BY SourceAssumption DEF Subscribed, Subscriptions, NoSubscription

LEMMA RegisterSourceInvariant ==
    ASSUME IInv, RegisterSource, UNCHANGED actorVars
    PROVE  IInv'
<1> USE DEF RegisterSource, actorVars
<1>1. sourceListeners = 0 /\ handling = "nothing" /\ ~updateSubscription.on /\ waiting = 0
  BY DEF IInv, SourceListens, OnlyPacedWaits
<1>2. sourceState.is \in BOOLEAN /\ sourceState.rate \in Rates \cup {NoRate}
  BY DEF IInv, TypeOK, SourceTypeOK, IoStates
<1>3. TypeOK'
  BY <1>1, <1>2, SubscribedType, SourceAssumption
     DEF IInv, TypeOK, SourceTypeOK, ActorTypeOK, UpdateUpdateRateObservable, DiscardWaiting
<1>4. (StoppedSource /\ SourceListens /\ ToldInOrder /\ OnlyPacedWaits)'
  BY <1>1, <1>2
     DEF IInv, StoppedSource, SourceListens, ToldInOrder, OnlyPacedWaits, Disassociated,
         UpdateUpdateRateObservable, DiscardWaiting, Subscribed, NoSubscription
<1>5. (SourceCurrent /\ LatestKept)'
  BY <1>1 DEF IInv, SourceCurrent, LatestKept, UpdateUpdateRateObservable, DiscardWaiting, Subscribed
<1>6. (ActorListens /\ ActorCurrent)'
  BY DEF IInv, ActorListens, ActorCurrent
<1>7. InOrder'
  BY DEF IInv, InOrder, UpdateUpdateRateObservable, DiscardWaiting, TypeOK, SourceTypeOK
<1> QED
  BY <1>3, <1>4, <1>5, <1>6, <1>7 DEF IInv

\* What a subscription is told of is the state of the manager, so that what
\* it publishes reaches the route, in order.
LEMMA TakenIsAssociated ==
    ASSUME IInv, sourceAssociation, updateSubscription.on
    PROVE  sourceState.is /\ sourceRegistered
  BY DEF IInv, StoppedSource, SourceListens, ToldInOrder, SourceCurrent

LEMMA PublishValueInvariant ==
    ASSUME IInv, PublishValue, UNCHANGED actorVars
    PROVE  IInv'
<1> USE DEF PublishValue, actorVars, NowWaiting
<1>1. /\ offered' \in Values /\ offered' \in Nat /\ offered' = offered + 1 /\ offered \in Nat
      /\ channel \in Seq(Values) /\ Len(channel) \in Nat
      /\ \A i \in 1 .. Len(channel) : channel[i] \in Values /\ channel[i] \in Nat
      /\ value \in Nat /\ waiting \in Nat
  BY SourceAssumption, LenProperties, ElementOfSeq
     DEF IInv, TypeOK, SourceTypeOK, ActorTypeOK, Values
<1>2. /\ Sent(offered') \in Seq(Values)
      /\ \A i \in 1 .. Len(Sent(offered')) :
            (i \in 1 .. Len(channel) /\ Sent(offered')[i] = channel[i]) \/ Sent(offered')[i] = offered'
      /\ \A i, j \in 1 .. Len(Sent(offered')) : i < j => Sent(offered')[i] < Sent(offered')[j]
      /\ sourceState.is => Sent(offered')[Len(Sent(offered'))] = offered' /\ Sent(offered') # << >>
  <2>1. \A i \in 1 .. Len(channel) : channel[i] < offered'
    BY <1>1 DEF IInv, InOrder
  <2> QED
    BY <1>1, <2>1, SentLast
<1>3. TypeOK'
  BY <1>1, <1>2 DEF IInv, TypeOK, SourceTypeOK, ActorTypeOK, Values
<1>4. (StoppedSource /\ SourceListens /\ ToldInOrder /\ OnlyPacedWaits)'
  BY DEF IInv, StoppedSource, SourceListens, ToldInOrder, OnlyPacedWaits
<1>5. SourceCurrent'
  BY DEF IInv, SourceCurrent
<1>6. LatestKept'
  <2>1. CASE ~(sourceAssociation /\ updateSubscription.on)
    BY <2>1 DEF IInv, LatestKept
  <2>2. CASE sourceAssociation /\ updateSubscription.on
    <3>1. sourceState.is
      BY <2>2, TakenIsAssociated
    <3>2. sourceStarted
      BY <2>2 DEF IInv, StoppedSource
    <3>3. CASE updateSubscription.rate = NoRate
      <4>1. waiting = 0
        BY <3>3 DEF IInv, OnlyPacedWaits
      <4> QED
        BY <1>1, <1>2, <2>2, <3>1, <3>3, <4>1 DEF LatestKept
    <3>4. CASE updateSubscription.rate # NoRate
      BY <1>1, <2>2, <3>1, <3>2, <3>4 DEF LatestKept, Values
    <3> QED
      BY <3>3, <3>4
  <2> QED
    BY <2>1, <2>2
<1>7. (ActorListens /\ ActorCurrent)'
  BY DEF IInv, ActorListens, ActorCurrent
<1>8. InOrder'
  <2>1. CASE ~(sourceAssociation /\ updateSubscription.on)
    BY <1>1, <2>1 DEF IInv, InOrder
  <2>2. CASE sourceAssociation /\ updateSubscription.on /\ updateSubscription.rate = NoRate
    <3>1. waiting = 0 /\ waiting' = 0 /\ channel' = Sent(offered')
      BY <2>2 DEF IInv, OnlyPacedWaits
    <3> QED
      BY <1>1, <1>2, <3>1 DEF IInv, InOrder
  <2>3. CASE sourceAssociation /\ updateSubscription.on /\ updateSubscription.rate # NoRate
    BY <1>1, <2>3 DEF IInv, InOrder
  <2> QED
    BY <2>1, <2>2, <2>3
<1> QED
  BY <1>3, <1>4, <1>5, <1>6, <1>7, <1>8 DEF IInv

LEMMA TimerElapsesInvariant ==
    ASSUME IInv, TimerElapses, UNCHANGED actorVars
    PROVE  IInv'
<1> USE DEF TimerElapses, actorVars
<1>1. /\ waiting \in Values /\ offered \in Nat /\ value \in Nat
      /\ channel \in Seq(Values) /\ Len(channel) \in Nat
      /\ \A i \in 1 .. Len(channel) : channel[i] \in Values
  BY SourceAssumption, LenProperties, ElementOfSeq
     DEF IInv, TypeOK, SourceTypeOK, ActorTypeOK, Values
<1>2. /\ Sent(waiting) \in Seq(Values)
      /\ \A i \in 1 .. Len(Sent(waiting)) :
            (i \in 1 .. Len(channel) /\ Sent(waiting)[i] = channel[i]) \/ Sent(waiting)[i] = waiting
      /\ \A i, j \in 1 .. Len(Sent(waiting)) : i < j => Sent(waiting)[i] < Sent(waiting)[j]
      /\ sourceState.is => Sent(waiting)[Len(Sent(waiting))] = waiting /\ Sent(waiting) # << >>
  <2>1. \A i \in 1 .. Len(channel) : channel[i] < waiting
    BY DEF IInv, InOrder
  <2> QED
    BY <1>1, <2>1, SentLast
<1>3. TypeOK'
  BY <1>1, <1>2, SourceAssumption DEF IInv, TypeOK, SourceTypeOK, ActorTypeOK, Values
<1>4. (StoppedSource /\ SourceListens /\ ToldInOrder /\ OnlyPacedWaits)'
  BY DEF IInv, StoppedSource, SourceListens, ToldInOrder, OnlyPacedWaits
<1>5. SourceCurrent'
  BY DEF IInv, SourceCurrent
<1>6. LatestKept'
  BY <1>2 DEF IInv, LatestKept
<1>7. (ActorListens /\ ActorCurrent)'
  BY DEF IInv, ActorListens, ActorCurrent
<1>8. InOrder'
  BY <1>1, <1>2 DEF IInv, InOrder, Values
<1> QED
  BY <1>3, <1>4, <1>5, <1>6, <1>7, <1>8 DEF IInv

\* A value that is discarded does not wait any more, and the order of the
\* others is not affected.
LEMMA DiscardKeepsOrder ==
    ASSUME IInv, waiting' \in {0, waiting}, UNCHANGED <<offered, channel, value>>
    PROVE  InOrder'
  BY DEF IInv, InOrder, TypeOK, SourceTypeOK

LEMMA ObserversReturnInvariant ==
    ASSUME IInv, ObserversReturn, UNCHANGED actorVars
    PROVE  IInv'
<1> USE DEF ObserversReturn, actorVars
<1>1. /\ sourceState.is \in BOOLEAN /\ sourceState.rate \in Rates \cup {NoRate}
      /\ sourceState \in IoStates /\ waiting \in 0 .. MaxValues
      /\ handling \in {"nothing", "association", "rate"}
  BY DEF IInv, TypeOK, SourceTypeOK, IoStates
<1>2. \/ /\ handling = "association" /\ updateRate # sourceState.rate
         /\ updateRate' = sourceState.rate
         /\ handling' = "rate"
         /\ UNCHANGED <<updateSubscription, waiting, latest, lost>>
      \/ /\ handling = "rate" \/ updateRate = sourceState.rate
         /\ handling' = "nothing"
         /\ updateSubscription' = Subscribed(sourceState.is, sourceState.rate)
         /\ waiting' = 0 /\ latest' = 0
         /\ lost' = lost \cup ({waiting} \ {0})
         /\ UNCHANGED updateRate
  BY DEF RateChanged, UpdateUpdateRateObservable, DiscardWaiting
<1>3. TypeOK'
  <2>1. updateSubscription' \in Subscriptions
    BY <1>1, <1>2, SubscribedType DEF IInv, TypeOK, SourceTypeOK
  <2>2. updateRate' \in Rates \cup {NoRate} /\ handling' \in {"nothing", "association", "rate"}
    BY <1>1, <1>2 DEF IInv, TypeOK, SourceTypeOK
  <2>3. waiting' \in {0, waiting} /\ latest' \in {0, latest} /\ lost' \subseteq lost \cup ({waiting} \ {0})
    BY <1>2
  <2>4. waiting' \in 0 .. MaxValues /\ latest' \in 0 .. MaxValues /\ lost' \subseteq Values
    BY <1>1, <2>3, SourceAssumption DEF IInv, TypeOK, SourceTypeOK, Values
  <2> QED
    BY <2>1, <2>2, <2>4 DEF IInv, TypeOK, SourceTypeOK, ActorTypeOK
<1>4. StoppedSource'
  BY DEF IInv, StoppedSource
<1>5. SourceListens'
  BY <1>2 DEF IInv, SourceListens
<1>6. ToldInOrder'
  BY <1>2 DEF IInv, ToldInOrder
<1>7. OnlyPacedWaits'
  BY <1>2 DEF IInv, OnlyPacedWaits
<1>8. SourceCurrent'
  BY <1>2 DEF IInv, SourceCurrent, ToldInOrder, Subscribed
<1>9. LatestKept'
  BY <1>1, <1>2 DEF IInv, LatestKept
<1>10. (ActorListens /\ ActorCurrent)'
  BY DEF IInv, ActorListens, ActorCurrent
<1>11. InOrder'
  BY <1>2, DiscardKeepsOrder
<1> QED
  BY <1>3, <1>4, <1>5, <1>6, <1>7, <1>8, <1>9, <1>10, <1>11 DEF IInv

LEMMA SourceStartsInvariant ==
    ASSUME IInv, SourceStarts, UNCHANGED actorVars
    PROVE  IInv'
<1> USE DEF SourceStarts, actorVars
<1>1. /\ sourceState = Disassociated /\ handling = "nothing" /\ waiting = 0
      /\ sourceListeners \in 0 .. 1 /\ ~updateSubscription.on
  BY DEF IInv, StoppedSource, OnlyPacedWaits, TypeOK, SourceTypeOK
<1>2. /\ sourceListeners' \in {sourceListeners, sourceListeners + 1}
      /\ sourceRegistered => sourceListeners' = sourceListeners + 1
  BY DEF Reregistered
<1>3. TypeOK'
  <2>1. sourceStarted' \in BOOLEAN /\ sourceAssociation' \in BOOLEAN /\ repeated' \in BOOLEAN
    BY DEF IInv, TypeOK, SourceTypeOK
  <2>2. updateSubscription' \in Subscriptions
    BY SubscribedType DEF IInv, TypeOK, SourceTypeOK, UpdateUpdateRateObservable
  <2>3. updateRate' \in Rates \cup {NoRate}
    BY DEF IInv, TypeOK, SourceTypeOK
  <2>4. sourceListeners' \in 0 .. 2
    BY <1>1, <1>2
  <2>5. waiting' \in 0 .. MaxValues /\ latest' \in 0 .. MaxValues /\ lost' \subseteq Values
    BY <1>1, SourceAssumption DEF IInv, TypeOK, SourceTypeOK, Values, UpdateUpdateRateObservable, DiscardWaiting
  <2> QED
    BY <2>1, <2>2, <2>3, <2>4, <2>5 DEF IInv, TypeOK, SourceTypeOK, ActorTypeOK
<1>4. (StoppedSource /\ SourceListens /\ ToldInOrder /\ OnlyPacedWaits)'
  <2>1. sourceStarted' /\ handling' = "nothing" /\ waiting' = 0
    BY <1>1 DEF UpdateUpdateRateObservable, DiscardWaiting
  <2>2. SourceListens'
    <3>1. CASE sourceRegistered
      BY <1>1, <1>2, <3>1 DEF SourceListens
    <3>2. CASE ~sourceRegistered
      BY <3>2 DEF IInv, SourceListens
    <3> QED
      BY <3>1, <3>2
  <2> QED
    BY <2>1, <2>2 DEF StoppedSource, ToldInOrder, OnlyPacedWaits
<1>5. (SourceCurrent /\ LatestKept)'
  BY <1>1 DEF IInv, SourceCurrent, LatestKept, UpdateUpdateRateObservable, DiscardWaiting,
              Subscribed, Disassociated
<1>6. (ActorListens /\ ActorCurrent)'
  BY DEF IInv, ActorListens, ActorCurrent
<1>7. InOrder'
  BY <1>1, DiscardKeepsOrder DEF UpdateUpdateRateObservable, DiscardWaiting
<1> QED
  BY <1>3, <1>4, <1>5, <1>6, <1>7 DEF IInv

LEMMA SourceStopsInvariant ==
    ASSUME IInv, SourceStops, UNCHANGED actorVars
    PROVE  IInv'
<1> USE DEF SourceStops, actorVars
<1>1. TypeOK'
  <2>1. sourceStarted' \in BOOLEAN /\ sourceAssociation' \in BOOLEAN
    BY DEF IInv, TypeOK, SourceTypeOK
  <2>2. sourceState' \in IoStates /\ updateSubscription' \in Subscriptions
        /\ updateRate' \in Rates \cup {NoRate}
    BY DEF IInv, TypeOK, SourceTypeOK, IoStates, Disassociated, Subscriptions, NoSubscription
  <2>3. /\ sourceListeners' \in 0 .. 2 /\ waiting' \in 0 .. MaxValues /\ latest' \in 0 .. MaxValues
        /\ lost' \subseteq Values
    BY SourceAssumption DEF IInv, TypeOK, SourceTypeOK, Values, DiscardWaiting, Completed
  <2> QED
    BY <2>1, <2>2, <2>3 DEF IInv, TypeOK, SourceTypeOK, ActorTypeOK
<1>2. (StoppedSource /\ SourceListens /\ ToldInOrder /\ OnlyPacedWaits)'
  BY DEF IInv, StoppedSource, SourceListens, ToldInOrder, OnlyPacedWaits, Completed,
         DiscardWaiting, NoSubscription
<1>3. (SourceCurrent /\ LatestKept)'
  BY DEF IInv, SourceCurrent, LatestKept, DiscardWaiting
<1>4. (ActorListens /\ ActorCurrent)'
  BY DEF IInv, ActorListens, ActorCurrent
<1>5. InOrder'
  BY DiscardKeepsOrder DEF DiscardWaiting
<1> QED
  BY <1>1, <1>2, <1>3, <1>4, <1>5 DEF IInv

LEMMA AssociateSourceInvariant ==
    ASSUME IInv, NEW state \in IoStates, AssociateSource(state), UNCHANGED actorVars
    PROVE  IInv'
<1> USE DEF AssociateSource, actorVars
<1>1. /\ state.is \in BOOLEAN /\ state.rate \in Rates \cup {NoRate}
      /\ state = [is |-> state.is, rate |-> state.rate]
      /\ sourceState = [is |-> sourceState.is, rate |-> sourceState.rate]
  BY DEF IInv, TypeOK, SourceTypeOK, IoStates
<1>2. \/ /\ ~sourceRegistered \/ sourceListeners = 0
         /\ UNCHANGED <<sourceAssociation, updateRate, handling>>
      \/ /\ sourceListeners > 0 /\ sourceAssociation # state.is
         /\ sourceAssociation' = state.is
         /\ handling' = "association"
         /\ UNCHANGED updateRate
      \/ /\ sourceListeners > 0 /\ sourceAssociation = state.is /\ updateRate # state.rate
         /\ updateRate' = state.rate
         /\ handling' = "rate"
         /\ UNCHANGED sourceAssociation
  BY <1>1 DEF IInv, SourceCurrent, OnIoStateChanged, RateChanged, TypeOK, SourceTypeOK
<1>3. UNCHANGED <<updateSubscription, waiting, latest, lost>>
  BY <1>1 DEF OnIoStateChanged, RateChanged
<1>4. TypeOK'
  BY <1>1, <1>2, <1>3 DEF IInv, TypeOK, SourceTypeOK, ActorTypeOK
<1>5. (StoppedSource /\ SourceListens /\ ToldInOrder /\ OnlyPacedWaits)'
  BY <1>2, <1>3 DEF IInv, StoppedSource, SourceListens, ToldInOrder, OnlyPacedWaits
<1>6. SourceCurrent'
  BY <1>2, <1>3 DEF IInv, SourceCurrent, SourceListens
<1>7. LatestKept'
  BY <1>2, <1>3 DEF IInv, LatestKept, OnlyPacedWaits, SourceListens
<1>8. (ActorListens /\ ActorCurrent)'
  BY DEF IInv, ActorListens, ActorCurrent
<1>9. InOrder'
  BY <1>3, DiscardKeepsOrder
<1> QED
  BY <1>4, <1>5, <1>6, <1>7, <1>8, <1>9 DEF IInv

------------------------------------------------------------------------------
(* The actor, and the delivery of values                                   *)

\* What the actor does leaves the source alone, and the value it has.
LEMMA ActorKeepsSource ==
    ASSUME IInv, UNCHANGED <<sourceVars, channel, value>>
    PROVE  /\ SourceTypeOK'
           /\ (StoppedSource /\ SourceListens /\ ToldInOrder /\ OnlyPacedWaits)'
           /\ (SourceCurrent /\ LatestKept)'
           /\ InOrder'
<1> USE DEF sourceVars
<1>1. SourceTypeOK'
  BY DEF IInv, TypeOK, SourceTypeOK
<1>2. (StoppedSource /\ SourceListens /\ ToldInOrder /\ OnlyPacedWaits)'
  BY DEF IInv, StoppedSource, SourceListens, ToldInOrder, OnlyPacedWaits
<1>3. (SourceCurrent /\ LatestKept)'
  BY DEF IInv, SourceCurrent, LatestKept
<1>4. InOrder'
  BY DEF IInv, InOrder
<1> QED
  BY <1>1, <1>2, <1>3, <1>4

LEMMA ActorInvariant ==
    ASSUME IInv, ActorNext, UNCHANGED <<sourceVars, channel>>
    PROVE  IInv'
<1> USE DEF RegisterActor, ActorStarts, ActorStops, AssociateActor
<1>1. value' = value
  BY DEF ActorNext
<1>2. /\ actorStarted \in BOOLEAN /\ actorState \in BOOLEAN
      /\ actorRegistered \in BOOLEAN /\ actorAssociation \in BOOLEAN
  BY DEF IInv, TypeOK, ActorTypeOK
<1>3. /\ actorStarted' \in BOOLEAN /\ actorState' \in BOOLEAN
      /\ actorRegistered' \in BOOLEAN /\ actorAssociation' \in BOOLEAN
  BY <1>2 DEF ActorNext, StateDispatched
<1>4. /\ stateListeners' \in 0 .. 2 /\ valueListeners' \in 0 .. 2
      /\ ActorListens' /\ ActorCurrent'
  <2>1. /\ stateListeners \in 0 .. 2 /\ valueListeners \in 0 .. 2
        /\ stateListeners > 0 => actorRegistered
    BY DEF IInv, TypeOK, ActorTypeOK, ActorListens
  <2>2. CASE RegisterActor
    BY <1>2, <2>1, <2>2 DEF IInv, ActorListens, ActorCurrent
  <2>3. CASE ActorStarts
    <3>1. ~actorState /\ stateListeners <= 1 /\ valueListeners <= 1
      BY <2>3 DEF IInv, ActorListens
    <3>2. CASE actorRegistered
      <4>1. stateListeners' = stateListeners + 1 /\ valueListeners' = valueListeners + 1
        BY <2>3, <3>2 DEF ValuesObserved
      <4>2. stateListeners' \in 1 .. 2 /\ valueListeners' \in 1 .. 2
        BY <2>1, <3>1, <4>1
      <4>3. actorStarted' /\ actorRegistered' /\ actorAssociation' = FALSE /\ actorState' = FALSE
        BY <1>2, <2>3, <3>1, <3>2
      <4>4. stateListeners' > 0 /\ valueListeners' > 0
        BY <4>2
      <4>5. ActorListens'
        BY <4>3, <4>4 DEF ActorListens
      <4>6. ActorCurrent'
        BY <4>3 DEF ActorCurrent
      <4> QED
        BY <4>2, <4>5, <4>6
    <3>3. CASE ~actorRegistered
      BY <1>2, <2>1, <2>3, <3>1, <3>3 DEF IInv, ActorListens, ActorCurrent
    <3> QED
      BY <3>2, <3>3
  <2>4. CASE ActorStops
    <3>1. stateListeners' = 0 /\ valueListeners' = 0 /\ ~actorStarted' /\ ~actorState'
      BY <2>4
    <3>2. actorRegistered' => ~actorAssociation'
      <4>1. CASE stateListeners > 0
        BY <2>4, <4>1 DEF StateDispatched
      <4>2. CASE ~(stateListeners > 0) /\ actorRegistered
        BY <2>1, <2>4, <4>2 DEF IInv, ActorListens
      <4> QED
        BY <1>2, <2>4, <4>1, <4>2
    <3> QED
      BY <1>3, <3>1, <3>2 DEF ActorListens, ActorCurrent
  <2>5. CASE AssociateActor
    BY <1>2, <2>1, <2>5 DEF IInv, ActorListens, ActorCurrent, StateDispatched
  <2> QED
    BY <2>2, <2>3, <2>4, <2>5 DEF ActorNext
<1>5. TypeOK'
  BY <1>1, <1>3, <1>4, ActorKeepsSource DEF IInv, TypeOK, ActorTypeOK
<1> QED
  BY <1>1, <1>4, <1>5, ActorKeepsSource DEF IInv

\* The first value on its way is not older than the one that the actor has.
LEMMA DeliverInvariant ==
    ASSUME IInv, Deliver
    PROVE  IInv' /\ value' >= value
<1> USE DEF Deliver, DispatchIoValue
<1>1. /\ channel \in Seq(Values) /\ Len(channel) \in Nat /\ Len(channel) > 0
      /\ \A i \in 1 .. Len(channel) : channel[i] \in Values /\ channel[i] \in Nat
      /\ value \in Nat /\ waiting \in Nat /\ offered \in Nat
  BY SourceAssumption, LenProperties, ElementOfSeq, EmptySeq
     DEF IInv, TypeOK, SourceTypeOK, ActorTypeOK, Values
<1>2. /\ channel' \in Seq(Values) /\ Len(channel') = Len(channel) - 1
      /\ \A i \in 1 .. Len(channel') : channel'[i] = channel[i + 1]
      /\ Head(channel) = channel[1] /\ Head(channel) \in Values
  BY <1>1, HeadTailProperties
<1>3. value' \in {value, Head(channel)}
  OBVIOUS
<1>4. value <= Head(channel) /\ Head(channel) <= offered
  BY <1>1, <1>2 DEF IInv, InOrder
<1>5. value' >= value /\ value' \in Nat
  BY <1>1, <1>2, <1>3, <1>4
<1>6. lost' \subseteq Values
  BY <1>2 DEF IInv, TypeOK, SourceTypeOK
<1>7. TypeOK'
  BY <1>2, <1>5, <1>6 DEF IInv, TypeOK, SourceTypeOK, ActorTypeOK
<1>8. (StoppedSource /\ SourceListens /\ ToldInOrder /\ OnlyPacedWaits)'
  BY DEF IInv, StoppedSource, SourceListens, ToldInOrder, OnlyPacedWaits
<1>9. SourceCurrent'
  BY DEF IInv, SourceCurrent
<1>10. LatestKept'
  <2>1. channel' # << >> => channel'[Len(channel')] = channel[Len(channel)]
    BY <1>1, <1>2, LenProperties
  <2> QED
    BY <1>1, <2>1 DEF IInv, LatestKept
<1>11. (ActorListens /\ ActorCurrent)'
  BY DEF IInv, ActorListens, ActorCurrent
<1>12. InOrder'
  <2>1. \A i \in 1 .. Len(channel') : i + 1 \in 1 .. Len(channel) /\ 1 < i + 1
    BY <1>1, <1>2
  <2>2. \A i \in 1 .. Len(channel') : channel[1] < channel'[i]
    BY <1>1, <1>2, <2>1 DEF IInv, InOrder
  <2>3. \A i \in 1 .. Len(channel') :
           channel'[i] >= value' /\ channel'[i] <= offered /\ (waiting # 0 => channel'[i] < waiting)
    BY <1>1, <1>2, <1>3, <2>1, <2>2 DEF IInv, InOrder
  <2>4. \A i, j \in 1 .. Len(channel') : i < j => channel'[i] < channel'[j]
    BY <1>1, <1>2, <2>1 DEF IInv, InOrder
  <2>5. value' <= offered /\ (waiting # 0 => value' < waiting)
    BY <1>1, <1>2, <1>3, <1>4 DEF IInv, InOrder
  <2> QED
    BY <2>3, <2>4, <2>5 DEF IInv, InOrder
<1> QED
  BY <1>5, <1>7, <1>8, <1>9, <1>10, <1>11, <1>12 DEF IInv

------------------------------------------------------------------------------
(* The theorems                                                            *)

\* The invariant is inductive, and no step gives the actor an older value.
LEMMA Step ==
    ASSUME IInv, [Next]_vars
    PROVE  IInv' /\ value' >= value
<1>1. value \in Nat
  BY DEF IInv, TypeOK, ActorTypeOK
<1>2. CASE Source
  <2>1. value' = value
    BY <1>2 DEF Source, actorVars
  <2>2. IInv'
    BY <1>2, RegisterSourceInvariant, PublishValueInvariant, TimerElapsesInvariant,
       ObserversReturnInvariant, SourceStartsInvariant, SourceStopsInvariant,
       AssociateSourceInvariant DEF Source, SourceNext
  <2> QED
    BY <1>1, <2>1, <2>2
<1>3. CASE Actor
  <2>1. value' = value
    BY <1>3 DEF Actor, ActorNext, RegisterActor, ActorStarts, ActorStops, AssociateActor
  <2> QED
    BY <1>1, <1>3, <2>1, ActorInvariant DEF Actor
<1>4. CASE Deliver
  BY <1>4, DeliverInvariant
<1>5. CASE UNCHANGED vars
  <2>1. UNCHANGED <<sourceVars, channel, value>> /\ UNCHANGED actorVars
    BY <1>5 DEF vars, actorVars
  <2>2. ActorTypeOK' /\ (ActorListens /\ ActorCurrent)'
    BY <2>1 DEF actorVars, IInv, TypeOK, ActorTypeOK, ActorListens, ActorCurrent
  <2> QED
    BY <1>1, <2>1, <2>2, ActorKeepsSource DEF IInv, TypeOK
<1> QED
  BY <1>2, <1>3, <1>4, <1>5 DEF Next

LEMMA PointsInvariant == Spec => []IInv
<1>1. IInv /\ [Next]_vars => IInv'
  BY Step
<1> QED
  BY InitInvariant, <1>1, PTL DEF Spec

\* What observers of an IO source and an IO actor are told is the state of the
\* association, and the last value given to a source is published or waits to
\* be, whatever the agents' managers, the routers and observers do and in
\* whatever order (io-source-controller.ts:163-232, io-actor-controller.ts:99-151).
THEOREM EndsAreCurrent == Spec => []EndsCurrent
<1>1. IInv => EndsCurrent
  BY DEF IInv, EndsCurrent
<1> QED
  BY <1>1, PointsInvariant, PTL

\* An IO actor never gets an older value after a newer one, for any number of
\* values and rates: at each time the value it has, the values on the route
\* and the value that waits are numbered in increasing order.
THEOREM ValuesStayInOrder == Spec => ValuesInOrder
<1>1. IInv /\ [Next]_vars => [value' >= value]_vars
  BY Step
<1> QED
  BY <1>1, PointsInvariant, PTL DEF Spec, ValuesInOrder

==============================================================================

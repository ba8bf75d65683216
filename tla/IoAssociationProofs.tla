------------------------- MODULE IoAssociationProofs -------------------------
(***************************************************************************)
(* Proofs about IoAssociation for any set of IO points, routes and rates.  *)
(* The inductive invariant is the conjunction of the type invariant, the   *)
(* four properties, and the fact that an entry without actors is deleted,  *)
(* which the reported IO state of a source rests on: routes are subscribed *)
(* as recorded because the first lemma says which routes run empty, and    *)
(* both ends of a local association agree because a route change clears    *)
(* the previous route.                                                     *)
(***************************************************************************)
EXTENDS IoAssociation, TLAPS

\* An entry of _ioSourceItems is deleted together with its last actor.
EntriesUsed ==
    \A s \in LocalSources : ioSourceItems[s].actors = {} => ioSourceItems[s] = NoItems

IInv ==
    /\ TypeOK
    /\ RoutesSubscribed
    /\ OneRoutePerPair
    /\ LocalEndsAgree
    /\ EntriesUsed
    /\ SourceStateCurrent

\* What _disassociateIoActorItems leaves behind: a route is still in use
\* afterwards if and only if it was before and has not been unsubscribed.
LEMMA RouteInUse ==
    ASSUME NEW items, items \subseteq Routes \X LocalActors \X Sources,
           NEW source \in Sources, NEW actors, NEW routes, NEW r \in Routes
    PROVE  HasRoute(Removed(items, source, actors, routes), r)
           <=> HasRoute(items, r) /\ r \notin Unsubscribed(items, source, actors, routes)
<1> DEFINE left == Removed(items, source, actors, routes)
<1>1. HasRoute(left, r) => HasRoute(items, r)
  BY DEF HasRoute, HasEntry, Removed
<1>2. HasRoute(left, r) => r \notin Unsubscribed(items, source, actors, routes)
  BY DEF Unsubscribed
<1>3. ASSUME HasRoute(items, r), r \notin Unsubscribed(items, source, actors, routes)
      PROVE  HasRoute(left, r)
  <2>1. SUFFICES ASSUME ~HasRoute(left, r) PROVE FALSE
    OBVIOUS
  <2>2. PICK a \in LocalActors, s \in Sources : <<r, a, s>> \in items
    BY <1>3 DEF HasRoute, HasEntry
  <2>3. <<r, a, s>> \notin left
    BY <2>1, <2>2 DEF HasRoute, HasEntry
  <2>4. r \in routes /\ a \in actors
    BY <2>2, <2>3 DEF Removed
  <2>5. HasEntry(items, r, a)
    BY <2>2 DEF HasEntry
  <2> QED
    BY <1>3, <2>1, <2>4, <2>5 DEF Unsubscribed
<1> QED
  BY <1>1, <1>2, <1>3

LEMMA InitInvariant == Init => IInv
  BY DEF Init, IInv, TypeOK, SourceItems, NoItems, IoState, Disassociated,
         RoutesSubscribed, OneRoutePerPair, LocalEndsAgree, HasRoute, HasEntry,
         EntriesUsed, SourceStateCurrent

\* The relation that HandleAssociate leaves, before it adds the new pair.
Kept(e) ==
    Removed(Removed(ioActorItems, e.ioSourceId, ActorsLeaving(e), PreviousRoute(e)),
            e.ioSourceId, {e.ioActorId}, StaleRoutes(e))

\* The types of what an Associate event says.
LEMMA EventType ==
    ASSUME NEW e \in AssociateEvents
    PROVE  /\ e.ioSourceId \in Sources
           /\ e.ioActorId \in Actors
           /\ e.associatingRoute \in Routes \cup {NoRoute}
           /\ e.updateRate \in Rates \cup {NoRate}
  BY DEF AssociateEvents

\* A handled Associate event adds at most one triple to the kept ones.
LEMMA NewItemsType ==
    ASSUME NEW e \in AssociateEvents
    PROVE  /\ NewItems(e) \subseteq Routes \X LocalActors \X Sources
           /\ NewItems(e) \subseteq {<<e.associatingRoute, e.ioActorId, e.ioSourceId>>}
  BY EventType DEF NewItems

\* The type invariant is preserved when an Associate event is handled.
LEMMA HandleAssociateType ==
    ASSUME TypeOK, NEW e \in AssociateEvents, HandleAssociate(e)
    PROVE  TypeOK'
<1>1. started' \in BOOLEAN /\ observed' \subseteq LocalPoints
  BY DEF TypeOK, HandleAssociate
<1>2. ioSourceItems' \in [LocalSources -> SourceItems]
  <2>1. ASSUME NEW items \in SourceItems
        PROVE  UpdatedSourceItems(items, e) \in SourceItems
    BY <2>1, EventType DEF UpdatedSourceItems, SourceItems, NoItems
  <2> QED
    BY <2>1 DEF TypeOK, HandleAssociate
<1>3. ioActorItems' \subseteq Routes \X LocalActors \X Sources
  BY NewItemsType DEF TypeOK, HandleAssociate, Removed
<1>4. subscribed' \subseteq Routes
  BY DEF TypeOK, HandleAssociate
<1>5. ioState' \in [LocalPoints -> IoState]
  <2>1. ASSUME NEW items \in SourceItems
        PROVE  SourceState(items) \in IoState
    BY <2>1 DEF SourceItems, SourceState, IoState
  <2>2. ASSUME NEW items
        PROVE  ActorState(items, e) \in IoState
    BY DEF ActorState, IoState, HasEntry
  <2>3. ASSUME NEW p \in LocalPoints, p = e.ioSourceId, p \notin LocalSources
        PROVE  FALSE
    BY <2>3, EventType, PointsAssumption DEF LocalPoints
  <2> QED
    BY <1>2, <2>1, <2>2, <2>3 DEF TypeOK, HandleAssociate
<1>6. routed' \subseteq Sources \X Actors
  BY EventType DEF TypeOK, HandleAssociate, Route
<1> QED
  BY <1>1, <1>2, <1>3, <1>4, <1>5, <1>6 DEF TypeOK

\* Routes stay subscribed as recorded when an Associate event is handled.
LEMMA HandleAssociateRoutes ==
    ASSUME IInv, NEW e \in AssociateEvents, HandleAssociate(e)
    PROVE  RoutesSubscribed'
<1> DEFINE s      == e.ioSourceId
           a      == e.ioActorId
           left   == Removed(ioActorItems, s, ActorsLeaving(e), PreviousRoute(e))
           unsub1 == Unsubscribed(ioActorItems, s, ActorsLeaving(e), PreviousRoute(e))
           unsub2 == Unsubscribed(left, s, {a}, StaleRoutes(e))
<1>1. left \subseteq Routes \X LocalActors \X Sources
  BY DEF IInv, TypeOK, Removed
<1>2. \A r \in Routes : HasRoute(Kept(e), r) <=> r \in (subscribed \ unsub1) \ unsub2
  <2> TAKE r \in Routes
  <2>1. HasRoute(left, r) <=> HasRoute(ioActorItems, r) /\ r \notin unsub1
    BY RouteInUse, EventType DEF IInv, TypeOK
  <2>2. HasRoute(Kept(e), r) <=> HasRoute(left, r) /\ r \notin unsub2
    BY <1>1, RouteInUse, EventType DEF Kept
  <2> QED
    BY <2>1, <2>2 DEF IInv, RoutesSubscribed
<1>3. ioActorItems' = Kept(e) \cup NewItems(e)
  BY DEF HandleAssociate, Kept
<1>4. subscribed' = ((subscribed \ unsub1) \ unsub2)
                    \cup {r \in Routes : ~HasRoute(Kept(e), r) /\ <<r, a, s>> \in NewItems(e)}
  BY DEF HandleAssociate, Kept
<1>5. \A r \in Routes : HasRoute(ioActorItems', r)
                        <=> HasRoute(Kept(e), r) \/ <<r, a, s>> \in NewItems(e)
  <2> TAKE r \in Routes
  <2>1. HasRoute(Kept(e), r) => HasRoute(ioActorItems', r)
    BY <1>3 DEF HasRoute, HasEntry
  <2>2. <<r, a, s>> \in NewItems(e) => HasRoute(ioActorItems', r)
    BY <1>3, NewItemsType DEF HasRoute, HasEntry
  <2>3. ASSUME HasRoute(ioActorItems', r), ~HasRoute(Kept(e), r)
        PROVE  <<r, a, s>> \in NewItems(e)
    <3>1. PICK b \in LocalActors, t \in Sources : <<r, b, t>> \in ioActorItems'
      BY <2>3 DEF HasRoute, HasEntry
    <3>2. <<r, b, t>> \in NewItems(e)
      BY <1>3, <2>3, <3>1 DEF HasRoute, HasEntry
    <3> QED
      BY <3>2, NewItemsType
  <2> QED
    BY <2>1, <2>2, <2>3
<1>6. subscribed' \subseteq Routes
  BY HandleAssociateType DEF IInv, TypeOK
<1>7. \A r \in Routes : r \in subscribed' <=> HasRoute(ioActorItems', r)
  BY <1>2, <1>4, <1>5
<1>8. subscribed' = {r \in Routes : HasRoute(ioActorItems', r)}
  BY <1>6, <1>7
<1> QED
  BY <1>8 DEF RoutesSubscribed, HasRoute, HasEntry

\* Which triples are there after an Associate event: those of other pairs
\* that have not been left behind, and the new one.
LEMMA HandleAssociateItems ==
    ASSUME IInv, NEW e \in AssociateEvents, HandleAssociate(e),
           NEW r \in Routes, NEW b \in LocalActors, NEW t \in Sources
    PROVE  <<r, b, t>> \in ioActorItems' <=>
              \/ /\ <<r, b, t>> \in ioActorItems
                 /\ ~(t = e.ioSourceId /\ b \in ActorsLeaving(e) /\ r \in PreviousRoute(e))
                 /\ ~(t = e.ioSourceId /\ b = e.ioActorId /\ r # e.associatingRoute)
              \/ r = e.associatingRoute /\ b = e.ioActorId /\ t = e.ioSourceId
<1>1. ioActorItems' = Kept(e) \cup NewItems(e)
  BY DEF HandleAssociate, Kept
<1>2. <<r, b, t>> \in Kept(e) <=>
              /\ <<r, b, t>> \in ioActorItems
              /\ ~(t = e.ioSourceId /\ b \in ActorsLeaving(e) /\ r \in PreviousRoute(e))
              /\ ~(t = e.ioSourceId /\ b = e.ioActorId /\ r # e.associatingRoute)
  BY DEF Kept, Removed, StaleRoutes
<1>3. <<r, b, t>> \in NewItems(e) <=>
              r = e.associatingRoute /\ b = e.ioActorId /\ t = e.ioSourceId
  BY UndefinedAssumption DEF NewItems
<1> QED
  BY <1>1, <1>2, <1>3

\* A pair stays on one route when an Associate event is handled.
LEMMA HandleAssociatePairs ==
    ASSUME IInv, NEW e \in AssociateEvents, HandleAssociate(e)
    PROVE  OneRoutePerPair'
<1> SUFFICES ASSUME NEW r1 \in Routes, NEW r2 \in Routes,
                    NEW a \in LocalActors, NEW s \in Sources,
                    <<r1, a, s>> \in ioActorItems', <<r2, a, s>> \in ioActorItems'
             PROVE  r1 = r2
  BY DEF OneRoutePerPair
<1> QED
  BY HandleAssociateItems DEF IInv, OneRoutePerPair

\* Local sources and actors keep agreeing when an Associate event is handled.
LEMMA HandleAssociateEnds ==
    ASSUME IInv, NEW e \in AssociateEvents, HandleAssociate(e)
    PROVE  LocalEndsAgree'
<1> SUFFICES ASSUME NEW s \in LocalSources, NEW a \in LocalActors, NEW r \in Routes
             PROVE  <<r, a, s>> \in ioActorItems' <=>
                       ioSourceItems'[s].route = r /\ a \in ioSourceItems'[s].actors
  BY DEF LocalEndsAgree
<1>0. /\ s \in Sources
      /\ ioSourceItems[s] \in SourceItems
      /\ ioSourceItems'[s] = IF s = e.ioSourceId
                             THEN UpdatedSourceItems(ioSourceItems[s], e)
                             ELSE ioSourceItems[s]
  BY PointsAssumption DEF IInv, TypeOK, HandleAssociate
<1>1. <<r, a, s>> \in ioActorItems <=>
          ioSourceItems[s].route = r /\ a \in ioSourceItems[s].actors
  BY DEF IInv, LocalEndsAgree
<1>2. CASE s # e.ioSourceId
  BY <1>0, <1>1, <1>2, HandleAssociateItems
<1>3. CASE s = e.ioSourceId /\ e.associatingRoute = NoRoute
  <2>1. ActorsLeaving(e) = {}
    BY <1>3 DEF ActorsLeaving
  <2>2. <<r, a, s>> \in ioActorItems' <=>
            <<r, a, s>> \in ioActorItems /\ a # e.ioActorId
    BY <1>0, <1>3, <2>1, UndefinedAssumption, HandleAssociateItems
  <2>3. CASE ioSourceItems[s].actors \subseteq {e.ioActorId}
    <3>1. ioSourceItems'[s] = NoItems
      BY <1>0, <1>3, <2>3 DEF UpdatedSourceItems
    <3> QED
      BY <1>1, <2>2, <2>3, <3>1, UndefinedAssumption DEF NoItems
  <2>4. CASE ~(ioSourceItems[s].actors \subseteq {e.ioActorId})
    <3>1. /\ ioSourceItems'[s].route = ioSourceItems[s].route
          /\ ioSourceItems'[s].actors = ioSourceItems[s].actors \ {e.ioActorId}
      BY <1>0, <1>3, <2>4 DEF UpdatedSourceItems, SourceItems
    <3> QED
      BY <1>1, <2>2, <3>1
  <2> QED
    BY <2>3, <2>4
<1>4. CASE s = e.ioSourceId /\ e.associatingRoute # NoRoute
  <2>1. /\ ioSourceItems'[s].route = e.associatingRoute
        /\ ioSourceItems'[s].actors =
              IF ioSourceItems[s].route = e.associatingRoute
              THEN ioSourceItems[s].actors \cup {e.ioActorId} ELSE {e.ioActorId}
    BY <1>0, <1>4 DEF UpdatedSourceItems
  <2>2. CASE ioSourceItems[s].route = e.associatingRoute
    <3>1. ActorsLeaving(e) = {}
      BY <1>4, <2>2 DEF ActorsLeaving
    <3> QED
      BY <1>0, <1>1, <1>4, <2>1, <2>2, <3>1, HandleAssociateItems
  <2>3. CASE ioSourceItems[s].route # e.associatingRoute
    <3>1. <<r, a, s>> \in ioActorItems =>
              a \in ActorsLeaving(e) /\ r \in PreviousRoute(e)
      BY <1>1, <1>4, <2>3, UndefinedAssumption DEF ActorsLeaving, PreviousRoute, NoItems
    <3>2. <<r, a, s>> \in ioActorItems' <=> r = e.associatingRoute /\ a = e.ioActorId
      BY <1>0, <1>4, <3>1, HandleAssociateItems
    <3> QED
      BY <2>1, <2>3, <3>2
  <2> QED
    BY <2>2, <2>3
<1> QED
  BY <1>2, <1>3, <1>4

\* What the IO state of a source says, as fields.
LEMMA SourceStateFields ==
    ASSUME NEW items
    PROVE  /\ SourceState(items).hasAssociations = (items # NoItems)
           /\ SourceState(items).updateRate = items.rate
  BY DEF SourceState

\* The IO state reported for a source stays current when an Associate event
\* is handled, and so does the rule that no entry is without actors.
LEMMA HandleAssociateSource ==
    ASSUME IInv, NEW e \in AssociateEvents, HandleAssociate(e)
    PROVE  EntriesUsed' /\ SourceStateCurrent'
<1>1. ASSUME NEW s \in LocalSources
      PROVE  /\ ioSourceItems[s] \in SourceItems
             /\ ioSourceItems'[s] = IF s = e.ioSourceId
                                    THEN UpdatedSourceItems(ioSourceItems[s], e)
                                    ELSE ioSourceItems[s]
  BY <1>1 DEF IInv, TypeOK, HandleAssociate
<1>2. ASSUME NEW s \in LocalSources, ioSourceItems'[s].actors = {}
      PROVE  ioSourceItems'[s] = NoItems
  <2>1. CASE s # e.ioSourceId
    BY <1>1, <1>2, <2>1 DEF IInv, EntriesUsed
  <2>2. CASE s = e.ioSourceId
    <3>1. ioSourceItems'[s] = UpdatedSourceItems(ioSourceItems[s], e)
      BY <1>1, <1>2, <2>2
    <3>2. UpdatedSourceItems(ioSourceItems[s], e).actors = {}
      BY <1>2, <3>1
    <3>3. e.associatingRoute = NoRoute
      BY <3>2 DEF UpdatedSourceItems
    <3>4. ioSourceItems[s].actors \subseteq {e.ioActorId}
      BY <3>2, <3>3 DEF UpdatedSourceItems
    <3> QED
      BY <3>1, <3>3, <3>4 DEF UpdatedSourceItems
  <2> QED
    BY <2>1, <2>2
<1>3. ASSUME NEW s \in observed' \cap LocalSources
      PROVE  /\ ioState'[s].hasAssociations <=> ioSourceItems'[s].actors # {}
             /\ ioState'[s].updateRate = ioSourceItems'[s].rate
  <2>1. /\ s \in observed
        /\ s \in LocalPoints
        /\ s # e.ioActorId
    BY <1>3, EventType, PointsAssumption DEF HandleAssociate, LocalPoints
  <2>2. CASE s = e.ioSourceId
    <3>1. ioState'[s] = SourceState(ioSourceItems'[s])
      BY <2>1, <2>2 DEF HandleAssociate
    <3>2. ioSourceItems'[s] # NoItems <=> ioSourceItems'[s].actors # {}
      BY <1>2, <1>3 DEF NoItems
    <3> QED
      BY <3>1, <3>2, SourceStateFields
  <2>3. CASE s # e.ioSourceId
    <3>1. ioState'[s] = ioState[s]
      BY <2>1, <2>3 DEF HandleAssociate
    <3> QED
      BY <1>1, <1>3, <2>1, <2>3, <3>1 DEF IInv, SourceStateCurrent
  <2> QED
    BY <2>2, <2>3
<1> QED
  BY <1>2, <1>3 DEF EntriesUsed, SourceStateCurrent

\* Every step preserves the inductive invariant.
LEMMA NextInvariant == IInv /\ [Next]_vars => IInv'
<1> SUFFICES ASSUME IInv, [Next]_vars PROVE IInv'
  OBVIOUS
<1>1. ASSUME NEW e \in AssociateEvents, HandleAssociate(e) PROVE IInv'
  BY <1>1, HandleAssociateType, HandleAssociateRoutes, HandleAssociatePairs,
     HandleAssociateEnds, HandleAssociateSource DEF IInv
<1>2. ASSUME NEW e \in AssociateEvents, IgnoreAssociate(e) PROVE IInv'
  <2>1. routed' \subseteq Sources \X Actors
    BY <1>2, EventType DEF IInv, TypeOK, IgnoreAssociate, Route
  <2> QED
    BY <1>2, <2>1 DEF IInv, TypeOK, IgnoreAssociate, RoutesSubscribed,
       OneRoutePerPair, LocalEndsAgree, HasRoute, HasEntry, EntriesUsed,
       SourceStateCurrent
<1>3. ASSUME NEW p \in LocalPoints, ObserveIoState(p) PROVE IInv'
  <2>1. ioState' \in [LocalPoints -> IoState]
    <3>1. p \in LocalSources => SourceState(ioSourceItems[p]) \in IoState
      BY DEF IInv, TypeOK, SourceItems, SourceState, IoState
    <3> QED
      BY <1>3, <3>1 DEF IInv, TypeOK, ObserveIoState, IoState, HasEntry
  <2>2. ASSUME NEW s \in observed' \cap LocalSources
        PROVE  /\ ioState'[s].hasAssociations <=> ioSourceItems'[s].actors # {}
               /\ ioState'[s].updateRate = ioSourceItems'[s].rate
    <3>1. ioSourceItems[s] # NoItems <=> ioSourceItems[s].actors # {}
      BY <2>2 DEF IInv, EntriesUsed, NoItems
    <3>2. CASE s = p
      <4>1. ioState'[s] = SourceState(ioSourceItems[s])
        BY <1>3, <2>2, <3>2 DEF IInv, TypeOK, ObserveIoState
      <4> QED
        BY <1>3, <3>1, <4>1, SourceStateFields DEF ObserveIoState
    <3>3. CASE s # p
      BY <1>3, <2>2, <3>3 DEF IInv, TypeOK, ObserveIoState, SourceStateCurrent,
         LocalPoints
    <3> QED
      BY <3>2, <3>3
  <2>3. SourceStateCurrent'
    BY <2>2 DEF SourceStateCurrent
  <2> QED
    BY <1>3, <2>1, <2>3 DEF IInv, TypeOK, ObserveIoState, RoutesSubscribed,
       OneRoutePerPair, LocalEndsAgree, HasRoute, HasEntry, EntriesUsed
<1>4. ASSUME Stop PROVE IInv'
  <2>1. TypeOK'
    BY <1>4 DEF IInv, TypeOK, Stop, SourceItems, NoItems, IoState, Disassociated
  <2>2. subscribed' = {}
    BY <1>4 DEF IInv, RoutesSubscribed, Stop
  <2>3. RoutesSubscribed'
    BY <1>4, <2>2 DEF Stop, RoutesSubscribed, HasRoute, HasEntry
  <2> QED
    BY <1>4, <2>1, <2>3, UndefinedAssumption
    DEF IInv, Stop, OneRoutePerPair, LocalEndsAgree, NoItems, EntriesUsed,
        SourceStateCurrent
<1>5. ASSUME Start PROVE IInv'
  BY <1>5 DEF IInv, TypeOK, Start, RoutesSubscribed, OneRoutePerPair,
     LocalEndsAgree, HasRoute, HasEntry, EntriesUsed, SourceStateCurrent
<1>6. ASSUME UNCHANGED vars PROVE IInv'
  BY <1>6 DEF vars, IInv, TypeOK, RoutesSubscribed, OneRoutePerPair,
     LocalEndsAgree, HasRoute, HasEntry, EntriesUsed, SourceStateCurrent
<1> QED
  BY <1>1, <1>2, <1>3, <1>4, <1>5, <1>6 DEF Next

LEMMA Invariance == Spec => []IInv
<1> QED
  BY InitInvariant, NextInvariant, PTL DEF Spec

\* The bookkeeping of IO associations is type-correct.
THEOREM TypeCorrect == Spec => []TypeOK
<1>1. IInv => TypeOK
  BY DEF IInv
<1> QED
  BY Invariance, <1>1, PTL

\* The IO routes subscribed on the binding are always those on which a local
\* actor is associated, for any IO points and any order of events.
THEOREM RoutesAreSubscribed == Spec => []RoutesSubscribed
<1>1. IInv => RoutesSubscribed
  BY DEF IInv
<1> QED
  BY Invariance, <1>1, PTL

\* No actor is associated with a source on two routes.
THEOREM PairsHaveOneRoute == Spec => []OneRoutePerPair
<1>1. IInv => OneRoutePerPair
  BY DEF IInv
<1> QED
  BY Invariance, <1>1, PTL

\* Route changes, associations and disassociations in any order keep the
\* subscribed routes and the associations consistent.
THEOREM AssociationsAreConsistent == Spec => []AssociationsConsistent
<1> QED
  BY TypeCorrect, RoutesAreSubscribed, PairsHaveOneRoute, PTL DEF AssociationsConsistent

\* A local source and a local actor agree on their association.
THEOREM LocalEndsAlwaysAgree == Spec => []LocalEndsAgree
<1>1. IInv => LocalEndsAgree
  BY DEF IInv
<1> QED
  BY Invariance, <1>1, PTL

\* The IO state last reported for a source says whether it has associated
\* actors and at which rate they want its values.
THEOREM SourceStateIsCurrent == Spec => []SourceStateCurrent
<1>1. IInv => SourceStateCurrent
  BY DEF IInv
<1> QED
  BY Invariance, <1>1, PTL
==============================================================================

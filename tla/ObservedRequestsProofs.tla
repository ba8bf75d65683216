----------------------- MODULE ObservedRequestsProofs -----------------------
(***************************************************************************)
(* Proofs about observing inbound events, for any number of subscribers    *)
(* and observables.                                                        *)
(***************************************************************************)
EXTENDS ObservedRequests, SequenceTheorems, TLAPS

------------------------------------------------------------------------------
(* The inductive invariant                                                 *)

\* Each subscriber is in one place.
SubscribersDistinct ==
    \A k, l \in Items :
        \A i \in 1 .. Len(subscribers[k]), j \in 1 .. Len(subscribers[l]) :
            subscribers[k][i] = subscribers[l][j] => k = l /\ i = j

\* Only the observable that is mapped has subscribers.
MappedOnly ==
    /\ mapped # NoItem => mapped \in cleanup
    /\ \A k \in Items : subscribers[k] # << >> => k = mapped

RegistryInv == TypeOK /\ SubscribersDistinct /\ MappedOnly /\ SubscribedWhileMapped

\* The subscribers of the item being dispatched that have not been called are
\* the ones up to the index, and the running one is not among them.
LoopFits ==
    /\ loop.item = NoItem => loop = Idle
    /\ loop.item <= created
    /\ loop.item = mapped /\ loop.item # NoItem => loop.index <= Len(subscribers[loop.item])
    /\ loop.item # NoItem =>
          \A i \in 1 .. Len(subscribers[loop.item]) :
              /\ i <= loop.index => delivered[subscribers[loop.item][i]] = 0
              /\ subscribers[loop.item][i] \in loop.running => loop.index < i

\* Whoever was subscribed when the dispatch started has been called, is still
\* to be called, or has left.
NobodySkipped ==
    /\ \A s \in expecting : status[s] # "new"
    /\ \A s \in expecting :
          status[s] = "open" =>
              \/ delivered[s] = 1
              \/ /\ loop.item # NoItem
                 /\ \E i \in 1 .. Len(subscribers[loop.item]) :
                        i <= loop.index /\ subscribers[loop.item][i] = s

LoopInv == RegistryInv /\ LoopFits /\ NobodySkipped /\ DeliveredAtMostOnce

------------------------------------------------------------------------------
(* Arrays of subscribers                                                   *)

Open == {s \in Subscribers : status[s] = "open"}

\* What the type invariant says of each array.
LEMMA ArrayTypes ==
    ASSUME TypeOK, NEW k \in Items
    PROVE  /\ subscribers[k] \in Seq(Open) /\ Len(subscribers[k]) \in Nat
           /\ DOMAIN subscribers[k] = 1 .. Len(subscribers[k])
           /\ \A i \in 1 .. Len(subscribers[k]) :
                 /\ subscribers[k][i] \in Subscribers /\ status[subscribers[k][i]] = "open"
                 /\ subscribers[k][i] \in Range(subscribers[k])
           /\ \A s \in Range(subscribers[k]) : \E i \in 1 .. Len(subscribers[k]) : subscribers[k][i] = s
           /\ subscribers[k] = << >> <=> Len(subscribers[k]) = 0
<1>1. subscribers[k] \in Seq(Open)
  BY DEF TypeOK, Open
<1>2. Len(subscribers[k]) \in Nat /\ DOMAIN subscribers[k] = 1 .. Len(subscribers[k])
  BY <1>1, LenProperties
<1>3. \A i \in 1 .. Len(subscribers[k]) : subscribers[k][i] \in Open
  BY <1>1, ElementOfSeq
<1>4. subscribers[k] = << >> <=> Len(subscribers[k]) = 0
  BY <1>1, <1>2, EmptySeq
<1> QED
  BY <1>1, <1>2, <1>3, <1>4 DEF Range, Open

\* A subscriber that is removed leaves the others in their order: each keeps
\* its index or, behind the one that is removed, moves up by one.
LEMMA RemovedProperties ==
    ASSUME TypeOK, SubscribersDistinct, NEW k \in Items,
           NEW n \in 1 .. Len(subscribers[k]), NEW T, Open \ {subscribers[k][n]} \subseteq T
    PROVE  /\ SubscribersRemoved(k, subscribers[k][n]) \in Seq(T)
           /\ Len(SubscribersRemoved(k, subscribers[k][n])) = Len(subscribers[k]) - 1
           /\ \A i \in 1 .. Len(subscribers[k]) - 1 :
                 SubscribersRemoved(k, subscribers[k][n])[i]
                 = IF i < n THEN subscribers[k][i] ELSE subscribers[k][i + 1]
<1> DEFINE q == subscribers[k]
           rest == [i \in 1 .. Len(q) - 1 |-> IF i < n THEN q[i] ELSE q[i + 1]]
<1>1. /\ Len(q) \in Nat /\ DOMAIN q = 1 .. Len(q) /\ Len(q) - 1 \in Nat
      /\ \A i \in 1 .. Len(q) : q[i] \in Open
      /\ \A i \in 1 .. Len(q) : q[i] = q[n] => i = n
  <2>1. Len(q) \in Nat /\ DOMAIN q = 1 .. Len(q) /\ \A i \in 1 .. Len(q) : q[i] \in Open
    BY ArrayTypes, ElementOfSeq
  <2>2. Len(q) - 1 \in Nat
    BY <2>1
  <2>3. \A i \in 1 .. Len(q) : q[i] = q[n] => i = n
    BY DEF SubscribersDistinct
  <2> QED
    BY <2>1, <2>2, <2>3
<1>2. (CHOOSE i \in DOMAIN q : q[i] = q[n]) = n
  BY <1>1
<1>3. SubscribersRemoved(k, q[n]) = rest
  BY <1>2 DEF SubscribersRemoved
<1>4. \A i \in 1 .. Len(q) - 1 : rest[i] \in T
  <2> SUFFICES ASSUME NEW i \in 1 .. Len(q) - 1 PROVE rest[i] \in T
    OBVIOUS
  <2>1. i \in 1 .. Len(q) /\ i + 1 \in 1 .. Len(q)
    BY <1>1
  <2>2. CASE i < n
    BY <1>1, <2>1, <2>2
  <2>3. CASE ~(i < n)
    <3>1. i + 1 # n
      BY <1>1, <2>3
    <3> QED
      BY <1>1, <2>1, <2>3, <3>1
  <2> QED
    BY <2>2, <2>3
<1>5. rest \in [1 .. Len(q) - 1 -> T]
  BY <1>4
<1>6. rest \in Seq(T) /\ Len(rest) = Len(q) - 1
  BY <1>1, <1>5
<1> QED
  BY <1>3, <1>6

------------------------------------------------------------------------------
(* The registry                                                            *)

LEMMA InitInvariant == Init => LoopInv
<1> SUFFICES ASSUME Init PROVE LoopInv
  OBVIOUS
<1> USE DEF Init
<1>1. \A k \in Items : Len(subscribers[k]) = 0
  BY EmptySeq
<1>2. TypeOK
  <2>1. subscribers \in [Items -> Seq(Open)]
    BY EmptySeq
  <2>2. loop \in [item : Items \cup {NoItem}, index : Nat, running : SUBSET Subscribers]
    BY DEF Idle
  <2>3. created \in 0 .. MaxItems
    BY ParametersAssumption
  <2>4. bindingSub \in BOOLEAN
    OBVIOUS
  <2>5. delivered \in [Subscribers -> Nat] /\ status \in [Subscribers -> {"new", "open", "closed"}]
    OBVIOUS
  <2> QED
    BY <2>1, <2>2, <2>3, <2>4, <2>5 DEF TypeOK, Open
<1>3. SubscribersDistinct
  BY <1>1 DEF SubscribersDistinct
<1>4. MappedOnly /\ SubscribedWhileMapped
  BY DEF MappedOnly, SubscribedWhileMapped
<1>5. LoopFits /\ NobodySkipped
  BY DEF LoopFits, NobodySkipped, Idle, NoItem
<1>6. DeliveredAtMostOnce
  BY DEF DeliveredAtMostOnce
<1> QED
  BY <1>2, <1>3, <1>4, <1>5, <1>6 DEF LoopInv, RegistryInv

\* A new item is mapped, and does not have subscribers yet.
LEMMA ObserveRequestRegistry ==
    ASSUME RegistryInv, ObserveRequest
    PROVE  RegistryInv'
<1> USE DEF ObserveRequest, loopVars
<1>1. created' \in Items /\ created' = created + 1 /\ created \in Nat /\ created' \in 0 .. MaxItems
  BY ParametersAssumption DEF RegistryInv, TypeOK, Items
<1>2. 1 .. created \subseteq 1 .. created' /\ created' \in 1 .. created'
  BY <1>1
<1>3. TypeOK'
  <2>1. bindingSub' \in BOOLEAN
    OBVIOUS
  <2>2. fresh' \subseteq 1 .. created' /\ cleanup' \subseteq 1 .. created'
    BY <1>2 DEF RegistryInv, TypeOK
  <2> QED
    BY <1>1, <2>1, <2>2 DEF RegistryInv, TypeOK
<1>4. \A k \in Items : subscribers[k] = << >>
  BY <1>1 DEF RegistryInv, MappedOnly, Items, NoItem
<1>5. (SubscribersDistinct /\ MappedOnly)'
  BY <1>4 DEF RegistryInv, SubscribersDistinct, MappedOnly
<1>6. SubscribedWhileMapped'
  BY <1>1 DEF SubscribedWhileMapped, Items, NoItem
<1> QED
  BY <1>3, <1>5, <1>6 DEF RegistryInv

\* A subscriber is added to the item that is mapped.
LEMMA SubscribeRegistry ==
    ASSUME RegistryInv, ~HoldObservables, NEW k \in Items, NEW s \in Subscribers, Subscribe(k, s)
    PROVE  /\ RegistryInv'
           /\ k = mapped
           /\ Len(subscribers'[k]) = Len(subscribers[k]) + 1
           /\ \A i \in 1 .. Len(subscribers[k]) : subscribers'[k][i] = subscribers[k][i]
           /\ subscribers'[k][Len(subscribers[k]) + 1] = s
<1> USE DEF Subscribe, itemVars, loopVars
<1>1. k = mapped /\ status[s] = "new"
  OBVIOUS
<1>2. /\ \A t \in Subscribers : t # s => status'[t] = status[t]
      /\ status'[s] = "open"
      /\ status' \in [Subscribers -> {"new", "open", "closed"}]
      /\ Open \subseteq Open' /\ s \in Open'
  BY DEF RegistryInv, TypeOK, Open
<1>3. /\ subscribers'[k] = Append(subscribers[k], s)
      /\ \A l \in Items : l # k => subscribers'[l] = subscribers[l]
  BY DEF RegistryInv, TypeOK, SubscribersAdded
<1>4. subscribers[k] \in Seq(Open')
  BY <1>2, ArrayTypes, SeqMonotonic DEF RegistryInv
<1>5. /\ subscribers'[k] \in Seq(Open')
      /\ Len(subscribers'[k]) = Len(subscribers[k]) + 1
      /\ \A i \in 1 .. Len(subscribers[k]) : subscribers'[k][i] = subscribers[k][i]
      /\ subscribers'[k][Len(subscribers[k]) + 1] = s
  BY <1>2, <1>3, <1>4, AppendProperties
<1>6. TypeOK'
  <2>1. \A l \in Items : subscribers'[l] \in Seq(Open')
    <3> SUFFICES ASSUME NEW l \in Items, l # k PROVE subscribers'[l] \in Seq(Open')
      BY <1>5
    <3>1. subscribers[l] \in Seq(Open)
      BY ArrayTypes DEF RegistryInv
    <3> QED
      BY <1>2, <1>3, <3>1, SeqMonotonic
  <2>2. subscribers' = [subscribers EXCEPT ![k] = SubscribersAdded(k, s)]
    OBVIOUS
  <2>3. subscribers' \in [Items -> Seq(Open')]
    BY <2>1, <2>2 DEF RegistryInv, TypeOK
  <2> QED
    BY <1>2, <2>3 DEF RegistryInv, TypeOK, Open
<1>7. \A l \in Items : l # k => Len(subscribers[l]) = 0
  BY <1>1, ArrayTypes DEF RegistryInv, MappedOnly
<1>8. SubscribersDistinct'
  <2>1. Len(subscribers[k]) \in Nat /\ \A i \in 1 .. Len(subscribers[k]) : subscribers[k][i] # s
    BY <1>1, ArrayTypes DEF RegistryInv
  <2>2. \A i \in 1 .. Len(subscribers'[k]) : i \in 1 .. Len(subscribers[k]) \/ i = Len(subscribers[k]) + 1
    BY <1>5, <2>1
  <2>3. ASSUME NEW i \in 1 .. Len(subscribers'[k]), NEW j \in 1 .. Len(subscribers'[k]),
               subscribers'[k][i] = subscribers'[k][j]
        PROVE  i = j
    BY <1>5, <2>1, <2>2, <2>3 DEF RegistryInv, SubscribersDistinct
  <2> QED
    BY <1>3, <1>7, <2>3 DEF SubscribersDistinct
<1>9. (MappedOnly /\ SubscribedWhileMapped)'
  BY <1>1, <1>3 DEF RegistryInv, MappedOnly, SubscribedWhileMapped
<1> QED
  BY <1>1, <1>5, <1>6, <1>8, <1>9 DEF RegistryInv

\* A subscriber that leaves is removed; the last one to leave clears the map.
LEMMA UnsubscribeRegistry ==
    ASSUME RegistryInv, NEW k \in Items, NEW s \in Subscribers, Unsubscribe(k, s)
    PROVE  /\ RegistryInv'
           /\ k = mapped
           /\ mapped' = mapped \/ (mapped' = NoItem /\ subscribers'[k] = << >>)
           /\ mapped' = mapped => subscribers'[k] # << >>
           /\ Len(subscribers'[k]) = Len(subscribers[k]) - 1
           /\ \E n \in 1 .. Len(subscribers[k]) :
                 /\ subscribers[k][n] = s
                 /\ \A i \in 1 .. Len(subscribers[k]) - 1 :
                       subscribers'[k][i] = IF i < n THEN subscribers[k][i] ELSE subscribers[k][i + 1]
<1> USE DEF Unsubscribe, loopVars
<1>1. PICK n \in 1 .. Len(subscribers[k]) : subscribers[k][n] = s
  BY ArrayTypes DEF RegistryInv
<1>2. /\ Len(subscribers[k]) \in Nat /\ Len(subscribers[k]) # 0
      /\ k = mapped /\ k \in cleanup /\ k # NoItem
  BY <1>1, ArrayTypes DEF RegistryInv, MappedOnly, Items, NoItem
<1>3. /\ \A t \in Subscribers : t # s => status'[t] = status[t]
      /\ status' \in [Subscribers -> {"new", "open", "closed"}]
      /\ Open \ {s} \subseteq Open'
  BY DEF RegistryInv, TypeOK, Open
<1>4. /\ subscribers'[k] = SubscribersRemoved(k, s)
      /\ \A l \in Items : l # k => subscribers'[l] = subscribers[l]
  BY DEF RegistryInv, TypeOK
<1>5. /\ subscribers'[k] \in Seq(Open')
      /\ Len(subscribers'[k]) = Len(subscribers[k]) - 1
      /\ \A i \in 1 .. Len(subscribers[k]) - 1 :
            subscribers'[k][i] = IF i < n THEN subscribers[k][i] ELSE subscribers[k][i + 1]
  <2> HIDE DEF Unsubscribe
  <2> DEFINE T == Open'
  <2>1. Open \ {subscribers[k][n]} \subseteq T
    BY <1>1, <1>3
  <2>2. TypeOK /\ SubscribersDistinct
    BY DEF RegistryInv
  <2> HIDE DEF T
  <2>3. /\ SubscribersRemoved(k, subscribers[k][n]) \in Seq(T)
        /\ Len(SubscribersRemoved(k, subscribers[k][n])) = Len(subscribers[k]) - 1
        /\ \A i \in 1 .. Len(subscribers[k]) - 1 :
              SubscribersRemoved(k, subscribers[k][n])[i]
              = IF i < n THEN subscribers[k][i] ELSE subscribers[k][i + 1]
    BY <2>1, <2>2, RemovedProperties
  <2>4. subscribers'[k] = SubscribersRemoved(k, subscribers[k][n])
    BY <1>1, <1>4
  <2> QED
    BY <2>3, <2>4 DEF T
<1>6. \A l \in Items : l # k => subscribers[l] = << >> /\ Len(subscribers[l]) = 0
  BY <1>2, ArrayTypes DEF RegistryInv, MappedOnly
<1>7. \/ mapped' = mapped /\ UNCHANGED <<bindingSub, cleanup>> /\ subscribers'[k] # << >>
      \/ mapped' = NoItem /\ bindingSub' = FALSE /\ subscribers'[k] = << >> /\ cleanup' \subseteq cleanup
  BY <1>2 DEF LastOneLeft, CleanUp
<1>8. TypeOK'
  <2>1. \A l \in Items : subscribers'[l] \in Seq(Open')
    BY <1>4, <1>5, <1>6, EmptySeq
  <2>2. subscribers' \in [Items -> Seq(Open')]
    BY <2>1 DEF RegistryInv, TypeOK
  <2>3. mapped' \in Items \cup {NoItem} /\ bindingSub' \in BOOLEAN
    BY <1>7 DEF RegistryInv, TypeOK
  <2>4. cleanup' \subseteq 1 .. created
    BY <1>7 DEF RegistryInv, TypeOK
  <2> QED
    BY <1>3, <2>2, <2>3, <2>4 DEF RegistryInv, TypeOK, Open
<1>9. SubscribersDistinct'
  <2>1. ASSUME NEW i \in 1 .. Len(subscribers'[k]), NEW j \in 1 .. Len(subscribers'[k]),
               subscribers'[k][i] = subscribers'[k][j]
        PROVE  i = j
    <3>1. /\ i \in 1 .. Len(subscribers[k]) - 1 /\ j \in 1 .. Len(subscribers[k]) - 1
          /\ {i, i + 1, j, j + 1} \subseteq 1 .. Len(subscribers[k])
      BY <1>2, <1>5
    <3>2. \A a, b \in 1 .. Len(subscribers[k]) : subscribers[k][a] = subscribers[k][b] => a = b
      BY DEF RegistryInv, SubscribersDistinct
    <3>3. subscribers'[k][i] = subscribers[k][IF i < n THEN i ELSE i + 1]
          /\ subscribers'[k][j] = subscribers[k][IF j < n THEN j ELSE j + 1]
      BY <1>5, <3>1
    <3>4. (IF i < n THEN i ELSE i + 1) = (IF j < n THEN j ELSE j + 1)
      BY <2>1, <3>1, <3>2, <3>3
    <3> QED
      BY <3>1, <3>4
  <2> QED
    BY <1>4, <1>6, <2>1 DEF SubscribersDistinct
<1>10. (MappedOnly /\ SubscribedWhileMapped)'
  BY <1>2, <1>4, <1>6, <1>7 DEF RegistryInv, MappedOnly, SubscribedWhileMapped
<1> QED
  BY <1>1, <1>2, <1>5, <1>7, <1>8, <1>9, <1>10 DEF RegistryInv

\* stop() completes the subscribers of the item that is mapped, and so all.
LEMMA StopRegistry ==
    ASSUME RegistryInv, Stop
    PROVE  /\ RegistryInv'
           /\ mapped' = NoItem
           /\ \A k \in Items : subscribers'[k] = << >>
           /\ \A s \in Subscribers : status'[s] \in {status[s], "closed"}
           /\ \A k \in Items : \A s \in Range(subscribers[k]) : status'[s] = "closed"
<1> USE DEF Stop, loopVars
<1>1. \A k \in Items : subscribers'[k] = << >>
  BY DEF RegistryInv, MappedOnly
<1>2. \A k \in Items : Len(subscribers'[k]) = 0
  BY <1>1, EmptySeq
<1>3. mapped' = NoItem /\ bindingSub' = FALSE
  BY DEF CleanUp
<1>4. \A s \in Subscribers : status'[s] \in {status[s], "closed"}
  OBVIOUS
<1>5. TypeOK'
  <2>1. subscribers' \in [Items -> Seq(Open')]
    <3>1. \A k \in Items : subscribers'[k] \in Seq(Open')
      BY <1>1, EmptySeq
    <3>2. DOMAIN subscribers' = Items /\ subscribers' = [k \in Items |-> subscribers'[k]]
      OBVIOUS
    <3> QED
      BY <3>1, <3>2
  <2>2. status' \in [Subscribers -> {"new", "open", "closed"}]
    BY DEF RegistryInv, TypeOK
  <2>3. bindingSub' \in BOOLEAN
    BY <1>3
  <2>4. cleanup' \subseteq 1 .. created /\ fresh' \subseteq 1 .. created
    BY DEF RegistryInv, TypeOK
  <2> QED
    BY <1>3, <2>1, <2>2, <2>3, <2>4 DEF RegistryInv, TypeOK, Open
<1>6. (SubscribersDistinct /\ MappedOnly /\ SubscribedWhileMapped)'
  BY <1>1, <1>2, <1>3 DEF SubscribersDistinct, MappedOnly, SubscribedWhileMapped
<1>7. ASSUME NEW k \in Items, NEW s \in Range(subscribers[k]) PROVE status'[s] = "closed"
  <2>1. PICK i \in 1 .. Len(subscribers[k]) : subscribers[k][i] = s
    BY ArrayTypes DEF RegistryInv
  <2>2. s \in Subscribers /\ subscribers[k] # << >>
    BY <2>1, ArrayTypes DEF RegistryInv
  <2>3. k = mapped
    BY <2>2 DEF RegistryInv, MappedOnly
  <2> QED
    BY <2>2, <2>3
<1> QED
  BY <1>1, <1>3, <1>4, <1>5, <1>6, <1>7 DEF RegistryInv

\* Dispatching an event does not change the registry.
LEMMA DispatchRegistry ==
    ASSUME RegistryInv, StartDispatch \/ DispatchNext \/ DispatchEnds \/ UNCHANGED vars
    PROVE  RegistryInv'
<1>1. UNCHANGED <<itemVars, subscribers, status>>
  BY DEF StartDispatch, DispatchNext, DispatchEnds, vars, itemVars
<1>2. /\ loop' \in [item : Items \cup {NoItem}, index : Nat, running : SUBSET Subscribers]
      /\ delivered' \in [Subscribers -> Nat] /\ expecting' \subseteq Subscribers
  <2>1. CASE StartDispatch
    <3>1. mapped \in Items
      BY <2>1 DEF StartDispatch, RegistryInv, TypeOK
    <3>2. \A s \in Range(subscribers[mapped]) : s \in Subscribers
      BY <3>1, ArrayTypes DEF RegistryInv
    <3> QED
      BY <2>1, <3>1, <3>2, ArrayTypes DEF StartDispatch, RegistryInv
  <2>2. CASE DispatchNext
    <3>1. PICK s \in SubscriberAt(loop.item, loop.index) :
             /\ delivered' = [delivered EXCEPT ![s] = @ + 1]
             /\ loop' = [loop EXCEPT !.index = @ - 1, !.running = {s}]
      BY <2>2 DEF DispatchNext
    <3>2. loop.item \in Items /\ loop.index \in Nat /\ loop.index > 0
      BY <2>2 DEF DispatchNext, RegistryInv, TypeOK
    <3>3. s \in Subscribers
      BY <3>1, <3>2, ArrayTypes DEF SubscriberAt, RegistryInv
    <3>4. loop' \in [item : Items \cup {NoItem}, index : Nat, running : SUBSET Subscribers]
      <4>1. loop.index - 1 \in Nat /\ {s} \in SUBSET Subscribers
        BY <3>2, <3>3
      <4>2. loop = [item |-> loop.item, index |-> loop.index, running |-> loop.running]
        BY DEF RegistryInv, TypeOK
      <4>3. loop' = [item |-> loop.item, index |-> loop.index - 1, running |-> {s}]
        BY <3>1, <4>2
      <4> QED
        BY <3>2, <4>1, <4>3
    <3>5. delivered' \in [Subscribers -> Nat]
      BY <3>1, <3>3 DEF RegistryInv, TypeOK
    <3> QED
      BY <2>2, <3>4, <3>5 DEF DispatchNext, RegistryInv, TypeOK
  <2>3. CASE DispatchEnds \/ UNCHANGED vars
    BY <2>3 DEF DispatchEnds, vars, Idle, RegistryInv, TypeOK
  <2> QED
    BY <2>1, <2>2, <2>3
<1>3. TypeOK'
  BY <1>1, <1>2 DEF RegistryInv, TypeOK, itemVars
<1>4. (SubscribersDistinct /\ MappedOnly /\ SubscribedWhileMapped)'
  BY <1>1 DEF itemVars, RegistryInv, SubscribersDistinct, MappedOnly, SubscribedWhileMapped
<1> QED
  BY <1>3, <1>4 DEF RegistryInv

LEMMA RegistryStep ==
    ASSUME RegistryInv, ~HoldObservables, [Next]_vars
    PROVE  RegistryInv'
  BY ObserveRequestRegistry, SubscribeRegistry, UnsubscribeRegistry, StopRegistry, DispatchRegistry
     DEF Next

\* As long as an observable has subscribers it is the one that is mapped, and
\* the binding is subscribed: no event is missed, and none arrives in vain, for
\* applications that subscribe an observable when they get it
\* (communication-manager.ts:997-1021, 1520-1544).
THEOREM ObserversAreServed ==
    ASSUME ~HoldObservables
    PROVE  Spec => []ObserversServed
<1>1. Init => RegistryInv
  BY InitInvariant DEF LoopInv
<1>2. RegistryInv /\ [Next]_vars => RegistryInv'
  BY RegistryStep
<1>3. RegistryInv => ObserversServed
  <2> SUFFICES ASSUME RegistryInv PROVE OpenSubscribersReceive
    BY DEF RegistryInv, ObserversServed
  <2>1. fresh \subseteq 1 .. created /\ created \in 0 .. MaxItems /\ MaxItems \in Nat
    BY ParametersAssumption DEF RegistryInv, TypeOK
  <2>2. \A k \in 1 .. created : k \in 1 .. MaxItems /\ k # 0
    BY <2>1
  <2>3. \A k \in fresh : k \in Items /\ k # NoItem
    BY <2>1, <2>2 DEF Items, NoItem
  <2> QED
    BY <2>3 DEF RegistryInv, OpenSubscribersReceive, MappedOnly, SubscribedWhileMapped
<1> QED
  BY <1>1, <1>2, <1>3, PTL DEF Spec

------------------------------------------------------------------------------
(* The dispatch loop                                                       *)

\* A new item is not the one whose event is being dispatched.
LEMMA ObserveRequestLoop ==
    ASSUME LoopInv, ObserveRequest
    PROVE  (LoopFits /\ NobodySkipped /\ DeliveredAtMostOnce)'
<1> USE DEF ObserveRequest, loopVars
<1>1. /\ created \in Nat /\ loop.item <= created /\ mapped' = created + 1 /\ created' = created + 1
      /\ loop.item \in Nat
  BY ParametersAssumption DEF LoopInv, RegistryInv, TypeOK, LoopFits, Items, NoItem
<1>2. loop.item <= created' /\ loop.item # mapped'
  BY <1>1
<1>3. LoopFits'
  BY <1>2 DEF LoopInv, LoopFits
<1> QED
  BY <1>3 DEF LoopInv, NobodySkipped, DeliveredAtMostOnce

\* A subscriber is added behind the index of the loop.
LEMMA SubscribeLoop ==
    ASSUME LoopInv, ~HoldObservables, NEW k \in Items, NEW s \in Subscribers, Subscribe(k, s)
    PROVE  (LoopFits /\ NobodySkipped /\ DeliveredAtMostOnce)'
<1>1. /\ k = mapped
      /\ Len(subscribers'[k]) = Len(subscribers[k]) + 1
      /\ \A i \in 1 .. Len(subscribers[k]) : subscribers'[k][i] = subscribers[k][i]
      /\ subscribers'[k][Len(subscribers[k]) + 1] = s
  BY SubscribeRegistry DEF LoopInv
<1>2. UNCHANGED <<mapped, created, loop, delivered, expecting>> /\ status[s] = "new"
  BY DEF Subscribe, itemVars, loopVars
<1>3. /\ \A t \in Subscribers : t # s => status'[t] = status[t]
      /\ \A l \in Items : l # k => subscribers'[l] = subscribers[l]
  BY DEF Subscribe, LoopInv, RegistryInv, TypeOK
<1>4. /\ Len(subscribers[k]) \in Nat /\ loop.index \in Nat
      /\ loop.item # NoItem => loop.item \in Items
      /\ loop.item = k => loop.index <= Len(subscribers[k])
      /\ k # NoItem
  BY <1>1, ArrayTypes DEF LoopInv, RegistryInv, TypeOK, LoopFits, Items, NoItem
<1>5. \A i \in 1 .. Len(subscribers'[k]) : i \in 1 .. Len(subscribers[k]) \/ i = Len(subscribers[k]) + 1
  BY <1>1, <1>4
<1>6. LoopFits'
  <2>1. loop.item = k => loop.index <= Len(subscribers'[k])
    BY <1>1, <1>4
  <2>2. ASSUME loop.item # NoItem, NEW i \in 1 .. Len(subscribers'[loop.item])
        PROVE  /\ i <= loop.index => delivered[subscribers'[loop.item][i]] = 0
               /\ subscribers'[loop.item][i] \in loop.running => loop.index < i
    <3>1. CASE loop.item # k
      BY <1>3, <1>4, <2>2, <3>1 DEF LoopInv, LoopFits
    <3>2. CASE loop.item = k /\ i \in 1 .. Len(subscribers[k])
      BY <1>1, <2>2, <3>2 DEF LoopInv, LoopFits
    <3>3. CASE loop.item = k /\ i = Len(subscribers[k]) + 1
      BY <1>4, <3>3
    <3> QED
      BY <1>5, <2>2, <3>1, <3>2, <3>3
  <2> QED
    BY <1>1, <1>2, <2>1, <2>2 DEF LoopInv, LoopFits
<1>7. NobodySkipped'
  <2> SUFFICES ASSUME NEW t \in expecting
               PROVE  /\ status'[t] # "new"
                      /\ status'[t] = "open" =>
                             \/ delivered[t] = 1
                             \/ /\ loop.item # NoItem
                                /\ \E i \in 1 .. Len(subscribers'[loop.item]) :
                                       i <= loop.index /\ subscribers'[loop.item][i] = t
    BY <1>2 DEF NobodySkipped
  <2>1. status'[t] = status[t] /\ status[t] # "new"
    BY <1>2, <1>3 DEF LoopInv, RegistryInv, TypeOK, NobodySkipped
  <2>2. ASSUME loop.item # NoItem, NEW i \in 1 .. Len(subscribers[loop.item]),
               i <= loop.index, subscribers[loop.item][i] = t
        PROVE  i \in 1 .. Len(subscribers'[loop.item]) /\ subscribers'[loop.item][i] = t
    <3>1. CASE loop.item = k
      BY <1>1, <1>4, <2>2, <3>1
    <3>2. CASE loop.item # k
      BY <1>3, <1>4, <2>2, <3>2
    <3> QED
      BY <3>1, <3>2
  <2> QED
    BY <2>1, <2>2 DEF LoopInv, NobodySkipped
<1> QED
  BY <1>2, <1>6, <1>7 DEF LoopInv, DeliveredAtMostOnce

\* The running subscriber leaves behind the index: those that are still to be
\* called keep their places.
LEMMA UnsubscribeLoop ==
    ASSUME LoopInv, ~UnsubscribeOthers, NEW k \in Items, NEW s \in Subscribers, Unsubscribe(k, s)
    PROVE  (LoopFits /\ NobodySkipped /\ DeliveredAtMostOnce)'
<1>1. /\ k = mapped
      /\ mapped' = mapped \/ mapped' = NoItem
      /\ Len(subscribers'[k]) = Len(subscribers[k]) - 1
      /\ \E n \in 1 .. Len(subscribers[k]) :
            /\ subscribers[k][n] = s
            /\ \A i \in 1 .. Len(subscribers[k]) - 1 :
                  subscribers'[k][i] = IF i < n THEN subscribers[k][i] ELSE subscribers[k][i + 1]
  <2>1. RegistryInv
    BY DEF LoopInv
  <2> QED
    BY <2>1, UnsubscribeRegistry
<1>2. PICK n \in 1 .. Len(subscribers[k]) :
         /\ subscribers[k][n] = s
         /\ \A i \in 1 .. Len(subscribers[k]) - 1 :
               subscribers'[k][i] = IF i < n THEN subscribers[k][i] ELSE subscribers[k][i + 1]
  BY <1>1
<1>3. /\ UNCHANGED <<created, loop, delivered, expecting>>
      /\ loop.item # NoItem => s \in loop.running
  BY DEF Unsubscribe, loopVars
<1>4. /\ \A t \in Subscribers : t # s => status'[t] = status[t]
      /\ status'[s] = "closed"
      /\ \A l \in Items : l # k => subscribers'[l] = subscribers[l]
  BY DEF Unsubscribe, LoopInv, RegistryInv, TypeOK
<1>5. /\ Len(subscribers[k]) \in Nat /\ loop.index \in Nat
      /\ loop.item # NoItem => loop.item \in Items
      /\ k # NoItem
  BY ArrayTypes DEF LoopInv, RegistryInv, TypeOK, Items, NoItem
<1>6. loop.item = k => loop.index < n
  BY <1>2, <1>3, <1>5 DEF LoopInv, LoopFits
<1>7. LoopFits'
  <2>1. loop.item = k => loop.index <= Len(subscribers'[k])
    BY <1>1, <1>5, <1>6
  <2>2. ASSUME loop.item # NoItem, NEW i \in 1 .. Len(subscribers'[loop.item])
        PROVE  /\ i <= loop.index => delivered[subscribers'[loop.item][i]] = 0
               /\ subscribers'[loop.item][i] \in loop.running => loop.index < i
    <3>1. CASE loop.item # k
      BY <1>4, <1>5, <2>2, <3>1 DEF LoopInv, LoopFits
    <3>2. CASE loop.item = k /\ i < n
      <4>1. i \in 1 .. Len(subscribers[k]) - 1 /\ i \in 1 .. Len(subscribers[k])
        BY <1>1, <1>5, <2>2, <3>2
      <4>2. subscribers'[k][i] = subscribers[k][i]
        BY <1>2, <3>2, <4>1
      <4> QED
        BY <2>2, <3>2, <4>1, <4>2 DEF LoopInv, LoopFits
    <3>3. CASE loop.item = k /\ ~(i < n)
      BY <1>1, <1>5, <1>6, <2>2, <3>3
    <3> QED
      BY <3>1, <3>2, <3>3
  <2>3. mapped' = loop.item /\ loop.item # NoItem => loop.item = k
    BY <1>1
  <2> QED
    BY <1>3, <2>1, <2>2, <2>3 DEF LoopInv, LoopFits
<1>8. NobodySkipped'
  <2> SUFFICES ASSUME NEW t \in expecting
               PROVE  /\ status'[t] # "new"
                      /\ status'[t] = "open" =>
                             \/ delivered[t] = 1
                             \/ /\ loop.item # NoItem
                                /\ \E i \in 1 .. Len(subscribers'[loop.item]) :
                                       i <= loop.index /\ subscribers'[loop.item][i] = t
    BY <1>3 DEF NobodySkipped
  <2>1. t \in Subscribers /\ status[t] # "new"
    BY DEF LoopInv, RegistryInv, TypeOK, NobodySkipped
  <2>2. ASSUME loop.item # NoItem, NEW i \in 1 .. Len(subscribers[loop.item]),
               i <= loop.index, subscribers[loop.item][i] = t
        PROVE  i \in 1 .. Len(subscribers'[loop.item]) /\ subscribers'[loop.item][i] = t
    <3>1. CASE loop.item = k
      <4>1. i < n /\ i \in 1 .. Len(subscribers[k]) - 1
        BY <1>5, <1>6, <2>2, <3>1
      <4> QED
        BY <1>1, <1>2, <2>2, <3>1, <4>1
    <3>2. CASE loop.item # k
      BY <1>4, <1>5, <2>2, <3>2
    <3> QED
      BY <3>1, <3>2
  <2>3. CASE t = s
    BY <1>4, <2>3
  <2>4. CASE t # s
    BY <1>4, <2>1, <2>2, <2>4 DEF LoopInv, NobodySkipped
  <2> QED
    BY <2>3, <2>4
<1> QED
  BY <1>3, <1>7, <1>8 DEF LoopInv, DeliveredAtMostOnce

\* Whoever is still to be called when the manager is stopped is completed.
LEMMA StopLoop ==
    ASSUME LoopInv, Stop
    PROVE  (LoopFits /\ NobodySkipped /\ DeliveredAtMostOnce)'
<1>1. /\ mapped' = NoItem
      /\ \A k \in Items : subscribers'[k] = << >>
      /\ \A s \in Subscribers : status'[s] \in {status[s], "closed"}
      /\ \A k \in Items : \A s \in Range(subscribers[k]) : status'[s] = "closed"
  BY StopRegistry DEF LoopInv
<1>2. \A k \in Items : Len(subscribers'[k]) = 0
  BY <1>1, EmptySeq
<1>3. UNCHANGED <<created, loop, delivered, expecting>>
  BY DEF Stop, loopVars
<1>4. loop.item # NoItem => loop.item \in Items
  BY DEF LoopInv, RegistryInv, TypeOK
<1>5. LoopFits'
  <2>1. loop.item # NoItem => \A i \in 1 .. Len(subscribers'[loop.item]) : FALSE
    BY <1>2, <1>4
  <2> QED
    BY <1>1, <1>3, <2>1 DEF LoopInv, LoopFits
<1>6. NobodySkipped'
  <2> SUFFICES ASSUME NEW t \in expecting
               PROVE  /\ status'[t] # "new"
                      /\ status'[t] = "open" => delivered[t] = 1
    BY <1>3 DEF NobodySkipped
  <2>1. t \in Subscribers /\ status[t] # "new"
    BY DEF LoopInv, RegistryInv, TypeOK, NobodySkipped
  <2>2. ASSUME loop.item # NoItem, NEW i \in 1 .. Len(subscribers[loop.item]),
               subscribers[loop.item][i] = t
        PROVE  status'[t] = "closed"
    BY <1>1, <1>4, <2>2, ArrayTypes DEF LoopInv, RegistryInv
  <2>3. status'[t] # "new"
    BY <1>1, <2>1
  <2> QED
    BY <1>1, <2>1, <2>2, <2>3 DEF LoopInv, NobodySkipped
<1> QED
  BY <1>3, <1>5, <1>6 DEF LoopInv, DeliveredAtMostOnce

\* The loop starts with all subscribers still to be called.
LEMMA StartDispatchLoop ==
    ASSUME LoopInv, StartDispatch
    PROVE  (LoopFits /\ NobodySkipped /\ DeliveredAtMostOnce)'
<1> USE DEF StartDispatch, itemVars
<1>1. mapped \in Items /\ mapped <= created /\ mapped # NoItem
  <2>1. mapped \in Items /\ mapped # NoItem
    BY DEF LoopInv, RegistryInv, TypeOK
  <2>2. mapped \in cleanup /\ cleanup \subseteq 1 .. created
    BY <2>1 DEF LoopInv, RegistryInv, TypeOK, MappedOnly
  <2>3. created \in Nat
    BY ParametersAssumption DEF LoopInv, RegistryInv, TypeOK
  <2> QED
    BY <2>1, <2>2, <2>3
<1>2. /\ loop'.item = mapped /\ loop'.index = Len(subscribers[mapped]) /\ loop'.running = {}
      /\ Len(subscribers[mapped]) \in Nat
  BY <1>1, ArrayTypes DEF LoopInv, RegistryInv
<1>3. \A i \in 1 .. Len(subscribers[mapped]) : delivered'[subscribers[mapped][i]] = 0
  BY <1>1, ArrayTypes DEF LoopInv, RegistryInv
<1>4. LoopFits'
  BY <1>1, <1>2, <1>3 DEF LoopFits
<1>5. NobodySkipped'
  <2> SUFFICES ASSUME NEW t \in Range(subscribers[mapped])
               PROVE  /\ status[t] # "new"
                      /\ \E i \in 1 .. Len(subscribers[mapped]) :
                             i <= Len(subscribers[mapped]) /\ subscribers[mapped][i] = t
    BY <1>1, <1>2 DEF NobodySkipped
  <2>1. PICK i \in 1 .. Len(subscribers[mapped]) : subscribers[mapped][i] = t
    BY <1>1, ArrayTypes DEF LoopInv, RegistryInv
  <2>2. status[t] = "open"
    BY <1>1, <2>1, ArrayTypes DEF LoopInv, RegistryInv
  <2> QED
    BY <1>2, <2>1, <2>2
<1> QED
  BY <1>4, <1>5 DEF DeliveredAtMostOnce

\* The subscriber at the index has not been called, and the others keep their
\* places below the index.
LEMMA DispatchNextLoop ==
    ASSUME LoopInv, DispatchNext
    PROVE  (LoopFits /\ NobodySkipped /\ DeliveredAtMostOnce)'
<1> DEFINE k == loop.item
           n == loop.index
<1>1. k \in Items /\ n \in Nat /\ n > 0 /\ k # NoItem
  BY DEF DispatchNext, LoopInv, RegistryInv, TypeOK
<1>2. PICK s \in SubscriberAt(k, n) :
         /\ delivered' = [delivered EXCEPT ![s] = @ + 1]
         /\ loop' = [loop EXCEPT !.index = @ - 1, !.running = {s}]
  BY DEF DispatchNext
<1>3. UNCHANGED <<mapped, created, subscribers, status, expecting>>
  BY DEF DispatchNext, itemVars
<1>4. n \in 1 .. Len(subscribers[k]) /\ s = subscribers[k][n] /\ s \in Subscribers
  BY <1>1, <1>2, ArrayTypes DEF SubscriberAt, LoopInv, RegistryInv
<1>5. loop'.item = k /\ loop'.index = n - 1 /\ loop'.running = {s}
  <2>1. loop = [item |-> k, index |-> n, running |-> loop.running]
    BY DEF LoopInv, RegistryInv, TypeOK
  <2> QED
    BY <1>2, <2>1
<1>6. /\ delivered'[s] = 1
      /\ \A t \in Subscribers : t # s => delivered'[t] = delivered[t]
  <2>1. delivered[s] = 0
    BY <1>1, <1>4 DEF LoopInv, LoopFits
  <2> QED
    BY <1>2, <1>4, <2>1 DEF LoopInv, RegistryInv, TypeOK
<1>7. \A i \in 1 .. Len(subscribers[k]) : subscribers[k][i] \in Subscribers /\ (subscribers[k][i] = s => i = n)
  BY <1>1, <1>4, ArrayTypes DEF LoopInv, RegistryInv, SubscribersDistinct
<1> HIDE DEF k, n
<1>8. LoopFits'
  <2>1. k <= created /\ (k = mapped => n <= Len(subscribers[k]))
    BY <1>1 DEF LoopInv, LoopFits, k, n
  <2>2. ASSUME NEW i \in 1 .. Len(subscribers[k])
        PROVE  /\ i <= n - 1 => delivered'[subscribers[k][i]] = 0
               /\ subscribers[k][i] \in {s} => n - 1 < i
    <3>1. i <= n => delivered[subscribers[k][i]] = 0
      BY <1>1 DEF LoopInv, LoopFits, k, n
    <3>2. ASSUME i <= n - 1 PROVE delivered'[subscribers[k][i]] = 0
      <4>1. i <= n /\ i # n
        BY <1>1, <3>2
      <4> QED
        BY <1>6, <1>7, <3>1, <4>1
    <3>3. ASSUME subscribers[k][i] \in {s} PROVE n - 1 < i
      <4>1. i = n
        BY <1>7, <3>3
      <4> QED
        BY <1>1, <4>1
    <3> QED
      BY <3>2, <3>3
  <2>3. k = mapped => n - 1 <= Len(subscribers[k])
    BY <1>1, <1>4, <2>1
  <2> QED
    BY <1>1, <1>3, <1>5, <2>1, <2>2, <2>3 DEF LoopFits
<1>9. NobodySkipped'
  <2> SUFFICES ASSUME NEW t \in expecting
               PROVE  /\ status[t] # "new"
                      /\ status[t] = "open" =>
                             \/ delivered'[t] = 1
                             \/ \E i \in 1 .. Len(subscribers[k]) :
                                    i <= n - 1 /\ subscribers[k][i] = t
    BY <1>1, <1>3, <1>5 DEF NobodySkipped
  <2>1. t \in Subscribers /\ status[t] # "new"
    BY DEF LoopInv, RegistryInv, TypeOK, NobodySkipped
  <2>2. CASE t = s
    BY <1>6, <2>1, <2>2
  <2>3. CASE t # s /\ status[t] = "open"
    <3>1. CASE delivered[t] = 1
      BY <1>6, <2>1, <2>3, <3>1
    <3>2. CASE \E i \in 1 .. Len(subscribers[k]) : i <= n /\ subscribers[k][i] = t
      <4>1. PICK i \in 1 .. Len(subscribers[k]) : i <= n /\ subscribers[k][i] = t
        BY <3>2
      <4>2. i # n
        BY <1>4, <2>3, <4>1
      <4>3. i <= n - 1
        BY <1>1, <4>1, <4>2
      <4> QED
        BY <2>1, <4>1, <4>3
    <3> QED
      BY <2>3, <3>1, <3>2 DEF LoopInv, NobodySkipped, k, n
  <2> QED
    BY <2>1, <2>2, <2>3
<1>10. DeliveredAtMostOnce'
  BY <1>6 DEF LoopInv, DeliveredAtMostOnce
<1> QED
  BY <1>8, <1>9, <1>10

\* The loop does not end while somebody is still to be called.
LEMMA DispatchEndsLoop ==
    ASSUME LoopInv, DispatchEnds
    PROVE  (LoopFits /\ NobodySkipped /\ DeliveredAtMostOnce)'
<1>1. /\ loop.item # NoItem /\ loop' = Idle
      /\ loop.index = 0 \/ SubscriberAt(loop.item, loop.index) = {}
      /\ UNCHANGED <<mapped, created, subscribers, status, delivered, expecting>>
  BY DEF DispatchEnds, itemVars
<1>2. /\ loop.item \in Items /\ loop.index \in Nat /\ created \in Nat
      /\ Len(subscribers[loop.item]) \in Nat
      /\ DOMAIN subscribers[loop.item] = 1 .. Len(subscribers[loop.item])
  BY <1>1, ArrayTypes DEF LoopInv, RegistryInv, TypeOK
<1>3. ASSUME NEW i \in 1 .. Len(subscribers[loop.item]), i <= loop.index PROVE FALSE
  <2>1. loop.item = mapped
    BY <1>2, <1>3, ArrayTypes DEF LoopInv, RegistryInv, MappedOnly
  <2>2. loop.index <= Len(subscribers[loop.item])
    BY <1>1, <2>1 DEF LoopInv, LoopFits
  <2>3. loop.index \in DOMAIN subscribers[loop.item] /\ loop.index # 0
    BY <1>2, <1>3, <2>2
  <2> QED
    BY <1>1, <2>3 DEF SubscriberAt
<1>4. LoopFits'
  BY <1>1, <1>2 DEF LoopFits, Idle, NoItem
<1>5. NobodySkipped'
  BY <1>1, <1>3 DEF LoopInv, NobodySkipped
<1> QED
  BY <1>1, <1>4, <1>5 DEF LoopInv, DeliveredAtMostOnce

LEMMA LoopStep ==
    ASSUME LoopInv, ~HoldObservables, ~UnsubscribeOthers, [Next]_vars
    PROVE  LoopInv'
<1>1. RegistryInv'
  BY RegistryStep DEF LoopInv
<1>2. CASE UNCHANGED vars
  <2>1. (LoopFits /\ NobodySkipped /\ DeliveredAtMostOnce)'
    BY <1>2 DEF vars, LoopInv, LoopFits, NobodySkipped, DeliveredAtMostOnce
  <2> QED
    BY <1>1, <2>1 DEF LoopInv
<1>3. CASE Next
  <2>1. (LoopFits /\ NobodySkipped /\ DeliveredAtMostOnce)'
    BY <1>3, ObserveRequestLoop, SubscribeLoop, UnsubscribeLoop, StopLoop, StartDispatchLoop,
       DispatchNextLoop, DispatchEndsLoop DEF Next
  <2> QED
    BY <1>1, <2>1 DEF LoopInv
<1> QED
  BY <1>2, <1>3

\* dispatchNext() walks down an array that its callbacks change, and still
\* calls each subscriber that was there at the start exactly once, unless it
\* has left, for callbacks that unsubscribe only themselves
\* (communication-manager.ts:1483-1488, 1512-1517).
THEOREM EventsAreDeliveredOnce ==
    ASSUME ~HoldObservables, ~UnsubscribeOthers
    PROVE  Spec => []DeliveredOnce
<1>1. Init => LoopInv
  BY InitInvariant
<1>2. LoopInv /\ [Next]_vars => LoopInv'
  BY LoopStep
<1>3. LoopInv => DeliveredOnce
  BY DEF LoopInv, NobodySkipped, DeliveredOnce, DeliveredToAll, Idle
<1> QED
  BY <1>1, <1>2, <1>3, PTL DEF Spec

==============================================================================

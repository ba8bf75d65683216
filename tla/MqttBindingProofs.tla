-------------------------- MODULE MqttBindingProofs --------------------------
(***************************************************************************)
(* Proofs about MqttBinding for any events, topics and subscriptions, and  *)
(* for any bounds on publications and lost connections.                    *)
(*                                                                         *)
(* The inductive invariant relates four pieces of state that the binding   *)
(* keeps apart: the drain flag and the awaited publish callback (Flow),    *)
(* the client and the broker session (Sessions), the unjoin event on its   *)
(* way through queue and callback and the promise of unjoin() (Promises),  *)
(* and the subscriptions issued and those known to the broker.  On top of  *)
(* it, QueueInv orders what has been written in a session before what is   *)
(* queued, and accounts for every accepted publication and join event.     *)
(***************************************************************************)
EXTENDS MqttBinding, SequenceTheorems, TLAPS

\* An awaited callback belongs to what was written last; while connected, one
\* is awaited exactly if the drain flag is set, and otherwise nothing is left.
Flow ==
    /\ inflight # NoItem => /\ client = "connected"
                            /\ wire # <<>>
                            /\ wire[Len(wire)] = inflight
    /\ client = "connected" /\ draining => inflight # NoItem
    /\ client = "connected" /\ ~draining => pending = <<>>

\* Only a connected or ending client has a session; an ending client that
\* still has one has written the unjoin event last.
Sessions ==
    /\ client = "connected" => session
    /\ session => client \in {"connected", "ending"}
    /\ client = "ending" /\ session => /\ wire # <<>>
                                       /\ wire[Len(wire)].ev = UnjoinEvent

\* The client exists from join() until the promise of unjoin() is resolved,
\* and it is only ended on behalf of a promise that is pending.
Promises ==
    /\ client = "none" <=> state = "Initialized" \/ promise = "resolved"
    /\ state = "Unjoined" <=> promise # "none"
    /\ HasUnjoin(pending) => promise = "pending"
    /\ inflight # NoItem /\ inflight.ev = UnjoinEvent => promise = "pending"
    /\ client = "ending" => promise = "pending"

IInv ==
    /\ TypeOK
    /\ Flow
    /\ Sessions
    /\ Promises
    /\ SubscriptionsInSync
    /\ OnlineHasSession
    /\ UnjoinSeenLast

------------------------------------------------------------------------------
(* The queue operators                                                     *)

\* A part of a sequence.
LEMMA PartOfSeq ==
    ASSUME NEW S, NEW q \in Seq(S),
           NEW m \in 1 .. Len(q) + 1, NEW n \in m - 1 .. Len(q)
    PROVE  /\ SubSeq(q, m, n) \in Seq(S)
           /\ Len(SubSeq(q, m, n)) = n - m + 1
           /\ \A i \in 1 .. n - m + 1 : SubSeq(q, m, n)[i] = q[m + i - 1]
<1>1. Len(q) \in Nat
  BY LenProperties
<1>2. m \in Int /\ n \in Int
  BY <1>1
<1>3. \A i \in m .. n : q[i] \in S
  BY <1>1, ElementOfSeq
<1> QED
  BY <1>1, <1>2, <1>3, SubSeqProperties

\* Splicing an item out of a queue leaves a queue of the same items.
LEMMA WithoutQueue ==
    ASSUME NEW q \in Seq(Item), NEW item
    PROVE  /\ Without(q, item) \in Seq(Item)
           /\ HasUnjoin(Without(q, item)) => HasUnjoin(q)
<1>1. CASE ~\E i \in DOMAIN q : q[i] = item
  BY <1>1 DEF Without
<1>2. CASE \E i \in DOMAIN q : q[i] = item
  <2> DEFINE n     == CHOOSE i \in DOMAIN q : q[i] = item
             front == SubSeq(q, 1, n - 1)
             back  == SubSeq(q, n + 1, Len(q))
  <2>1. Len(q) \in Nat /\ n \in 1 .. Len(q)
    BY <1>2, LenProperties
  <2> HIDE DEF n
  <2>2. /\ front \in Seq(Item)
        /\ Len(front) = n - 1
        /\ \A i \in 1 .. n - 1 : front[i] = q[i]
    BY <2>1, PartOfSeq
  <2>3. /\ back \in Seq(Item)
        /\ Len(back) = Len(q) - n
        /\ \A i \in 1 .. Len(q) - n : back[i] = q[n + i]
    BY <2>1, PartOfSeq
  <2>4. Without(q, item) = front \o back
    BY <1>2 DEF Without, n
  <2>5. /\ front \o back \in Seq(Item)
        /\ Len(front \o back) = Len(front) + Len(back)
        /\ \A i \in 1 .. Len(front) + Len(back) :
              (front \o back)[i] = IF i <= Len(front) THEN front[i] ELSE back[i - Len(front)]
    BY <2>2, <2>3, ConcatProperties, Zenon
  <2>6. ASSUME NEW i \in DOMAIN (front \o back), (front \o back)[i].ev = UnjoinEvent
        PROVE  \E j \in DOMAIN q : q[j].ev = UnjoinEvent
    <3> HIDE DEF front, back
    <3>1. i \in 1 .. Len(front) + Len(back)
      BY <2>5, LenProperties
    <3>2. DOMAIN q = 1 .. Len(q)
      BY LenProperties
    <3>3. CASE i <= Len(front)
      BY <2>1, <2>2, <2>5, <2>6, <3>1, <3>2, <3>3
    <3>4. CASE i > Len(front)
      <4>1. n + (i - Len(front)) \in 1 .. Len(q)
        BY <2>1, <2>2, <2>3, <3>1, <3>4
      <4>2. (front \o back)[i] = q[n + (i - Len(front))]
        BY <2>1, <2>2, <2>3, <2>5, <3>1, <3>4
      <4> QED
        BY <2>6, <3>2, <4>1, <4>2
    <3> QED
      BY <2>1, <2>2, <2>3, <3>1, <3>3, <3>4
  <2> QED
    BY <2>4, <2>5, <2>6 DEF HasUnjoin
<1> QED
  BY <1>1, <1>2

\* Appending an item to a queue.
LEMMA AppendQueue ==
    ASSUME NEW q \in Seq(Item), NEW item \in Item
    PROVE  /\ Append(q, item) \in Seq(Item)
           /\ HasUnjoin(Append(q, item)) => HasUnjoin(q) \/ item.ev = UnjoinEvent
<1>1. /\ Append(q, item) \in Seq(Item)
      /\ Len(Append(q, item)) = Len(q) + 1
      /\ \A i \in 1 .. Len(q) : Append(q, item)[i] = q[i]
      /\ Append(q, item)[Len(q) + 1] = item
  BY AppendProperties
<1>2. DOMAIN q = 1 .. Len(q) /\ DOMAIN Append(q, item) = 1 .. Len(q) + 1 /\ Len(q) \in Nat
  BY <1>1, LenProperties
<1> QED
  BY <1>1, <1>2 DEF HasUnjoin

\* Putting a list of join events in front of a queue.
LEMMA PrependQueue ==
    ASSUME NEW q \in Seq(Item), NEW f \in JoinLists, NEW n \in Nat \ {0}
    PROVE  LET p == [k \in DOMAIN f |-> [id |-> n + k - 1, ev |-> JoinEvents[f[k]]]]
           IN  /\ Len(f) \in Nat
               /\ p \o q \in Seq(Item)
               /\ HasUnjoin(p \o q) => HasUnjoin(q)
<1> DEFINE p == [k \in DOMAIN f |-> [id |-> n + k - 1, ev |-> JoinEvents[f[k]]]]
<1>1. PICK m \in Nat : f \in [1 .. m -> DOMAIN JoinEvents]
  <2>1. Len(JoinEvents) \in Nat
    BY EventsAssumption, LenProperties
  <2> QED
    BY <2>1 DEF JoinLists
<1>2. Len(f) = m
  BY <1>1
<1>3. \A k \in DOMAIN f : /\ n + k - 1 \in Nat \ {0}
                          /\ JoinEvents[f[k]] \in Range(JoinEvents)
  BY <1>1 DEF Range
<1>4. \A k \in 1 .. m : /\ p[k] \in Item
                        /\ p[k].ev \in Range(JoinEvents)
  BY <1>1, <1>3 DEF Item, AllEvents
<1>5. p \in Seq(Item) /\ Len(p) = m
  <2>1. p \in [1 .. m -> Item]
    BY <1>1, <1>4
  <2> HIDE DEF p
  <2> QED
    BY <2>1, SeqDef
<1> HIDE DEF p
<1>6. /\ p \o q \in Seq(Item)
      /\ Len(p \o q) = m + Len(q)
      /\ \A i \in 1 .. m + Len(q) :
            (p \o q)[i] = IF i <= m THEN p[i] ELSE q[i - m]
  BY <1>5, ConcatProperties
<1>7. HasUnjoin(p \o q) => HasUnjoin(q)
  <2>1. DOMAIN (p \o q) = 1 .. m + Len(q) /\ DOMAIN q = 1 .. Len(q) /\ Len(q) \in Nat
    BY <1>6, LenProperties
  <2>2. \A k \in 1 .. m : p[k].ev # UnjoinEvent
    BY <1>4, EventsAssumption
  <2> QED
    BY <1>6, <2>1, <2>2 DEF HasUnjoin
<1> QED
  BY <1>2, <1>6, <1>7 DEF p

------------------------------------------------------------------------------
(* Draining                                                                *)

Clients == {"none", "offline", "connected", "ending"}

\* What an attempt to drain a queue leaves behind, by the kind of client.
Drained(q, c, w) ==
    /\ draining' \in BOOLEAN
    /\ inflight' \in Item \cup {NoItem}
    /\ wire' \in Seq(Item)
    /\ client' = c \/ (client' = "ending" /\ c = "offline" /\ HasUnjoin(q))
    /\ inflight' # NoItem => /\ c = "connected"
                             /\ wire' # <<>>
                             /\ wire'[Len(wire')] = inflight'
                             /\ inflight'.ev = UnjoinEvent => HasUnjoin(q)
    /\ c = "connected" /\ draining' => inflight' # NoItem
    /\ c = "connected" /\ ~draining' => q = <<>>
    /\ c # "connected" => wire' = w
    /\ handed' \subseteq handed \cup Nat

LEMMA DoDrainResult ==
    ASSUME NEW q \in Seq(Item), NEW c \in Clients, NEW w \in Seq(Item),
           DoDrainPublications(q, c, w)
    PROVE  Drained(q, c, w)
<1>1. CASE /\ c = "none" \/ q = <<>>
           /\ StopDraining(c, w)
  BY <1>1 DEF StopDraining, Drained
<1>2. CASE /\ c = "connected" /\ q # <<>>
           /\ Write(q, w)
           /\ client' = c
  <2>1. Head(q) \in Item /\ Head(q) = q[1] /\ 1 \in DOMAIN q
    BY <1>2, HeadTailProperties, EmptySeq, LenProperties
  <2>2. Head(q) # NoItem
    BY <2>1 DEF Item, NoItem
  <2>3. /\ wire' \in Seq(Item)
        /\ wire' # <<>>
        /\ wire'[Len(wire')] = Head(q)
    BY <1>2, <2>1, AppendProperties, LenProperties DEF Write
  <2>4. Head(q).ev = UnjoinEvent => HasUnjoin(q)
    BY <2>1 DEF HasUnjoin
  <2> QED
    BY <1>2, <2>1, <2>2, <2>3, <2>4 DEF Write, Drained, Item
<1>3. CASE /\ c \in {"offline", "ending"} /\ q # <<>>
           /\ WriteFails(q, c, w)
  BY <1>3 DEF WriteFails, Drained
<1> QED
  BY <1>1, <1>2, <1>3 DEF DoDrainPublications

\* The same for _drainPublications(), called with a queue that the drain
\* flag and the awaited callback of the current state speak of.
LEMMA DrainResult ==
    ASSUME IInv, NEW q \in Seq(Item), DrainPublications(q),
           HasUnjoin(pending) => HasUnjoin(q),
           inflight # NoItem /\ inflight.ev = UnjoinEvent => HasUnjoin(q)
    PROVE  Drained(q, client, wire)
<1>1. CASE draining
  BY <1>1 DEF DrainPublications, Drained, IInv, TypeOK, Flow
<1>2. CASE ~draining
  <2>1. DoDrainPublications(q, client, wire)
    BY <1>2 DEF DrainPublications
  <2> QED
    BY <2>1, DoDrainResult DEF IInv, TypeOK, Clients
<1> QED
  BY <1>1, <1>2

------------------------------------------------------------------------------
(* The inductive invariant                                                 *)

LEMMA InitInvariant == Init => IInv
<1>1. <<>> \in Seq(Item)
  BY EmptySeq
<1> SUFFICES ASSUME Init PROVE IInv
  OBVIOUS
<1>2. TypeOK
  <2>1. pending \in Seq(Item) /\ wire \in Seq(Item)
    BY <1>1 DEF Init
  <2>2. /\ state \in {"Initialized", "Joined", "Unjoined"}
        /\ client \in {"none", "offline", "connected", "ending"}
        /\ session \in BOOLEAN
        /\ draining \in BOOLEAN
        /\ online \in BOOLEAN
        /\ promise \in {"none", "pending", "resolved"}
        /\ lastSeen \in {"nothing", "unjoin", "other"}
    BY DEF Init
  <2>3. /\ issued \subseteq Subs
        /\ brokerSubs \subseteq {s.filter : s \in Subs}
        /\ nextId \in Nat \ {0}
        /\ accepted \subseteq Nat
        /\ live \subseteq accepted
        /\ handed \subseteq Nat
        /\ losses \in Nat
    BY DEF Init
  <2>4. inflight \in Item \cup {NoItem}
    BY DEF Init
  <2> QED
    BY <2>1, <2>2, <2>3, <2>4 DEF TypeOK
<1>3. ~HasUnjoin(pending)
  BY DEF Init, HasUnjoin
<1>4. Flow /\ Sessions /\ Promises
  BY <1>3 DEF Init, Flow, Sessions, Promises
<1> QED
  BY <1>2, <1>4 DEF Init, IInv, SubscriptionsInSync, OnlineHasSession, UnjoinSeenLast

\* publish() before and after join().
LEMMA PublishInvariant ==
    ASSUME IInv, NEW e \in Events, Publish(e)
    PROVE  IInv'
<1>1. [id |-> nextId, ev |-> e] \in Item /\ e # UnjoinEvent
  BY EventsAssumption DEF IInv, TypeOK, Item, AllEvents
<1>2. /\ pending' \in Seq(Item)
      /\ HasUnjoin(pending') <=> FALSE
      /\ ~HasUnjoin(pending)
  BY <1>1, AppendQueue DEF Publish, IInv, TypeOK, Promises
<1>3. inflight # NoItem => inflight.ev # UnjoinEvent
  BY DEF Publish, IInv, Promises
<1>4. Drained(pending', client, wire)
  BY <1>2, <1>3, DrainResult DEF Publish
<1>5. client' = client
  BY <1>2, <1>4 DEF Drained
<1>6. TypeOK'
  <2>1. /\ nextId' \in Nat \ {0}
        /\ accepted' \subseteq Nat
        /\ live' \subseteq accepted'
    <3>1. CASE UNCHANGED <<nextId, accepted, live>>
      BY <3>1 DEF IInv, TypeOK
    <3>2. CASE /\ nextId' = nextId + 1
               /\ accepted' = accepted \cup {nextId}
               /\ live' = IF client = "connected" THEN live \cup {nextId} ELSE live
      BY <3>2 DEF IInv, TypeOK
    <3> QED
      BY <3>1, <3>2 DEF Publish
  <2> QED
    BY <1>2, <1>4, <1>5, <2>1 DEF Publish, IInv, TypeOK, Drained, subVars
<1>7. Flow'
  BY <1>4, <1>5 DEF Flow, Drained
<1>8. Sessions' /\ Promises'
  BY <1>2, <1>4, <1>5 DEF Publish, IInv, Sessions, Promises, Drained
<1> QED
  BY <1>5, <1>6, <1>7, <1>8
  DEF Publish, IInv, SubscriptionsInSync, OnlineHasSession, UnjoinSeenLast, subVars

\* unsubscribe() with another event type that may share the filter.
LEMMA UnsubscribeInvariant ==
    ASSUME IInv, NEW s \in Subs, Unsubscribe(s)
    PROVE  IInv'
<1>1. SubscriptionsInSync'
  <2>1. CASE client # "connected"
    BY <2>1 DEF Unsubscribe, SubscriptionsInSync
  <2>2. CASE /\ client = "connected"
             /\ \E t \in issued' : t.type = OtherEventType(s.type) /\ t.filter = s.filter
    BY <2>2 DEF Unsubscribe, IInv, SubscriptionsInSync
  <2>3. CASE /\ client = "connected"
             /\ ~\E t \in issued' : t.type = OtherEventType(s.type) /\ t.filter = s.filter
    <3>1. \A t \in issued' : t.filter # s.filter
      <4>1. ASSUME NEW t \in issued', t.filter = s.filter
            PROVE  t.type = OtherEventType(s.type)
        <5>1. t \in Subs /\ t # s
          BY DEF Unsubscribe, IInv, TypeOK
        <5>2. {s.type, t.type} = {"Raw", "IoValue"}
          BY <4>1, <5>1, SubsAssumption
        <5> QED
          BY <5>2 DEF OtherEventType
      <4> QED
        BY <2>3, <4>1
    <3>2. brokerSubs' = brokerSubs \ {s.filter}
      BY <2>3 DEF Unsubscribe
    <3>3. brokerSubs = {t.filter : t \in issued}
      BY <2>3 DEF IInv, SubscriptionsInSync
    <3>4. issued' = issued \ {s}
      BY DEF Unsubscribe
    <3>5. brokerSubs' = {t.filter : t \in issued'}
      BY <3>1, <3>2, <3>3, <3>4
    <3> QED
      BY <3>5 DEF SubscriptionsInSync
  <2> QED
    BY <2>1, <2>2, <2>3
<1> QED
  BY <1>1 DEF Unsubscribe, IInv, TypeOK, Flow, Sessions, Promises, OnlineHasSession,
     UnjoinSeenLast, queueVars, histVars

\* unjoin() of a joined binding, in whatever state the client is.
LEMMA UnjoinJoinedInvariant ==
    ASSUME IInv, UnjoinJoined
    PROVE  IInv'
<1>1. [id |-> nextId, ev |-> UnjoinEvent] \in Item
  BY DEF IInv, TypeOK, Item, AllEvents
<1>2. pending' \in Seq(Item) /\ HasUnjoin(pending')
  <2>1. /\ pending' \in Seq(Item)
        /\ Len(pending') = Len(pending) + 1
        /\ pending'[Len(pending) + 1].ev = UnjoinEvent
    BY <1>1, AppendProperties DEF UnjoinJoined, IInv, TypeOK
  <2>2. Len(pending) + 1 \in DOMAIN pending'
    BY <2>1, LenProperties DEF IInv, TypeOK
  <2> QED
    BY <2>1, <2>2 DEF HasUnjoin
<1>3. Drained(pending', client, wire)
  BY <1>2, DrainResult DEF UnjoinJoined
<1>4. TypeOK'
  BY <1>2, <1>3 DEF UnjoinJoined, IInv, TypeOK, Drained, subVars
<1>5. client # "none" /\ client # "ending"
  BY DEF UnjoinJoined, IInv, Promises
<1>6. Flow' /\ Sessions' /\ Promises'
  BY <1>3, <1>5 DEF UnjoinJoined, IInv, Flow, Sessions, Promises, Drained
<1> QED
  BY <1>3, <1>4, <1>6 DEF UnjoinJoined, IInv, SubscriptionsInSync, OnlineHasSession,
     UnjoinSeenLast, subVars, Drained

\* The connect handler.
LEMMA ConnectInvariant ==
    ASSUME IInv, Connect
    PROVE  IInv'
<1>1. /\ nextId' \in Nat \ {0}
      /\ pending' \in Seq(Item)
      /\ HasUnjoin(pending') => HasUnjoin(pending)
  <2>1. PICK f \in JoinLists :
            /\ nextId' = nextId + Len(f)
            /\ pending' = [k \in DOMAIN f |->
                              [id |-> nextId + k - 1, ev |-> JoinEvents[f[k]]]] \o pending
    BY DEF Connect
  <2> QED
    BY <2>1, PrependQueue DEF IInv, TypeOK
<1>2. <<>> \in Seq(Item)
  BY EmptySeq
<1>3. Drained(pending', "connected", <<>>)
  BY <1>1, <1>2, DoDrainResult DEF Connect, Clients
<1>4. client' = "connected"
  BY <1>3 DEF Drained
<1>5. brokerSubs' \subseteq {s.filter : s \in Subs}
  BY DEF Connect, IInv, TypeOK
<1>6. TypeOK'
  BY <1>1, <1>3, <1>4, <1>5 DEF Connect, IInv, TypeOK, Drained
<1>7. Flow' /\ Sessions' /\ Promises'
  BY <1>1, <1>3, <1>4 DEF Connect, IInv, Flow, Sessions, Promises, Drained
<1> QED
  BY <1>6, <1>7 DEF Connect, IInv, SubscriptionsInSync, OnlineHasSession, UnjoinSeenLast

\* The publish callback, after which draining goes on or the client ends.
LEMMA PublishedInvariant ==
    ASSUME IInv, Published
    PROVE  IInv'
<1> DEFINE c == IF inflight.ev = UnjoinEvent THEN "ending" ELSE client
<1>1. /\ pending' \in Seq(Item)
      /\ HasUnjoin(pending') => HasUnjoin(pending)
  BY WithoutQueue DEF Published, IInv, TypeOK
<1>2. /\ client = "connected"
      /\ session
      /\ wire # <<>>
      /\ wire[Len(wire)] = inflight
  BY DEF Published, IInv, Flow, Sessions
<1>3. Drained(pending', c, wire)
  BY <1>1, <1>2, DoDrainResult DEF Published, IInv, TypeOK, Clients
<1>4. client' = c
  BY <1>2, <1>3 DEF Drained
<1>5. TypeOK'
  BY <1>1, <1>2, <1>3, <1>4 DEF Published, IInv, TypeOK, Drained, subVars
<1>6. Flow'
  BY <1>3, <1>4 DEF Flow, Drained
<1>7. Sessions'
  BY <1>2, <1>3, <1>4 DEF Published, Sessions, Drained
<1>8. Promises'
  BY <1>1, <1>2, <1>3, <1>4 DEF Published, IInv, Promises, Drained
<1> QED
  BY <1>2, <1>4, <1>5, <1>6, <1>7, <1>8
  DEF Published, IInv, SubscriptionsInSync, OnlineHasSession, UnjoinSeenLast, subVars

\* Every step preserves the inductive invariant.
LEMMA NextInvariant == IInv /\ [Next]_vars => IInv'
<1> SUFFICES ASSUME IInv, [Next]_vars PROVE IInv'
  OBVIOUS
<1> USE DEF IInv
<1>0. <<>> \in Seq(Item) /\ ~HasUnjoin(<<>>)
  BY EmptySeq DEF HasUnjoin
<1>1. ASSUME Join PROVE IInv'
  BY <1>1 DEF Join, TypeOK, Flow, Sessions, Promises, SubscriptionsInSync,
     OnlineHasSession, UnjoinSeenLast, queueVars, subVars, histVars
<1>2. ASSUME NEW e \in Events, Publish(e) PROVE IInv'
  BY <1>2, PublishInvariant
<1>3. ASSUME NEW s \in Subs, Subscribe(s) PROVE IInv'
  <2>1. SubscriptionsInSync'
    BY <1>3 DEF Subscribe, SubscriptionsInSync
  <2> QED
    BY <1>3, <2>1 DEF Subscribe, TypeOK, Flow, Sessions, Promises, OnlineHasSession,
       UnjoinSeenLast, queueVars, histVars
<1>4. ASSUME NEW s \in Subs, Unsubscribe(s) PROVE IInv'
  BY <1>4, UnsubscribeInvariant
<1>5. ASSUME UnjoinInitialized PROVE IInv'
  <2>1. client = "none" /\ inflight = NoItem
    BY <1>5 DEF UnjoinInitialized, Flow, Promises
  <2>2. TypeOK'
    BY <1>0, <1>5 DEF UnjoinInitialized, TypeOK, histVars
  <2> QED
    BY <1>0, <1>5, <2>1, <2>2 DEF UnjoinInitialized, Flow, Sessions, Promises,
       SubscriptionsInSync, OnlineHasSession, UnjoinSeenLast, histVars
<1>6. ASSUME UnjoinJoined PROVE IInv'
  BY <1>6, UnjoinJoinedInvariant
<1>7. ASSUME Connect PROVE IInv'
  BY <1>7, ConnectInvariant
<1>8. ASSUME Published PROVE IInv'
  BY <1>8, PublishedInvariant
<1>9. ASSUME LoseConnection PROVE IInv'
  <2>1. TypeOK'
    <3>1. /\ client' \in {"none", "offline", "connected", "ending"}
          /\ losses' \in Nat
          /\ lastSeen' \in {"nothing", "unjoin", "other"}
          /\ draining' \in BOOLEAN
          /\ online' \in BOOLEAN
          /\ session' \in BOOLEAN
      <4>1. client' \in {"none", "offline", "connected", "ending"}
        BY <1>9 DEF LoseConnection, TypeOK
      <4>2. losses' \in Nat
        BY <1>9 DEF LoseConnection, TypeOK
      <4>3. lastSeen' = "unjoin" /\ draining' = TRUE /\ online' = FALSE /\ session' = FALSE
        BY <1>9 DEF LoseConnection, GoOffline, LastWill
      <4> QED
        BY <4>1, <4>2, <4>3
    <3>2. /\ wire' \in Seq(Item)
          /\ inflight' \in Item \cup {NoItem}
          /\ brokerSubs' \subseteq {s.filter : s \in Subs}
      BY <1>0, <1>9 DEF LoseConnection
    <3> QED
      BY <1>9, <3>1, <3>2 DEF LoseConnection, TypeOK
  <2> QED
    BY <1>0, <1>9, <2>1 DEF LoseConnection, GoOffline, LastWill, Flow, Sessions,
       Promises, SubscriptionsInSync, OnlineHasSession, UnjoinSeenLast
<1>10. ASSUME ConnectFails PROVE IInv'
  BY <1>10 DEF ConnectFails, GoOffline, TypeOK, Flow, Sessions, Promises,
     SubscriptionsInSync, OnlineHasSession, UnjoinSeenLast, subVars, histVars
<1>11. ASSUME ClientError PROVE IInv'
  BY <1>11 DEF ClientError, TypeOK, Flow, Sessions, Promises, SubscriptionsInSync,
     OnlineHasSession, UnjoinSeenLast, queueVars, subVars, histVars
<1>12. ASSUME Ended PROVE IInv'
  <2>1. TypeOK'
    BY <1>0, <1>12 DEF Ended, TypeOK, histVars
  <2>2. UnjoinSeenLast'
    BY <1>12 DEF Ended, Sessions, UnjoinSeenLast
  <2> QED
    BY <1>0, <1>12, <2>1, <2>2 DEF Ended, Flow, Sessions, Promises,
       SubscriptionsInSync, OnlineHasSession
<1>13. ASSUME UNCHANGED vars PROVE IInv'
  BY <1>13 DEF vars, TypeOK, Flow, Sessions, Promises, SubscriptionsInSync,
     OnlineHasSession, UnjoinSeenLast, queueVars, subVars, histVars
<1> QED
  BY <1>1, <1>2, <1>3, <1>4, <1>5, <1>6, <1>7, <1>8, <1>9, <1>10, <1>11, <1>12,
     <1>13 DEF Next

LEMMA Invariance == Spec => []IInv
<1> QED
  BY InitInvariant, NextInvariant, PTL DEF Spec

------------------------------------------------------------------------------
(* The order of the queue                                                  *)

\* Join events are advertised on topics of their own: no two of them, and no
\* other event of the agent, share a topic.
DistinctTopics ==
    /\ \A i, j \in DOMAIN JoinEvents : Topic[JoinEvents[i]] = Topic[JoinEvents[j]] => i = j
    /\ \A i \in DOMAIN JoinEvents, e \in Events \cup {UnjoinEvent} :
          Topic[e] # Topic[JoinEvents[i]]

\* The order in which two items are written: other events in the order of their
\* publication, join events in their given order and before all others.
Before(x, y) ==
    /\ ~IsJoin(x) /\ ~IsJoin(y) => x.id < y.id
    /\ DistinctTopics /\ IsJoin(y) =>
          /\ IsJoin(x)
          /\ \A i, j \in DOMAIN JoinEvents :
                x.ev = JoinEvents[i] /\ y.ev = JoinEvents[j] => i < j

Sorted(q) == \A a, b \in DOMAIN q : a < b => Before(q[a], q[b])

\* Each item of a queue has a number of its own, lower than the next one.
Numbered(q, n) ==
    /\ \A k \in DOMAIN q : q[k].id < n
    /\ \A k, l \in DOMAIN q : q[k].id = q[l].id => k = l

\* What is written comes before what is queued, except for the item awaited,
\* which is the first one of the queue.
WrittenFirst(w, q, item) ==
    /\ \A a \in DOMAIN w, b \in DOMAIN q : item = NoItem \/ b > 1 => Before(w[a], q[b])
    /\ item # NoItem => q # << >> /\ q[1] = item

UnjoinLast(q) == \A k \in DOMAIN q : q[k].ev = UnjoinEvent => k = Len(q)

InOrder ==
    /\ Sorted(pending)
    /\ Sorted(wire)
    /\ Numbered(pending, nextId)
    /\ \A k \in DOMAIN wire : wire[k].id < nextId
    /\ WrittenFirst(wire, pending, inflight)
    /\ UnjoinLast(pending)

\* A client that has had a session ends only when all has been written.
Accounted ==
    /\ inflight # NoItem => inflight.id \in handed
    /\ client = "offline" /\ lastSeen # "nothing" => draining
    /\ state = "Initialized" => lastSeen = "nothing"
    /\ client = "ending" /\ (session \/ lastSeen # "nothing") => accepted \subseteq handed
    /\ NothingLost

Holds(q, e) == \E k \in DOMAIN q : q[k].ev = e

\* The queue misses a join event only if it misses all before it, and in a
\* session each one is either written or queued.
JoinsKept ==
    /\ session \/ wire = << >>
    /\ DistinctTopics =>
          /\ \A i, j \in DOMAIN JoinEvents :
                i < j /\ Holds(pending, JoinEvents[i]) => Holds(pending, JoinEvents[j])
          /\ session => \A i \in DOMAIN JoinEvents :
                           Holds(wire, JoinEvents[i]) \/ Holds(pending, JoinEvents[i])

QueueInv == InOrder /\ Accounted /\ JoinsKept

\* The items of a sequence have the indices from 1 to its length.
LEMMA QueueDomain ==
    ASSUME NEW q \in Seq(Item)
    PROVE  Len(q) \in Nat /\ DOMAIN q = 1 .. Len(q) /\ \A k \in DOMAIN q : q[k] \in Item
  BY LenProperties, ElementOfSeq

\* Events other than join events are never mistaken for one.
LEMMA NotJoin ==
    ASSUME NEW e \in Events \cup {UnjoinEvent}
    PROVE  /\ \A n : ~IsJoin([id |-> n, ev |-> e])
           /\ \A i \in DOMAIN JoinEvents : JoinEvents[i] # e
<1>1. e \notin Range(JoinEvents)
  BY EventsAssumption
<1> QED
  BY <1>1 DEF IsJoin, Range

\* A publication is queued behind all others, with the next number.
LEMMA AppendOrder ==
    ASSUME IInv, QueueInv, NEW e \in Events \cup {UnjoinEvent}, ~HasUnjoin(pending),
           NEW p, p = Append(pending, [id |-> nextId, ev |-> e])
    PROVE  /\ p \in Seq(Item)
           /\ Sorted(p) /\ Numbered(p, nextId + 1) /\ UnjoinLast(p)
           /\ WrittenFirst(wire, p, inflight)
           /\ \A i \in DOMAIN JoinEvents : Holds(p, JoinEvents[i]) <=> Holds(pending, JoinEvents[i])
           /\ \A k \in DOMAIN pending : k \in DOMAIN p /\ p[k] = pending[k]
           /\ \E k \in DOMAIN p : p[k].id = nextId
<1> DEFINE x == [id |-> nextId, ev |-> e]
           n == Len(pending)
<1>1. pending \in Seq(Item) /\ wire \in Seq(Item) /\ nextId \in Nat \ {0}
  BY DEF IInv, TypeOK
<1>2. x \in Item /\ x.id = nextId /\ x.ev = e /\ ~IsJoin(x)
  BY <1>1, NotJoin DEF Item, AllEvents
<1> HIDE DEF x
<1>3. /\ p \in Seq(Item) /\ Len(p) = n + 1 /\ n \in Nat
      /\ DOMAIN pending = 1 .. n /\ DOMAIN p = 1 .. n + 1
      /\ \A k \in 1 .. n : p[k] = pending[k]
      /\ p[n + 1] = x
  BY <1>1, <1>2, AppendProperties, QueueDomain DEF x
<1>4. /\ \A k \in 1 .. n : pending[k] \in Item /\ pending[k].id < nextId
      /\ \A k \in DOMAIN wire : wire[k] \in Item /\ wire[k].id < nextId
  BY <1>1, <1>3, QueueDomain DEF QueueInv, InOrder, Numbered
<1>5. \A k \in 1 .. n + 1 : k \in 1 .. n \/ k = n + 1
  BY <1>3
<1>6. /\ \A k \in 1 .. n : Before(pending[k], x)
      /\ \A k \in DOMAIN wire : Before(wire[k], x)
  BY <1>2, <1>4 DEF Before
<1>7. Sorted(p)
  <2> SUFFICES ASSUME NEW a \in 1 .. n + 1, NEW b \in 1 .. n + 1, a < b
               PROVE  Before(p[a], p[b])
    BY <1>3 DEF Sorted
  <2>1. a \in 1 .. n
    BY <1>3
  <2>2. CASE b \in 1 .. n
    BY <1>3, <2>1, <2>2 DEF QueueInv, InOrder, Sorted
  <2>3. CASE b = n + 1
    BY <1>3, <1>6, <2>1, <2>3
  <2> QED
    BY <1>5, <2>2, <2>3
<1>8. Numbered(p, nextId + 1)
  <2>1. \A k \in 1 .. n + 1 : p[k].id < nextId + 1
    <3>1. \A k \in 1 .. n : p[k].id \in Nat /\ p[k].id < nextId
      BY <1>3, <1>4 DEF Item
    <3> QED
      BY <1>1, <1>2, <1>3, <1>5, <3>1
  <2>2. ASSUME NEW k \in 1 .. n + 1, NEW l \in 1 .. n + 1, p[k].id = p[l].id
        PROVE  k = l
    <3>1. CASE k \in 1 .. n /\ l \in 1 .. n
      BY <1>3, <2>2, <3>1 DEF QueueInv, InOrder, Numbered
    <3>2. \A j \in 1 .. n : p[j].id # nextId
      BY <1>1, <1>3, <1>4 DEF Item
    <3> QED
      BY <1>2, <1>3, <1>5, <2>2, <3>1, <3>2
  <2> QED
    BY <1>3, <2>1, <2>2 DEF Numbered
<1>9. UnjoinLast(p)
  BY <1>3, <1>5 DEF UnjoinLast, HasUnjoin
<1>10. WrittenFirst(wire, p, inflight)
  <2>1. ASSUME NEW a \in DOMAIN wire, NEW b \in DOMAIN p, inflight = NoItem \/ b > 1
        PROVE  Before(wire[a], p[b])
    <3>1. CASE b \in 1 .. n
      BY <1>3, <2>1, <3>1 DEF QueueInv, InOrder, WrittenFirst
    <3>2. CASE b = n + 1
      BY <1>3, <1>6, <3>2
    <3> QED
      BY <1>3, <1>5, <3>1, <3>2
  <2>2. inflight # NoItem => p # << >> /\ p[1] = inflight
    <3> SUFFICES ASSUME inflight # NoItem PROVE p # << >> /\ p[1] = inflight
      OBVIOUS
    <3>1. pending # << >> /\ pending[1] = inflight
      BY DEF QueueInv, InOrder, WrittenFirst
    <3>2. 1 \in 1 .. n
      BY <1>1, <1>3, <3>1, EmptySeq
    <3>3. p # << >>
      BY <1>3, EmptySeq
    <3> QED
      BY <1>3, <3>1, <3>2, <3>3
  <2> QED
    BY <2>1, <2>2 DEF WrittenFirst
<1>11. \A i \in DOMAIN JoinEvents : Holds(p, JoinEvents[i]) <=> Holds(pending, JoinEvents[i])
  BY <1>2, <1>3, <1>5, NotJoin DEF Holds
<1> QED
  BY <1>2, <1>3, <1>7, <1>8, <1>9, <1>10, <1>11

\* Draining writes the first item of the queue, behind all that is written.
DrainedInOrder(q, w) ==
    /\ Sorted(wire')
    /\ WrittenFirst(wire', q, inflight')
    /\ inflight' # NoItem => inflight'.id \in handed'
    /\ handed \subseteq handed'
    /\ \A k \in DOMAIN w : k \in DOMAIN wire' /\ wire'[k] = w[k]
    /\ \A k \in DOMAIN wire' :
          \/ k \in DOMAIN w /\ wire'[k] = w[k]
          \/ \E l \in DOMAIN q : wire'[k] = q[l]
    /\ inflight' # NoItem \/ wire' = w

LEMMA DoDrainOrder ==
    ASSUME NEW q \in Seq(Item), NEW c \in Clients, NEW w \in Seq(Item),
           Sorted(q), Sorted(w), WrittenFirst(w, q, NoItem),
           DoDrainPublications(q, c, w)
    PROVE  DrainedInOrder(q, w)
<1>1. CASE /\ wire' = w
           /\ inflight' = NoItem
           /\ UNCHANGED handed
  BY <1>1 DEF DrainedInOrder
<1>2. CASE q # << >> /\ Write(q, w)
  <2> DEFINE x == Head(q)
             n == Len(w)
  <2>1. x \in Item /\ x = q[1] /\ 1 \in DOMAIN q /\ x # NoItem
    <3>1. x \in Item /\ x = q[1] /\ 1 \in DOMAIN q
      BY <1>2, HeadTailProperties, EmptySeq, QueueDomain
    <3> QED
      BY <3>1 DEF Item, NoItem
  <2>2. /\ wire' \in Seq(Item) /\ Len(wire') = n + 1 /\ n \in Nat
        /\ DOMAIN w = 1 .. n /\ DOMAIN wire' = 1 .. n + 1
        /\ \A k \in 1 .. n : wire'[k] = w[k]
        /\ wire'[n + 1] = x
        /\ inflight' = x /\ handed' = handed \cup {x.id}
    BY <1>2, <2>1, AppendProperties, QueueDomain DEF Write
  <2> HIDE DEF x
  <2>3. \A k \in 1 .. n + 1 : k \in 1 .. n \/ k = n + 1
    BY <2>2
  <2>4. \A k \in 1 .. n, l \in DOMAIN q : Before(w[k], q[l])
    BY <2>2 DEF WrittenFirst
  <2>5. Sorted(wire')
    <3> SUFFICES ASSUME NEW a \in 1 .. n + 1, NEW b \in 1 .. n + 1, a < b
                 PROVE  Before(wire'[a], wire'[b])
      BY <2>2 DEF Sorted
    <3>1. a \in 1 .. n
      BY <2>2
    <3>2. CASE b \in 1 .. n
      BY <2>2, <3>1, <3>2 DEF Sorted
    <3>3. CASE b = n + 1
      BY <2>1, <2>2, <2>4, <3>1, <3>3
    <3> QED
      BY <2>3, <3>2, <3>3
  <2>6. WrittenFirst(wire', q, inflight')
    <3>1. ASSUME NEW a \in DOMAIN wire', NEW b \in DOMAIN q, b > 1
          PROVE  Before(wire'[a], q[b])
      <4>1. CASE a \in 1 .. n
        BY <2>2, <2>4, <4>1
      <4>2. CASE a = n + 1
        <5>1. Before(q[1], q[b])
          BY <2>1, <3>1 DEF Sorted
        <5> QED
          BY <2>1, <2>2, <4>2, <5>1
      <4> QED
        BY <2>2, <2>3, <4>1, <4>2
    <3> QED
      BY <1>2, <2>1, <2>2, <3>1 DEF WrittenFirst
  <2> QED
    BY <2>1, <2>2, <2>3, <2>5, <2>6 DEF DrainedInOrder
<1> QED
  BY <1>1, <1>2 DEF DoDrainPublications, StopDraining, WriteFails

\* The same for _drainPublications() after an item has been queued.
LEMMA DrainOrder ==
    ASSUME IInv, QueueInv, NEW q \in Seq(Item), Sorted(q), WrittenFirst(wire, q, inflight),
           DrainPublications(q)
    PROVE  DrainedInOrder(q, wire)
<1>1. CASE draining
  BY <1>1 DEF DrainPublications, DrainedInOrder, QueueInv, InOrder, Accounted
<1>2. CASE ~draining
  <2>1. inflight = NoItem
    BY <1>2 DEF IInv, Flow, QueueInv, InOrder, WrittenFirst
  <2>2. DoDrainPublications(q, client, wire)
    BY <1>2 DEF DrainPublications
  <2> QED
    BY <2>1, <2>2, DoDrainOrder DEF IInv, TypeOK, Clients, QueueInv, InOrder
<1> QED
  BY <1>1, <1>2

\* A publication that is queued and, if nothing else is, written at once.
LEMMA QueuedOrder ==
    ASSUME IInv, IInv', QueueInv, NEW e \in Events \cup {UnjoinEvent}, ~HasUnjoin(pending),
           pending' = Append(pending, [id |-> nextId, ev |-> e]), nextId' = nextId + 1,
           DrainPublications(pending'), UNCHANGED session
    PROVE  /\ InOrder' /\ JoinsKept'
           /\ inflight' # NoItem => inflight'.id \in handed'
           /\ handed \subseteq handed'
           /\ \A k \in DOMAIN pending : k \in DOMAIN pending' /\ pending'[k] = pending[k]
           /\ \E k \in DOMAIN pending' : pending'[k].id = nextId
<1>1. /\ pending' \in Seq(Item)
      /\ Sorted(pending') /\ Numbered(pending', nextId + 1) /\ UnjoinLast(pending')
      /\ WrittenFirst(wire, pending', inflight)
      /\ \A i \in DOMAIN JoinEvents :
            Holds(pending', JoinEvents[i]) <=> Holds(pending, JoinEvents[i])
      /\ \A k \in DOMAIN pending : k \in DOMAIN pending' /\ pending'[k] = pending[k]
      /\ \E k \in DOMAIN pending' : pending'[k].id = nextId
  BY AppendOrder
<1>2. DrainedInOrder(pending', wire)
  BY <1>1, DrainOrder
<1>3. \A k \in DOMAIN wire' : wire'[k].id < nextId'
  <2>1. \A k \in DOMAIN wire : wire[k].id \in Nat /\ wire[k].id < nextId /\ nextId \in Nat
    BY QueueDomain DEF IInv, TypeOK, QueueInv, InOrder, Item
  <2>2. \A k \in DOMAIN wire : wire[k].id < nextId + 1
    BY <2>1
  <2> QED
    BY <1>1, <1>2, <2>2 DEF DrainedInOrder, Numbered
<1>4. InOrder'
  BY <1>1, <1>2, <1>3 DEF DrainedInOrder, InOrder, Sorted, Numbered, WrittenFirst, UnjoinLast
<1>5. session' \/ wire' = << >>
  <2>1. CASE inflight' # NoItem
    BY <2>1 DEF IInv, Flow, Sessions
  <2>2. CASE wire' = wire
    BY <2>2 DEF QueueInv, JoinsKept
  <2> QED
    BY <1>2, <2>1, <2>2 DEF DrainedInOrder
<1>6. \A f : Holds(wire, f) => Holds(wire', f)
  BY <1>2 DEF DrainedInOrder, Holds
<1>7. JoinsKept'
  <2>1. ASSUME DistinctTopics, NEW i \in DOMAIN JoinEvents, NEW j \in DOMAIN JoinEvents, i < j,
               Holds(pending', JoinEvents[i])
        PROVE  Holds(pending', JoinEvents[j])
    BY <1>1, <2>1 DEF QueueInv, JoinsKept
  <2>2. ASSUME DistinctTopics, session', NEW i \in DOMAIN JoinEvents
        PROVE  Holds(wire', JoinEvents[i]) \/ Holds(pending', JoinEvents[i])
    BY <1>1, <1>6, <2>2 DEF QueueInv, JoinsKept
  <2> QED
    BY <1>5, <2>1, <2>2 DEF JoinsKept, Holds
<1> QED
  BY <1>1, <1>2, <1>4, <1>7 DEF DrainedInOrder

\* What draining does to the client, and what it keeps.
LEMMA DrainClient ==
    ASSUME NEW q, DrainPublications(q)
    PROVE  /\ client' = client \/ (client' = "ending" /\ client \in {"offline", "ending"} /\ ~draining)
           /\ draining => draining'
  BY DEF DrainPublications, DoDrainPublications, StopDraining, Write, WriteFails

\* publish(): the item is queued last and written if nothing else is.
LEMMA PublishOrder ==
    ASSUME IInv, IInv', QueueInv, NEW e \in Events, Publish(e)
    PROVE  QueueInv'
<1>1. /\ UNCHANGED <<state, session, promise, lastSeen>> /\ promise = "none"
      /\ ~HasUnjoin(pending) /\ client # "ending" /\ client' # "ending"
  BY DEF Publish, IInv, Promises
<1>2. DrainPublications(pending')
  BY DEF Publish
<1>3. client' = client /\ (draining => draining')
  BY <1>1, <1>2, DrainClient
<1>4. CASE e \in BadPayload
  <2>1. UNCHANGED <<pending, nextId, accepted>>
    BY <1>4 DEF Publish
  <2>2. ~draining => inflight = NoItem
    BY DEF IInv, Flow, QueueInv, InOrder, WrittenFirst
  <2>3. UNCHANGED <<inflight, wire, handed>>
    <3>1. CASE draining
      BY <1>2, <3>1 DEF DrainPublications
    <3>2. CASE ~draining
      <4>1. DoDrainPublications(pending, client, wire) /\ (client = "connected" => pending = << >>)
        BY <1>2, <2>1, <3>2 DEF DrainPublications, IInv, Flow
      <4>2. inflight' = NoItem /\ wire' = wire /\ handed' = handed
        BY <4>1 DEF DoDrainPublications, StopDraining, WriteFails
      <4> QED
        BY <2>2, <3>2, <4>2
    <3> QED
      BY <3>1, <3>2
  <2>4. InOrder' /\ JoinsKept'
    BY <1>1, <2>1, <2>3
    DEF QueueInv, InOrder, JoinsKept, Sorted, Numbered, WrittenFirst, UnjoinLast, Holds
  <2>5. Accounted'
    BY <1>1, <1>3, <2>1, <2>3 DEF QueueInv, Accounted, NothingLost
  <2> QED
    BY <2>4, <2>5 DEF QueueInv
<1>5. CASE e \notin BadPayload
  <2>1. /\ pending' = Append(pending, [id |-> nextId, ev |-> e]) /\ nextId' = nextId + 1
        /\ accepted' = accepted \cup {nextId}
    BY <1>5 DEF Publish
  <2>2. /\ InOrder' /\ JoinsKept'
        /\ inflight' # NoItem => inflight'.id \in handed'
        /\ handed \subseteq handed'
        /\ \A k \in DOMAIN pending : k \in DOMAIN pending' /\ pending'[k] = pending[k]
        /\ \E k \in DOMAIN pending' : pending'[k].id = nextId
    BY <1>1, <1>2, <2>1, QueuedOrder
  <2>3. \A id \in accepted' \ handed' : \E k \in DOMAIN pending' : pending'[k].id = id
    BY <1>1, <2>1, <2>2 DEF QueueInv, Accounted, NothingLost
  <2>4. Accounted'
    BY <1>1, <1>3, <2>2, <2>3 DEF QueueInv, Accounted, NothingLost
  <2> QED
    BY <2>2, <2>4 DEF QueueInv
<1> QED
  BY <1>4, <1>5

\* unjoin(): the unjoin event is queued last, and ends the client at once only
\* if it has never been connected.
LEMMA UnjoinJoinedOrder ==
    ASSUME IInv, IInv', QueueInv, UnjoinJoined
    PROVE  QueueInv'
<1>1. /\ promise = "none" /\ promise' = "pending" /\ state' = "Unjoined"
      /\ ~HasUnjoin(pending) /\ client \notin {"none", "ending"}
      /\ UNCHANGED <<session, lastSeen, accepted>>
  BY DEF UnjoinJoined, IInv, Promises
<1>2. /\ pending' = Append(pending, [id |-> nextId, ev |-> UnjoinEvent]) /\ nextId' = nextId + 1
      /\ DrainPublications(pending')
  BY DEF UnjoinJoined
<1>3. /\ client' = client \/ (client' = "ending" /\ client = "offline" /\ ~draining)
      /\ draining => draining'
  BY <1>1, <1>2, DrainClient
<1>4. /\ InOrder' /\ JoinsKept'
      /\ inflight' # NoItem => inflight'.id \in handed'
      /\ handed \subseteq handed'
      /\ \A k \in DOMAIN pending : k \in DOMAIN pending' /\ pending'[k] = pending[k]
  BY <1>1, <1>2, QueuedOrder
<1>5. client' = "ending" => ~session /\ lastSeen = "nothing"
  BY <1>1, <1>3 DEF IInv, Sessions, QueueInv, Accounted
<1>6. \A id \in accepted' \ handed' : \E k \in DOMAIN pending' : pending'[k].id = id
  BY <1>1, <1>4 DEF QueueInv, Accounted, NothingLost
<1>7. client' = "offline" /\ lastSeen' # "nothing" => draining'
  BY <1>1, <1>3 DEF QueueInv, Accounted
<1>8. Accounted'
  BY <1>1, <1>4, <1>5, <1>6, <1>7 DEF Accounted, NothingLost
<1> QED
  BY <1>4, <1>8 DEF QueueInv

\* A join event is missing exactly if the queue does not hold it.
LEMMA MissingJoin ==
    ASSUME DistinctTopics, NEW q \in Seq(Item), NEW i \in DOMAIN JoinEvents
    PROVE  i \in MissingJoinEvents(q) <=> ~Holds(q, JoinEvents[i])
<1>1. \A j \in DOMAIN JoinEvents : j > i => Topic[JoinEvents[j]] # Topic[JoinEvents[i]]
  <2> SUFFICES ASSUME NEW j \in DOMAIN JoinEvents, j > i
               PROVE  Topic[JoinEvents[j]] # Topic[JoinEvents[i]]
    OBVIOUS
  <2>1. Len(JoinEvents) \in Nat /\ DOMAIN JoinEvents = 1 .. Len(JoinEvents)
    BY EventsAssumption, LenProperties
  <2>2. i # j
    BY <2>1
  <2> QED
    BY <2>2 DEF DistinctTopics
<1>2. \A k \in DOMAIN q :
         Topic[q[k].ev] = Topic[JoinEvents[i]] <=> q[k].ev = JoinEvents[i]
  <2> SUFFICES ASSUME NEW k \in DOMAIN q, Topic[q[k].ev] = Topic[JoinEvents[i]]
               PROVE  q[k].ev = JoinEvents[i]
    OBVIOUS
  <2>1. q[k].ev \in Events \cup {UnjoinEvent} \/ \E j \in DOMAIN JoinEvents : q[k].ev = JoinEvents[j]
    BY QueueDomain DEF Item, AllEvents, Range
  <2> QED
    BY <2>1 DEF DistinctTopics
<1> QED
  BY <1>1, <1>2 DEF MissingJoinEvents, Holds

\* The connect handler puts the missing join events in front of the queue.
LEMMA PrependOrder ==
    ASSUME IInv, QueueInv, NEW f \in JoinLists, ListsMissing(f, pending),
           NEW q, q = [k \in DOMAIN f |-> [id |-> nextId + k - 1, ev |-> JoinEvents[f[k]]]] \o pending
    PROVE  /\ Sorted(q) /\ Numbered(q, nextId + Len(f)) /\ UnjoinLast(q)
           /\ \A k \in DOMAIN pending : \E l \in DOMAIN q : q[l] = pending[k]
           /\ DistinctTopics => \A i \in DOMAIN JoinEvents : Holds(q, JoinEvents[i])
<1> DEFINE p == [k \in DOMAIN f |-> [id |-> nextId + k - 1, ev |-> JoinEvents[f[k]]]]
           n == Len(pending)
<1>1. PICK m \in Nat : f \in [1 .. m -> DOMAIN JoinEvents]
  <2>1. Len(JoinEvents) \in Nat
    BY EventsAssumption, LenProperties
  <2> QED
    BY <2>1 DEF JoinLists
<1>2. Len(f) = m /\ DOMAIN f = 1 .. m
  BY <1>1
<1>3. /\ pending \in Seq(Item) /\ nextId \in Nat \ {0}
      /\ n \in Nat /\ DOMAIN pending = 1 .. n /\ \A k \in 1 .. n : pending[k] \in Item
  BY QueueDomain DEF IInv, TypeOK
<1>4. \A k \in 1 .. m : /\ nextId + k - 1 \in Nat \ {0}
                        /\ f[k] \in DOMAIN JoinEvents
                        /\ JoinEvents[f[k]] \in Range(JoinEvents)
  BY <1>1, <1>3 DEF Range
<1>5. p \in Seq(Item) /\ Len(p) = m
  <2>1. \A k \in 1 .. m : p[k] \in Item
    BY <1>2, <1>4 DEF Item, AllEvents
  <2>2. p \in [1 .. m -> Item]
    BY <1>2, <2>1
  <2> HIDE DEF p
  <2> QED
    BY <1>1, <2>2, SeqDef
<1>6. \A k \in 1 .. m : p[k].id = nextId + k - 1 /\ p[k].ev = JoinEvents[f[k]] /\ IsJoin(p[k])
  BY <1>2, <1>4 DEF IsJoin
<1> HIDE DEF p
<1>7. /\ DOMAIN q = 1 .. m + n /\ Len(q) = m + n
      /\ \A k \in 1 .. m : k \in 1 .. m + n /\ q[k] = p[k]
      /\ \A k \in 1 .. n : k + m \in 1 .. m + n /\ q[k + m] = pending[k]
  <2>1. /\ q \in Seq(Item)
        /\ Len(q) = m + n
        /\ \A k \in 1 .. m + n : q[k] = IF k <= m THEN p[k] ELSE pending[k - m]
    BY <1>3, <1>5, ConcatProperties DEF p
  <2>2. DOMAIN q = 1 .. m + n
    BY <2>1, QueueDomain
  <2>3. \A k \in 1 .. m : k \in 1 .. m + n /\ k <= m
    BY <1>3
  <2>4. \A k \in 1 .. n : k + m \in 1 .. m + n /\ ~(k + m <= m) /\ (k + m) - m = k
    BY <1>3
  <2> QED
    BY <2>1, <2>2, <2>3, <2>4
<1>8. \A k \in 1 .. m + n : k \in 1 .. m \/ \E l \in 1 .. n : k = l + m
  <2> SUFFICES ASSUME NEW k \in 1 .. m + n, k \notin 1 .. m PROVE \E l \in 1 .. n : k = l + m
    OBVIOUS
  <2>1. k - m \in 1 .. n /\ k = (k - m) + m
    BY <1>3
  <2> QED
    BY <2>1
<1>9. DistinctTopics => \A i, j \in DOMAIN JoinEvents : JoinEvents[i] = JoinEvents[j] => i = j
  BY DEF DistinctTopics
<1>10. Sorted(q)
  <2>1. ASSUME NEW a \in 1 .. m, NEW b \in 1 .. m, a < b
        PROVE  Before(p[a], p[b])
    <3>1. f[a] < f[b]
      BY <1>2, <2>1 DEF ListsMissing
    <3> QED
      BY <1>4, <1>6, <1>9, <3>1 DEF Before
  <2>2. ASSUME NEW a \in 1 .. m, NEW b \in 1 .. n
        PROVE  Before(p[a], pending[b])
    <3> SUFFICES ASSUME DistinctTopics, NEW j \in DOMAIN JoinEvents, pending[b].ev = JoinEvents[j]
                 PROVE  f[a] < j
      <4>1. IsJoin(p[a]) /\ p[a].ev = JoinEvents[f[a]] /\ f[a] \in DOMAIN JoinEvents
        BY <1>4, <1>6
      <4> QED
        BY <1>9, <4>1 DEF Before
    <3>1. f[a] \in MissingJoinEvents(pending)
      BY <1>2 DEF ListsMissing, Range
    <3>2. ~Holds(pending, JoinEvents[f[a]]) /\ Holds(pending, JoinEvents[j])
      BY <1>3, <1>4, <3>1, MissingJoin DEF Holds
    <3>3. f[a] # j /\ ~(j < f[a])
      BY <1>4, <3>2 DEF QueueInv, JoinsKept
    <3>4. f[a] \in Nat /\ j \in Nat
      <4>1. f[a] \in DOMAIN JoinEvents
        BY <1>4
      <4>2. DOMAIN JoinEvents \subseteq Nat
        BY EventsAssumption, LenProperties
      <4> QED
        BY <4>1, <4>2
    <3> QED
      BY <3>3, <3>4
  <2> SUFFICES ASSUME NEW a \in 1 .. m + n, NEW b \in 1 .. m + n, a < b
               PROVE  Before(q[a], q[b])
    BY <1>7 DEF Sorted
  <2>3. CASE a \in 1 .. m /\ b \in 1 .. m
    BY <1>7, <2>1, <2>3
  <2>4. CASE a \in 1 .. m /\ b \notin 1 .. m
    BY <1>7, <1>8, <2>2, <2>4
  <2>5. CASE a \notin 1 .. m
    <3>1. b \notin 1 .. m
      BY <2>5
    <3>2. PICK k \in 1 .. n, l \in 1 .. n : a = k + m /\ b = l + m
      BY <1>8, <2>5, <3>1
    <3>3. k < l
      BY <1>1, <3>2
    <3>4. Before(pending[k], pending[l])
      BY <1>3, <3>3 DEF QueueInv, InOrder, Sorted
    <3>5. q[a] = pending[k] /\ q[b] = pending[l]
      BY <1>7, <3>2
    <3> QED
      BY <3>4, <3>5
  <2> QED
    BY <2>3, <2>4, <2>5
<1>11. Numbered(q, nextId + Len(f))
  <2>1. /\ \A k \in 1 .. m : q[k].id = nextId + k - 1
        /\ \A k \in 1 .. n : q[k + m].id \in Nat /\ q[k + m].id < nextId
    BY <1>3, <1>6, <1>7 DEF QueueInv, InOrder, Numbered, Item
  <2> DEFINE id(k) == q[k].id
  <2>10. \A k \in 1 .. m : id(k) = nextId + k - 1 /\ id(k) \in Int
    BY <1>1, <1>3, <2>1
  <2> HIDE DEF id
  <2>11. ASSUME NEW k \in 1 .. n PROVE id(k + m) \in Int /\ id(k + m) < nextId
    <3>1. id(k + m) \in Nat /\ id(k + m) < nextId
      BY <2>1 DEF id
    <3> QED
      BY <3>1
  <2>12. nextId \in Int /\ m \in Int /\ m >= 0
    BY <1>1, <1>3
  <2>2. ASSUME NEW k \in 1 .. m + n PROVE id(k) < nextId + m
    <3>1. CASE k \in 1 .. m
      BY <2>10, <2>12, <3>1
    <3>2. CASE k \notin 1 .. m
      <4>1. PICK l \in 1 .. n : k = l + m
        BY <1>8, <3>2
      <4> QED
        BY <2>11, <2>12, <4>1
    <3> QED
      BY <3>1, <3>2
  <2>3. ASSUME NEW k \in 1 .. m + n, NEW l \in 1 .. m + n, id(k) = id(l) PROVE k = l
    <3>1. CASE k \in 1 .. m /\ l \in 1 .. m
      BY <2>3, <2>10, <2>12, <3>1
    <3>2. ASSUME NEW i \in 1 .. m, NEW j \in 1 .. n PROVE id(i) # id(j + m)
      <4>1. id(i) = nextId + i - 1 /\ id(j + m) < nextId /\ id(j + m) \in Int
        BY <2>10, <2>11
      <4> QED
        BY <2>12, <4>1
    <3>3. CASE k \notin 1 .. m /\ l \notin 1 .. m
      <4>1. PICK i \in 1 .. n, j \in 1 .. n : k = i + m /\ l = j + m
        BY <1>8, <3>3
      <4>2. pending[i].id = pending[j].id
        BY <1>7, <2>3, <4>1 DEF id
      <4> QED
        BY <1>3, <4>1, <4>2 DEF QueueInv, InOrder, Numbered
    <3> QED
      BY <1>8, <2>3, <3>1, <3>2, <3>3
  <2> QED
    BY <1>2, <1>7, <2>2, <2>3 DEF Numbered, id
<1>12. UnjoinLast(q)
  <2> SUFFICES ASSUME NEW k \in 1 .. m + n, q[k].ev = UnjoinEvent PROVE k = m + n
    BY <1>7 DEF UnjoinLast
  <2>1. k \notin 1 .. m
    BY <1>4, <1>6, <1>7, EventsAssumption
  <2>2. PICK l \in 1 .. n : k = l + m
    BY <1>8, <2>1
  <2>3. l = n
    BY <1>3, <1>7, <2>2 DEF QueueInv, InOrder, UnjoinLast
  <2> QED
    BY <1>1, <1>3, <2>2, <2>3
<1>13. ASSUME DistinctTopics, NEW i \in DOMAIN JoinEvents PROVE Holds(q, JoinEvents[i])
  <2>1. CASE Holds(pending, JoinEvents[i])
    BY <1>3, <1>7, <2>1 DEF Holds
  <2>2. CASE i \in MissingJoinEvents(pending)
    <3>1. PICK k \in 1 .. m : f[k] = i
      BY <1>2, <2>2 DEF ListsMissing, Range
    <3>2. k \in DOMAIN q /\ q[k].ev = JoinEvents[i]
      BY <1>6, <1>7, <3>1
    <3> QED
      BY <3>2 DEF Holds
  <2> QED
    BY <1>3, <1>13, <2>1, <2>2, MissingJoin
<1> QED
  BY <1>3, <1>7, <1>10, <1>11, <1>12, <1>13

\* "connect": a session begins with an empty log, and draining starts over.
LEMMA ConnectOrder ==
    ASSUME IInv, IInv', QueueInv, Connect
    PROVE  QueueInv'
<1>1. PICK f \in JoinLists :
         /\ ListsMissing(f, pending)
         /\ nextId' = nextId + Len(f)
         /\ pending' = [k \in DOMAIN f |->
                           [id |-> nextId + k - 1, ev |-> JoinEvents[f[k]]]] \o pending
  BY DEF Connect
<1>2. /\ Sorted(pending') /\ Numbered(pending', nextId') /\ UnjoinLast(pending')
      /\ \A k \in DOMAIN pending : \E l \in DOMAIN pending' : pending'[l] = pending[k]
      /\ DistinctTopics => \A i \in DOMAIN JoinEvents : Holds(pending', JoinEvents[i])
  <2>1. /\ Sorted(pending') /\ Numbered(pending', nextId + Len(f)) /\ UnjoinLast(pending')
        /\ \A k \in DOMAIN pending : \E l \in DOMAIN pending' : pending'[l] = pending[k]
        /\ DistinctTopics => \A i \in DOMAIN JoinEvents : Holds(pending', JoinEvents[i])
    <3> DEFINE q == [k \in DOMAIN f |-> [id |-> nextId + k - 1, ev |-> JoinEvents[f[k]]]] \o pending
    <3>1. ListsMissing(f, pending) /\ pending' = q
      BY <1>1
    <3>2. /\ Sorted(q) /\ Numbered(q, nextId + Len(f)) /\ UnjoinLast(q)
          /\ \A k \in DOMAIN pending : \E l \in DOMAIN q : q[l] = pending[k]
          /\ DistinctTopics => \A i \in DOMAIN JoinEvents : Holds(q, JoinEvents[i])
      BY <3>1, PrependOrder
    <3> HIDE DEF q
    <3> QED
      BY <3>1, <3>2
  <2> QED
    BY <1>1, <2>1
<1>3. /\ << >> \in Seq(Item) /\ Sorted(<< >>) /\ WrittenFirst(<< >>, pending', NoItem)
      /\ pending' \in Seq(Item) /\ DOMAIN << >> = {}
  BY EmptySeq DEF Sorted, WrittenFirst, IInv, TypeOK
<1>4. DrainedInOrder(pending', << >>)
  BY <1>2, <1>3, DoDrainOrder DEF Connect, Clients
<1>5. client' = "connected" /\ session'
  BY DEF Connect, DoDrainPublications, StopDraining, Write, WriteFails
<1>6. \A k \in DOMAIN wire' : wire'[k].id < nextId'
  BY <1>2, <1>3, <1>4 DEF DrainedInOrder, Numbered
<1>7. InOrder'
  BY <1>2, <1>4, <1>6 DEF DrainedInOrder, InOrder, Sorted, Numbered, WrittenFirst, UnjoinLast
<1>8. /\ UNCHANGED <<state, promise, lastSeen, accepted>>
      /\ state # "Initialized" /\ promise # "resolved"
  BY DEF Connect, IInv, Promises
<1>9. \A id \in accepted' \ handed' : \E k \in DOMAIN pending' : pending'[k].id = id
  <2> SUFFICES ASSUME NEW id \in accepted \ handed
               PROVE  \E k \in DOMAIN pending' : pending'[k].id = id
    BY <1>4, <1>8 DEF DrainedInOrder
  <2>1. PICK k \in DOMAIN pending : pending[k].id = id
    BY <1>8 DEF QueueInv, Accounted, NothingLost
  <2> QED
    BY <1>2, <2>1
<1>10. Accounted'
  BY <1>4, <1>5, <1>8, <1>9 DEF Accounted, NothingLost, DrainedInOrder
<1>11. JoinsKept'
  BY <1>2, <1>5 DEF JoinsKept, Holds
<1> QED
  BY <1>7, <1>10, <1>11 DEF QueueInv

\* Splicing out the first item leaves the others in their order.
LEMMA WithoutFirst ==
    ASSUME NEW q \in Seq(Item), q # << >>, NEW n, Numbered(q, n)
    PROVE  /\ Len(q) - 1 \in Nat /\ DOMAIN Without(q, q[1]) = 1 .. Len(q) - 1
           /\ Len(Without(q, q[1])) = Len(q) - 1
           /\ \A k \in 1 .. Len(q) - 1 : k + 1 \in DOMAIN q /\ Without(q, q[1])[k] = q[k + 1]
           /\ \A k \in DOMAIN q : k = 1 \/ k - 1 \in 1 .. Len(q) - 1
<1>1. Len(q) \in Nat /\ Len(q) # 0 /\ DOMAIN q = 1 .. Len(q) /\ 1 \in DOMAIN q
  BY QueueDomain, EmptySeq
<1>2. \A k \in DOMAIN q : q[k] = q[1] => k = 1
  BY <1>1 DEF Numbered
<1>3. (CHOOSE i \in DOMAIN q : q[i] = q[1]) = 1
  BY <1>1, <1>2
<1>4. Without(q, q[1]) = SubSeq(q, 1, 1 - 1) \o SubSeq(q, 1 + 1, Len(q))
  BY <1>1, <1>3 DEF Without
<1> DEFINE front == SubSeq(q, 1, 1 - 1)
           back  == SubSeq(q, 1 + 1, Len(q))
<1>5. /\ front \in Seq(Item)
      /\ Len(front) = 0
  <2>1. 1 \in 1 .. Len(q) + 1 /\ 1 - 1 \in 1 - 1 .. Len(q) /\ (1 - 1) - 1 + 1 = 0
    BY <1>1
  <2> QED
    BY <2>1, PartOfSeq
<1>6. /\ back \in Seq(Item)
      /\ Len(back) = Len(q) - 1
      /\ \A k \in 1 .. Len(q) - 1 : back[k] = q[k + 1]
  <2>1. /\ 1 + 1 \in 1 .. Len(q) + 1 /\ Len(q) \in (1 + 1) - 1 .. Len(q)
        /\ Len(q) - (1 + 1) + 1 = Len(q) - 1
    BY <1>1
  <2>2. /\ back \in Seq(Item)
        /\ Len(back) = Len(q) - (1 + 1) + 1
        /\ \A k \in 1 .. Len(q) - (1 + 1) + 1 : back[k] = q[(1 + 1) + k - 1]
    BY <2>1, PartOfSeq
  <2>3. \A k \in 1 .. Len(q) - 1 : (1 + 1) + k - 1 = k + 1
    BY <1>1
  <2> HIDE DEF back
  <2> QED
    BY <2>1, <2>2, <2>3
<1> HIDE DEF front, back
<1>7. Without(q, q[1]) = front \o back
  BY <1>4 DEF front, back
<1>8. /\ front \o back \in Seq(Item)
      /\ Len(front \o back) = Len(front) + Len(back)
      /\ \A k \in 1 .. Len(front) + Len(back) :
            (front \o back)[k] = IF k <= Len(front) THEN front[k] ELSE back[k - Len(front)]
  BY <1>5, <1>6, ConcatProperties
<1>9. /\ Len(front \o back) = Len(q) - 1
      /\ \A k \in 1 .. Len(q) - 1 : (front \o back)[k] = q[k + 1]
  BY <1>1, <1>5, <1>6, <1>8
<1>10. DOMAIN (front \o back) = 1 .. Len(q) - 1
  BY <1>8, <1>9, QueueDomain
<1>11. /\ \A k \in 1 .. Len(q) - 1 : k + 1 \in DOMAIN q
       /\ \A k \in DOMAIN q : k = 1 \/ k - 1 \in 1 .. Len(q) - 1
       /\ Len(q) - 1 \in Nat
  BY <1>1
<1> QED
  BY <1>7, <1>9, <1>10, <1>11

\* The publish callback: what comes next is written behind what is there.
LEMMA PublishedOrder ==
    ASSUME IInv, IInv', QueueInv, Published
    PROVE  QueueInv'
<1> DEFINE q == pending
           p == pending'
           n == Len(pending)
           c == IF inflight.ev = UnjoinEvent THEN "ending" ELSE client
<1>1. /\ inflight # NoItem /\ q \in Seq(Item) /\ wire \in Seq(Item) /\ p \in Seq(Item)
      /\ q # << >> /\ q[1] = inflight /\ inflight.id \in handed
      /\ client = "connected" /\ session /\ wire # << >> /\ wire[Len(wire)] = inflight
  <2>1. inflight # NoItem
    BY DEF Published
  <2>2. q \in Seq(Item) /\ wire \in Seq(Item) /\ p \in Seq(Item)
    BY DEF IInv, TypeOK
  <2>3. q # << >> /\ q[1] = inflight /\ inflight.id \in handed
    BY <2>1 DEF QueueInv, InOrder, WrittenFirst, Accounted
  <2>4. client = "connected" /\ session /\ wire # << >> /\ wire[Len(wire)] = inflight
    BY <2>1 DEF IInv, Flow, Sessions
  <2> QED
    BY <2>1, <2>2, <2>3, <2>4
<1>2. /\ UNCHANGED <<state, session, promise, lastSeen, nextId, accepted>>
      /\ p = Without(q, q[1])
      /\ DoDrainPublications(p, c, wire)
  BY <1>1 DEF Published
<1>3. /\ n - 1 \in Nat /\ DOMAIN p = 1 .. n - 1 /\ Len(p) = n - 1
      /\ \A k \in 1 .. n - 1 : k + 1 \in DOMAIN q /\ p[k] = q[k + 1]
      /\ \A k \in DOMAIN q : k = 1 \/ k - 1 \in 1 .. n - 1
  <2>1. Numbered(q, nextId)
    BY DEF QueueInv, InOrder
  <2> HIDE DEF p
  <2> QED
    BY <1>1, <1>2, <2>1, WithoutFirst
<1>4. n \in Nat /\ DOMAIN q = 1 .. n /\ DOMAIN wire = 1 .. Len(wire) /\ Len(wire) \in DOMAIN wire
  BY <1>1, QueueDomain, EmptySeq
<1>5. \A k \in DOMAIN q : k # 1 => k - 1 \in DOMAIN p /\ p[k - 1] = q[k]
  BY <1>3, <1>4
<1> HIDE DEF p, q, n, c
<1>6. Sorted(p)
  <2> SUFFICES ASSUME NEW a \in 1 .. n - 1, NEW b \in 1 .. n - 1, a < b
               PROVE  Before(q[a + 1], q[b + 1])
    BY <1>3 DEF Sorted
  <2>1. a + 1 < b + 1
    BY <1>4
  <2> QED
    BY <1>3, <2>1 DEF QueueInv, InOrder, Sorted, q
<1>7. Numbered(p, nextId)
  <2>1. \A k \in 1 .. n - 1 : p[k].id < nextId
    BY <1>3 DEF QueueInv, InOrder, Numbered, q
  <2>2. ASSUME NEW k \in 1 .. n - 1, NEW l \in 1 .. n - 1, p[k].id = p[l].id PROVE k = l
    <3>1. k + 1 = l + 1
      BY <1>3, <2>2 DEF QueueInv, InOrder, Numbered, q
    <3> QED
      BY <1>4, <3>1
  <2> QED
    BY <1>3, <2>1, <2>2 DEF Numbered
<1>8. WrittenFirst(wire, p, NoItem)
  <2> SUFFICES ASSUME NEW a \in DOMAIN wire, NEW b \in 1 .. n - 1
               PROVE  Before(wire[a], q[b + 1])
    BY <1>3 DEF WrittenFirst
  <2>1. b + 1 > 1
    BY <1>4
  <2> QED
    BY <1>3, <2>1 DEF QueueInv, InOrder, WrittenFirst, q
<1>9. UnjoinLast(p)
  <2> SUFFICES ASSUME NEW k \in 1 .. n - 1, q[k + 1].ev = UnjoinEvent PROVE k = n - 1
    BY <1>3 DEF UnjoinLast
  <2>1. k + 1 = n
    BY <1>3 DEF QueueInv, InOrder, UnjoinLast, q, n
  <2> QED
    BY <1>4, <2>1
<1>10. DrainedInOrder(p, wire) /\ client' = c
  <2>1. c \in Clients /\ c \in {"connected", "ending"}
    BY <1>1 DEF c, Clients
  <2>2. Sorted(wire)
    BY DEF QueueInv, InOrder
  <2>3. DrainedInOrder(p, wire)
    BY <1>1, <1>2, <1>6, <1>8, <2>1, <2>2, DoDrainOrder
  <2>4. client' = c
    BY <1>2, <2>1 DEF DoDrainPublications, StopDraining, Write, WriteFails
  <2> QED
    BY <2>3, <2>4
<1>11. InOrder'
  <2>1. \A k \in DOMAIN wire' : wire'[k].id < nextId'
    <3>1. \A k \in DOMAIN wire : wire[k].id < nextId
      BY DEF QueueInv, InOrder
    <3> QED
      BY <1>2, <1>7, <1>10, <3>1 DEF DrainedInOrder, Numbered
  <2>2. Sorted(p) /\ Sorted(wire') /\ Numbered(p, nextId') /\ UnjoinLast(p) /\ WrittenFirst(wire', p, inflight')
    BY <1>2, <1>6, <1>7, <1>9, <1>10 DEF DrainedInOrder
  <2> QED
    BY <2>1, <2>2 DEF InOrder, p, Sorted, Numbered, UnjoinLast, WrittenFirst
<1>12. \A id \in accepted \ handed : \E k \in DOMAIN p : p[k].id = id
  <2> SUFFICES ASSUME NEW id \in accepted \ handed PROVE \E k \in DOMAIN p : p[k].id = id
    OBVIOUS
  <2>1. promise # "resolved"
    BY <1>1 DEF IInv, Promises
  <2>2. PICK k \in DOMAIN q : q[k].id = id
    BY <2>1 DEF QueueInv, Accounted, NothingLost, q
  <2>3. k # 1
    BY <1>1, <2>2
  <2> QED
    BY <1>5, <2>2, <2>3
<1>13. client' = "ending" => accepted \subseteq handed
  <2> SUFFICES ASSUME client' = "ending" PROVE accepted \subseteq handed
    OBVIOUS
  <2>1. q[1].ev = UnjoinEvent /\ 1 \in DOMAIN q
    BY <1>1, <1>4, <1>10, EmptySeq DEF c
  <2>2. n = 1
    BY <2>1 DEF QueueInv, InOrder, UnjoinLast, q, n
  <2>3. DOMAIN p = {}
    BY <1>3, <2>2
  <2> QED
    BY <1>12, <2>3
<1>14. Accounted'
  <2>1. state' # "Initialized" /\ promise' # "resolved" /\ client' # "offline"
    BY <1>1, <1>2, <1>10 DEF IInv, Promises, c
  <2>2. accepted' = accepted /\ handed \subseteq handed' /\ (inflight' # NoItem => inflight'.id \in handed')
    BY <1>2, <1>10 DEF DrainedInOrder
  <2> QED
    BY <1>12, <1>13, <2>1, <2>2 DEF Accounted, NothingLost, p
<1>15. JoinsKept'
  <2>1. \A e : Holds(wire, e) => Holds(wire', e)
    BY <1>10 DEF DrainedInOrder, Holds
  <2>2. \A e : Holds(q, e) => Holds(p, e) \/ Holds(wire, e)
    BY <1>1, <1>4, <1>5 DEF Holds
  <2>3. ASSUME DistinctTopics, NEW i \in DOMAIN JoinEvents, NEW j \in DOMAIN JoinEvents, i < j,
               Holds(p, JoinEvents[i])
        PROVE  Holds(p, JoinEvents[j])
    <3>1. PICK a \in 1 .. n - 1 : q[a + 1].ev = JoinEvents[i] /\ a + 1 \in DOMAIN q /\ p[a] = q[a + 1]
      BY <1>3, <2>3 DEF Holds
    <3>2. Holds(q, JoinEvents[j])
      BY <2>3, <3>1 DEF QueueInv, JoinsKept, Holds, q
    <3>3. PICK b \in DOMAIN q : q[b].ev = JoinEvents[j]
      BY <3>2 DEF Holds
    <3>4. CASE b # 1
      BY <1>5, <3>3, <3>4 DEF Holds
    <3>5. CASE b = 1
      <4>1. b < a + 1
        BY <1>4, <3>5
      <4>2. Before(q[b], q[a + 1]) /\ IsJoin(q[a + 1])
        BY <3>1, <4>1 DEF QueueInv, InOrder, Sorted, q, IsJoin, Range
      <4>3. j < i
        BY <2>3, <3>1, <3>3, <4>2 DEF Before
      <4>4. i \in Nat /\ j \in Nat
        BY EventsAssumption, LenProperties
      <4> QED
        BY <2>3, <4>3, <4>4
    <3> QED
      BY <3>4, <3>5
  <2>4. session' /\ session
    BY <1>1, <1>2
  <2>5. DistinctTopics => \A i \in DOMAIN JoinEvents :
                              Holds(wire', JoinEvents[i]) \/ Holds(p, JoinEvents[i])
    BY <2>1, <2>2, <2>4 DEF QueueInv, JoinsKept, q
  <2> QED
    BY <2>3, <2>4, <2>5 DEF JoinsKept, p, Holds
<1> QED
  BY <1>11, <1>14, <1>15 DEF QueueInv

\* A broken connection takes the log of its session and the awaited callback
\* with it, but leaves the queue.
LEMMA LoseConnectionOrder ==
    ASSUME IInv, QueueInv, LoseConnection
    PROVE  QueueInv'
<1>1. /\ session /\ client \in {"connected", "ending"} /\ state # "Initialized" /\ promise # "resolved"
      /\ wire' = << >> /\ inflight' = NoItem /\ session' = FALSE /\ draining' = TRUE
      /\ UNCHANGED <<state, promise, pending, nextId, accepted, handed>>
      /\ client' = "ending" => client = "ending"
  <2>1. session /\ client \in {"connected", "ending"} /\ state # "Initialized" /\ promise # "resolved"
    BY DEF LoseConnection, IInv, Sessions, Promises
  <2>2. wire' = << >> /\ inflight' = NoItem /\ session' = FALSE /\ draining' = TRUE
    BY DEF LoseConnection, GoOffline
  <2> QED
    BY <2>1, <2>2 DEF LoseConnection
<1>2. DOMAIN wire' = {}
  BY <1>1, EmptySeq
<1>3. InOrder'
  <2>1. Sorted(wire)' /\ \A k \in DOMAIN wire' : wire'[k].id < nextId'
    BY <1>2 DEF Sorted
  <2>2. WrittenFirst(wire', pending', inflight')
    BY <1>1, <1>2 DEF WrittenFirst
  <2>3. Sorted(pending') /\ Numbered(pending', nextId') /\ UnjoinLast(pending')
    BY <1>1 DEF QueueInv, InOrder
  <2> QED
    BY <2>1, <2>2, <2>3 DEF InOrder, Sorted, Numbered, UnjoinLast, WrittenFirst
<1>4. Accounted'
  BY <1>1 DEF QueueInv, Accounted, NothingLost
<1>5. JoinsKept'
  BY <1>1 DEF QueueInv, JoinsKept, Holds
<1> QED
  BY <1>3, <1>4, <1>5 DEF QueueInv

\* _reset() empties the queue, after unjoining or instead of joining.
LEMMA ResetOrder ==
    ASSUME IInv, QueueInv, UnjoinInitialized \/ Ended
    PROVE  QueueInv'
<1>1. /\ pending' = << >> /\ wire' = << >> /\ inflight' = NoItem /\ ~session'
      /\ client' = "none" /\ state' # "Initialized"
      /\ promise' = "resolved" /\ UNCHANGED <<nextId, accepted, handed>>
  <2>1. CASE UnjoinInitialized
    <3>1. client = "none" /\ ~session /\ wire = << >> /\ inflight = NoItem
      BY <2>1 DEF UnjoinInitialized, IInv, Promises, Sessions, Flow, QueueInv, JoinsKept
    <3> QED
      BY <2>1, <3>1 DEF UnjoinInitialized, histVars
  <2>2. CASE Ended
    <3>1. state # "Initialized"
      BY <2>2 DEF Ended, IInv, Promises
    <3> QED
      BY <2>2, <3>1 DEF Ended, histVars
  <2> QED
    BY <2>1, <2>2
<1>2. lastSeen' # "nothing" => accepted \subseteq handed
  <2>1. CASE UnjoinInitialized
    BY <2>1 DEF UnjoinInitialized, QueueInv, Accounted
  <2>2. CASE Ended
    BY <2>2 DEF Ended, QueueInv, Accounted
  <2> QED
    BY <2>1, <2>2
<1>3. DOMAIN wire' = {} /\ DOMAIN pending' = {}
  BY <1>1, EmptySeq
<1>4. InOrder'
  BY <1>1, <1>3 DEF InOrder, Sorted, Numbered, WrittenFirst, UnjoinLast
<1>5. Accounted'
  BY <1>1, <1>2 DEF Accounted, NothingLost
<1>6. JoinsKept'
  BY <1>1, <1>3 DEF JoinsKept, Holds
<1> QED
  BY <1>4, <1>5, <1>6 DEF QueueInv

\* Every step keeps the order of the queue.
LEMMA NextOrder == IInv /\ IInv' /\ QueueInv /\ [Next]_vars => QueueInv'
<1> SUFFICES ASSUME IInv, IInv', QueueInv, [Next]_vars PROVE QueueInv'
  OBVIOUS
<1>1. ASSUME UNCHANGED <<pending, wire, inflight, nextId, accepted, handed, session, promise, state,
                         lastSeen>>,
             client' = client /\ (draining => draining')
      PROVE  QueueInv'
  <2>1. InOrder' /\ JoinsKept'
    BY <1>1 DEF QueueInv, InOrder, JoinsKept, Sorted, Numbered, WrittenFirst, UnjoinLast, Holds
  <2>2. Accounted'
    BY <1>1 DEF QueueInv, Accounted, NothingLost
  <2> QED
    BY <2>1, <2>2 DEF QueueInv
<1>2. ASSUME Join PROVE QueueInv'
  <2>1. /\ client' = "offline" /\ lastSeen = "nothing" /\ promise # "resolved" /\ state' = "Joined"
        /\ UNCHANGED <<pending, wire, inflight, nextId, accepted, handed, session, promise, lastSeen>>
    BY <1>2 DEF Join, queueVars, histVars, IInv, Promises, QueueInv, Accounted
  <2>2. InOrder' /\ JoinsKept'
    BY <2>1 DEF QueueInv, InOrder, JoinsKept, Sorted, Numbered, WrittenFirst, UnjoinLast, Holds
  <2>3. Accounted'
    BY <2>1 DEF QueueInv, Accounted, NothingLost
  <2> QED
    BY <2>2, <2>3 DEF QueueInv
<1>3. ASSUME NEW s \in Subs, Subscribe(s) \/ Unsubscribe(s) PROVE QueueInv'
  BY <1>1, <1>3 DEF Subscribe, Unsubscribe, queueVars, histVars
<1>4. ASSUME ConnectFails \/ ClientError \/ UNCHANGED vars PROVE QueueInv'
  BY <1>1, <1>4 DEF ConnectFails, ClientError, GoOffline, vars, queueVars, histVars
<1> QED
  BY <1>2, <1>3, <1>4, PublishOrder, UnjoinJoinedOrder, ResetOrder, ConnectOrder, PublishedOrder,
     LoseConnectionOrder DEF Next

LEMMA InitOrder == Init => QueueInv
<1> SUFFICES ASSUME Init PROVE QueueInv
  OBVIOUS
<1>1. /\ pending = << >> /\ wire = << >> /\ inflight = NoItem /\ session = FALSE /\ accepted = {}
      /\ lastSeen = "nothing" /\ client = "none" /\ promise = "none"
  BY DEF Init
<1>2. DOMAIN wire = {} /\ DOMAIN pending = {}
  BY <1>1, EmptySeq
<1>3. InOrder
  BY <1>1, <1>2 DEF InOrder, Sorted, Numbered, WrittenFirst, UnjoinLast
<1>4. Accounted /\ JoinsKept
  BY <1>1, <1>2 DEF Accounted, NothingLost, JoinsKept, Holds
<1> QED
  BY <1>3, <1>4 DEF QueueInv

LEMMA OrderInvariance == Spec => []QueueInv
<1> QED
  BY InitOrder, NextOrder, Invariance, PTL DEF Spec

------------------------------------------------------------------------------
(* Results                                                                 *)

\* The binding's state is type-correct.
THEOREM TypeCorrect == Spec => []TypeOK
<1>1. IInv => TypeOK
  BY DEF IInv
<1> QED
  BY Invariance, <1>1, PTL

\* Over reconnects and shared filters, a connected binding is subscribed to
\* exactly the issued subscriptions.
THEOREM SubscriptionsAreInSync == Spec => []SubscriptionsInSync
<1>1. IInv => SubscriptionsInSync
  BY DEF IInv
<1> QED
  BY Invariance, <1>1, PTL

\* Whatever handlers interleave, the drain flag never stops the queue of a
\* connected binding.
THEOREM NeverStalls == Spec => []NoStall
<1>1. IInv => NoStall
  BY DEF IInv, TypeOK, Flow, NoStall
<1> QED
  BY Invariance, <1>1, PTL

\* The unjoin event is the last one that is seen of an agent whose session
\* has ended, in whatever way it has.
THEOREM UnjoinIsSeenLast == Spec => []UnjoinSeenLast
<1>1. IInv => UnjoinSeenLast
  BY DEF IInv
<1> QED
  BY Invariance, <1>1, PTL

\* An agent reports Online only while it has a broker session.
THEOREM OnlineMeansSession == Spec => []OnlineHasSession
<1>1. IInv => OnlineHasSession
  BY DEF IInv
<1> QED
  BY Invariance, <1>1, PTL

\* Handlers, publish callbacks and operations keep the session, the issued
\* subscriptions, the publication queue and the reported state consistent.
THEOREM BindingIsConsistent == Spec => []SessionConsistent
<1> QED
  BY TypeCorrect, SubscriptionsAreInSync, NeverStalls, OnlineMeansSession, PTL DEF SessionConsistent

\* A session receives application events and the unjoin event in the order of
\* their publication and once each, and nothing that publish() has accepted is
\* lost with a connection or left behind by unjoin() (mqtt-binding.ts:606-682).
THEOREM PublicationsStayInOrder == Spec => []PublicationsInOrder
<1>1. ASSUME IInv, QueueInv PROVE PublicationsInOrder
  <2>1. FifoPerSession
    BY <1>1 DEF QueueInv, InOrder, Sorted, Before, FifoPerSession
  <2> QED
    BY <1>1, <2>1 DEF QueueInv, Accounted, PublicationsInOrder
<1> QED
  BY Invariance, OrderInvariance, <1>1, PTL

\* If join events have topics of their own, which the once-check of the connect
\* handler relies on, each session receives all of them in their order before
\* anything else, over any number of reconnects, and whatever publications
\* and join events are left over from the sessions before
\* (mqtt-binding.ts:404-418, 620-627).
THEOREM JoinEventsAreFirst ==
    ASSUME DistinctTopics
    PROVE  Spec => []JoinEventsFirst
<1>1. ASSUME IInv, QueueInv PROVE JoinEventsFirst
  <2>1. /\ wire \in Seq(Item) /\ DOMAIN wire = 1 .. Len(wire) /\ Len(wire) \in Nat
        /\ Len(wire) \in DOMAIN wire \/ DOMAIN wire = {}
    BY <1>1, QueueDomain DEF IInv, TypeOK
  <2>2. ASSUME NEW b \in DOMAIN wire, NEW a \in 1 .. b - 1 PROVE a \in DOMAIN wire /\ Before(wire[a], wire[b])
    <3>1. a \in DOMAIN wire /\ a < b
      BY <2>1
    <3> QED
      BY <1>1, <3>1 DEF QueueInv, InOrder, Sorted
  <2>3. ASSUME NEW b \in DOMAIN wire, ~IsJoin(wire[b]), NEW i \in DOMAIN JoinEvents
        PROVE  \E a \in 1 .. b - 1 : wire[a].ev = JoinEvents[i]
    <3>1. session
      BY <1>1, <2>3, EmptySeq DEF QueueInv, JoinsKept
    <3>2. ASSUME NEW a \in DOMAIN wire, IsJoin(wire[a]) PROVE a \in 1 .. b - 1
      <4>1. a # b
        BY <2>3, <3>2
      <4>2. ~(b < a)
        BY <1>1, <2>3, <3>2 DEF QueueInv, InOrder, Sorted, Before
      <4> QED
        BY <2>1, <4>1, <4>2
    <3>3. \A x : x.ev = JoinEvents[i] => IsJoin(x)
      BY DEF IsJoin, Range
    <3>4. CASE Holds(wire, JoinEvents[i])
      BY <3>2, <3>3, <3>4 DEF Holds
    <3>5. CASE Holds(pending, JoinEvents[i])
      <4>1. PICK c \in DOMAIN pending : pending[c].ev = JoinEvents[i]
        BY <3>5 DEF Holds
      <4>2. IsJoin(pending[c])
        BY <3>3, <4>1
      <4>3. ~Before(wire[b], pending[c])
        BY <2>3, <4>2 DEF Before
      <4>4. inflight # NoItem /\ ~(c > 1)
        BY <1>1, <4>3 DEF QueueInv, InOrder, WrittenFirst
      <4>5. c = 1
        <5>1. c \in Nat /\ c >= 1
          BY <1>1, QueueDomain DEF IInv, TypeOK
        <5> QED
          BY <4>4, <5>1
      <4>6. pending[1] = wire[Len(wire)] /\ Len(wire) \in DOMAIN wire
        BY <1>1, <2>1, <4>4 DEF QueueInv, InOrder, WrittenFirst, IInv, Flow
      <4>7. Len(wire) \in 1 .. b - 1 /\ wire[Len(wire)].ev = JoinEvents[i]
        BY <3>2, <4>1, <4>2, <4>5, <4>6
      <4> QED
        BY <4>7
    <3> QED
      BY <1>1, <3>1, <3>4, <3>5 DEF QueueInv, JoinsKept
  <2>4. ASSUME NEW b \in DOMAIN wire, IsJoin(wire[b]), NEW a \in 1 .. b - 1
        PROVE  /\ IsJoin(wire[a])
               /\ \A i, j \in DOMAIN JoinEvents :
                     wire[a].ev = JoinEvents[i] /\ wire[b].ev = JoinEvents[j] => i < j
    BY <2>2, <2>4 DEF Before
  <2> QED
    BY <2>3, <2>4 DEF JoinEventsFirst, Range
<1> QED
  BY Invariance, OrderInvariance, <1>1, PTL

\* The initial states are those of the abstract binding.
LEMMA InitImplements == Init => Lifecycle!Init
  BY DEF Init, Lifecycle!Init, Link

\* Each step is a step of the abstract binding or a stutter.
LEMMA NextImplements ==
    IInv /\ IInv' /\ [Next]_vars => [Lifecycle!Next]_(Lifecycle!vars)
<1> SUFFICES ASSUME IInv, IInv', [Next]_vars
             PROVE  Lifecycle!Next \/ UNCHANGED <<state, Link, promise>>
  BY DEF Lifecycle!vars
<1> USE DEF IInv, Link, Sessions, Promises
<1>1. ASSUME Join PROVE Lifecycle!Join
  BY <1>1 DEF Join, Lifecycle!Join
<1>2. ASSUME NEW e \in Events, Publish(e) PROVE UNCHANGED <<state, Link, promise>>
  BY <1>2 DEF Publish
<1>3. ASSUME NEW s \in Subs, Subscribe(s) PROVE UNCHANGED <<state, Link, promise>>
  BY <1>3 DEF Subscribe
<1>4. ASSUME NEW s \in Subs, Unsubscribe(s) PROVE UNCHANGED <<state, Link, promise>>
  BY <1>4 DEF Unsubscribe
<1>5. ASSUME UnjoinInitialized PROVE Lifecycle!Unjoin
  BY <1>5 DEF UnjoinInitialized, Lifecycle!Unjoin
<1>6. ASSUME UnjoinJoined PROVE Lifecycle!Unjoin
  BY <1>6 DEF UnjoinJoined, Lifecycle!Unjoin
<1>7. ASSUME Connect PROVE Lifecycle!GoUp
  BY <1>7 DEF Connect, Lifecycle!GoUp
<1>8. ASSUME Published PROVE UNCHANGED <<state, Link, promise>>
  BY <1>8 DEF Published, Flow
<1>9. ASSUME LoseConnection PROVE Lifecycle!GoDown
  BY <1>9 DEF LoseConnection, Lifecycle!GoDown
<1>10. ASSUME ConnectFails PROVE UNCHANGED <<state, Link, promise>>
  BY <1>10 DEF ConnectFails
<1>11. ASSUME ClientError PROVE UNCHANGED <<state, Link, promise>>
  BY <1>11 DEF ClientError
<1>12. ASSUME Ended PROVE Lifecycle!UnjoinCompletes
  BY <1>12 DEF Ended, Lifecycle!UnjoinCompletes
<1>13. ASSUME UNCHANGED vars PROVE UNCHANGED <<state, Link, promise>>
  BY <1>13 DEF vars
<1> QED
  BY <1>1, <1>2, <1>3, <1>4, <1>5, <1>6, <1>7, <1>8, <1>9, <1>10, <1>11, <1>12,
     <1>13 DEF Next, Lifecycle!Next

\* MqttBinding implements what CommunicationBinding promises.
THEOREM ImplementsCommunicationBinding == Spec => ImplementsLifecycle
<1> QED
  BY Invariance, InitImplements, NextImplements, PTL
  DEF Spec, ImplementsLifecycle, Lifecycle!Spec
==============================================================================

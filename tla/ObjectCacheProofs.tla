--------------------------- MODULE ObjectCacheProofs ---------------------------
(* Proofs about ResponseEvents and ObjectCache, for any number of requests,  *)
(* subscribers, contents and restarts: requests are published once and their *)
(* responses observed as long as somebody waits for them, and the object     *)
(* cache shares only requests that can still be answered.                    *)
EXTENDS ObjectCache, SequenceTheorems, TLAPS

------------------------------------------------------------------------------
(* Requests and their subscribers                                            *)

RequestTypes ==
  /\ session \in 1 .. MaxSessions
  /\ issued \in 0 .. MaxRequests
  /\ issuedIn \in [Requests -> 0 .. session]
  /\ finished \subseteq 1 .. issued
  /\ subscribers \in [Requests -> Seq(AllSubscribers)]
  /\ published \in [Requests -> Nat]
  /\ status \in [AllSubscribers -> {"new", "open", "closed", "rejected"}]
  /\ request \in [AllSubscribers -> SUBSET (1 .. issued)]

\* Who is in the array of a request is open and has subscribed it, and is there
\* once.
MembersWait ==
  \A c \in Requests : \A i \in 1 .. Len(subscribers[c]) :
    /\ status[subscribers[c][i]] = "open"
    /\ c \in request[subscribers[c][i]]
    /\ \A j \in 1 .. Len(subscribers[c]) : subscribers[c][i] = subscribers[c][j] => i = j

\* Who is open is in the arrays of all the requests it has subscribed.
WaitersAreMembers ==
  \A s \in AllSubscribers : status[s] = "open" =>
    \A c \in request[s] : \E i \in 1 .. Len(subscribers[c]) : subscribers[c][i] = s

\* A request is published for its first subscriber, and finished with its last.
RequestLife ==
  \A c \in Requests :
    /\ published[c] \in {0, 1}
    /\ published[c] = 0 => subscribers[c] = << >>
    /\ published[c] = 1 /\ subscribers[c] = << >> => c \in finished
    /\ c \in finished => subscribers[c] = << >>
    /\ c > issued => published[c] = 0

\* The requests of the current session are observed until they are finished.
ObservedOnes ==
  /\ observedResponses = {c \in 1 .. issued : issuedIn[c] = session /\ c \notin finished}
  /\ bound = observedResponses

\* A subscriber merges requests of one session only.
SameSession ==
  \A s \in AllSubscribers : \A c, d \in request[s] : issuedIn[c] = issuedIn[d]

RequestsInv ==
  RequestTypes /\ MembersWait /\ WaitersAreMembers /\ RequestLife /\ ObservedOnes /\ SameSession

------------------------------------------------------------------------------
(* The object cache                                                          *)

CacheTypes ==
  /\ answers \subseteq [corr : 1 .. issued, object : Objects, fits : BOOLEAN]
  /\ first \subseteq AllSubscribers
  /\ taken \in [AllSubscribers -> Objects \cup {NoObject}]
  /\ loop \in [corr : 0 .. MaxRequests, index : Nat, running : SUBSET AllSubscribers, object : Objects \cup {NoObject}]
  /\ running \in BOOLEAN
  /\ objectCache \in Objects \cup {NoObject}
  /\ pending \in 0 .. issued
  /\ got \in [Subscribers -> 0 .. issued]

Discovered(c) == status[Cacher(c)] # "new"

\* The cache has subscribed the requests it discovers by, and nothing else.
CachersSubscribe ==
  \A c \in Requests : Discovered(c) =>
    c <= issued /\ published[c] = 1 /\ request[Cacher(c)] = {c}

\* One callback runs at a time, and whoever has taken an object is about to be
\* unsubscribed by its own.
TakersRun ==
  /\ \A s, t \in loop.running : s = t
  /\ \A s \in AllSubscribers :
       /\ status[s] = "new" => taken[s] = NoObject
       /\ status[s] = "open" /\ taken[s] # NoObject => s \in loop.running

\* A request of the cache is one it has subscribed; if the manager is running
\* it waits for an object.
PendingWaits ==
  pending # NoRequest =>
    /\ Discovered(pending)
    /\ running => /\ issuedIn[pending] = session
                  /\ status[Cacher(pending)] = "open"
                  /\ taken[Cacher(pending)] = NoObject

CacheInv == CacheTypes /\ CachersSubscribe /\ TakersRun /\ PendingWaits /\ CallersNotRejected

------------------------------------------------------------------------------
(* The callers of the cache                                                  *)

\* What callers got are requests the cache has subscribed.
CallersSubscribe ==
  \A s \in Subscribers : got[s] # NoRequest =>
    Discovered(got[s]) /\ (status[s] = "open" => request[s] = {got[s]})

\* The cache is the first subscriber of its requests, and all their subscribers
\* take the first object.
CacheComesFirst ==
  \A c \in Requests : Discovered(c) =>
    /\ subscribers[c] # << >> => subscribers[c][1] = Cacher(c)
    /\ \A i \in 1 .. Len(subscribers[c]) : subscribers[c][i] \in first

\* Callers hold nothing while a loop is active.
HoldersIdle == SomeoneHolds => loop.corr = 0

\* Callbacks run in a loop over a request their subscriber has subscribed.
RunnersSubscribe ==
  /\ loop.corr = 0 => loop.running = {}
  /\ \A s \in loop.running : loop.corr \in request[s] /\ status[s] # "new"
                             /\ (taken[s] # NoObject /\ status[s] = "open" => loop.object \in Suiting)

\* A loop by which a suiting object comes to a request of the cache leaves
\* nobody behind.
NobodyBehind ==
  loop.corr # 0 /\ Discovered(loop.corr) /\ loop.object \in Suiting =>
    \/ Len(subscribers[loop.corr]) < loop.index
       /\ \A s \in loop.running : status[s] # "open"
    \/ /\ Len(subscribers[loop.corr]) = loop.index
       /\ loop.index > 0
       /\ subscribers[loop.corr][loop.index] \in loop.running
       /\ taken[subscribers[loop.corr][loop.index]] # NoObject

CallersInv == CallersSubscribe /\ CacheComesFirst /\ HoldersIdle /\ RunnersSubscribe /\ NobodyBehind

------------------------------------------------------------------------------
(* Arrays of subscribers                                                     *)

LEMMA ArrayTypes ==
    ASSUME RequestTypes, NEW c \in Requests
    PROVE  /\ subscribers[c] \in Seq(AllSubscribers)
           /\ Len(subscribers[c]) \in Nat
           /\ DOMAIN subscribers[c] = 1 .. Len(subscribers[c])
           /\ \A i \in 1 .. Len(subscribers[c]) : subscribers[c][i] \in AllSubscribers
           /\ subscribers[c] = << >> <=> Len(subscribers[c]) = 0
<1>1. subscribers[c] \in Seq(AllSubscribers)
  BY DEF RequestTypes
<1> QED
  BY <1>1, LenProperties, ElementOfSeq, EmptySeq

LEMMA RequestNumbers ==
    ASSUME RequestTypes
    PROVE  /\ issued \in Nat /\ MaxRequests \in Nat
           /\ 1 .. issued \subseteq Requests
           /\ \A c \in Requests : c \in Nat /\ c # 0 /\ c <= MaxRequests
           /\ \A c \in Requests : c <= issued <=> c \in 1 .. issued
           /\ \A c \in Requests : c > issued <=> c \notin 1 .. issued
  BY BoundsAssumption DEF RequestTypes, Requests

\* A subscriber that leaves an array leaves the others in their order.
LEMMA RemovedProperties ==
    ASSUME RequestsInv, NEW c \in Requests, NEW n \in 1 .. Len(subscribers[c])
    PROVE  /\ SubscribersRemoved(c, subscribers[c][n]) \in Seq(AllSubscribers)
           /\ Len(SubscribersRemoved(c, subscribers[c][n])) = Len(subscribers[c]) - 1
           /\ \A i \in 1 .. Len(subscribers[c]) - 1 :
                 SubscribersRemoved(c, subscribers[c][n])[i] = subscribers[c][IF i < n THEN i ELSE i + 1]
<1> DEFINE q == subscribers[c]
           rest == [i \in 1 .. Len(q) - 1 |-> q[IF i < n THEN i ELSE i + 1]]
<1>1. /\ Len(q) \in Nat /\ DOMAIN q = 1 .. Len(q) /\ Len(q) - 1 \in Nat
      /\ \A i \in 1 .. Len(q) : q[i] \in AllSubscribers
      /\ \A i \in 1 .. Len(q) : q[i] = q[n] => i = n
  BY ArrayTypes DEF RequestsInv, MembersWait
<1>2. (CHOOSE i \in DOMAIN q : q[i] = q[n]) = n
  BY <1>1
<1>3. SubscribersRemoved(c, q[n]) = rest
  BY <1>2 DEF SubscribersRemoved
<1>4. \A i \in 1 .. Len(q) - 1 : (IF i < n THEN i ELSE i + 1) \in 1 .. Len(q)
  BY <1>1
<1>5. rest \in Seq(AllSubscribers) /\ Len(rest) = Len(q) - 1
  <2>1. \A i \in 1 .. Len(q) - 1 : rest[i] \in AllSubscribers
    BY <1>1, <1>4
  <2> HIDE DEF q
  <2>2. rest \in [1 .. Len(q) - 1 -> AllSubscribers]
    BY <2>1
  <2> QED
    BY <1>1, <2>2, SeqDef
<1> QED
  BY <1>3, <1>5

------------------------------------------------------------------------------
(* Steps of requests                                                         *)

LEMMA RequestsInit == Init => RequestsInv
<1> SUFFICES ASSUME Init PROVE RequestsInv
  OBVIOUS
<1> USE DEF Init
<1>1. \A c \in Requests : Len(subscribers[c]) = 0 /\ subscribers[c] = << >>
  BY EmptySeq
<1>2. RequestTypes
  <2>1. subscribers \in [Requests -> Seq(AllSubscribers)]
    BY EmptySeq
  <2>2. issued \in 0 .. MaxRequests /\ session \in 1 .. MaxSessions /\ 0 \in 0 .. session
    BY BoundsAssumption
  <2>3. issuedIn \in [Requests -> 0 .. session] /\ published \in [Requests -> Nat]
    BY <2>2
  <2> QED
    BY <2>1, <2>2, <2>3 DEF RequestTypes
<1>3. MembersWait /\ WaitersAreMembers /\ SameSession
  BY <1>1 DEF MembersWait, WaitersAreMembers, SameSession
<1>4. RequestLife
  BY <1>1 DEF RequestLife
<1>5. ObservedOnes
  BY DEF ObservedOnes
<1> QED
  BY <1>2, <1>3, <1>4, <1>5 DEF RequestsInv

LEMMA RequestsUnchanged ==
    ASSUME RequestsInv, UNCHANGED <<session, itemVars, requestVars, status, request>>
    PROVE  RequestsInv'
  BY DEF RequestsInv, RequestTypes, MembersWait, WaitersAreMembers, RequestLife, ObservedOnes,
         SameSession, itemVars, requestVars

\* A request that is created is observed, but not published.
LEMMA PublishRequestStep ==
    ASSUME RequestsInv, NEW n \in 1 .. 2, PublishRequest(n)
    PROVE  RequestsInv'
<1> USE DEF PublishRequest, subscriberVars
<1>1. /\ issued' \in 0 .. MaxRequests /\ 1 .. issued \subseteq 1 .. issued'
      /\ Fresh(n) \subseteq 1 .. issued' /\ Fresh(n) \cap (1 .. issued) = {}
      /\ 1 .. issued' = (1 .. issued) \cup Fresh(n)
  BY RequestNumbers DEF RequestsInv, Fresh
<1>2. /\ \A c \in 1 .. issued : c \in Requests /\ issuedIn'[c] = issuedIn[c]
      /\ \A c \in Fresh(n) \cap Requests : issuedIn'[c] = session
  BY <1>1, RequestNumbers DEF RequestsInv
<1>3. issuedIn' \in [Requests -> 0 .. session]
  BY DEF RequestsInv, RequestTypes
<1>4. RequestTypes'
  BY <1>1, <1>3 DEF RequestsInv, RequestTypes
<1>5. MembersWait' /\ WaitersAreMembers'
  BY DEF RequestsInv, MembersWait, WaitersAreMembers
<1>6. RequestLife'
  <2>1. \A c \in Requests : c > issued' => c > issued
    BY <1>1, RequestNumbers DEF RequestsInv
  <2> QED
    BY <2>1 DEF RequestsInv, RequestLife
<1>7. ObservedOnes'
  <2>1. \A c \in Fresh(n) : c \notin finished /\ c \in Requests
    BY <1>1, BoundsAssumption DEF RequestsInv, RequestTypes, Requests
  <2>2. \A c \in 1 .. issued' :
           issuedIn'[c] = session /\ c \notin finished
           <=> c \in Fresh(n) \/ (c \in 1 .. issued /\ issuedIn[c] = session /\ c \notin finished)
    BY <1>1, <1>2, <2>1
  <2>3. observedResponses' = {c \in 1 .. issued' : issuedIn'[c] = session /\ c \notin finished}
    BY <1>1, <2>2 DEF RequestsInv, ObservedOnes
  <2> QED
    BY <2>3 DEF RequestsInv, ObservedOnes
<1>8. SameSession'
  <2>1. ASSUME NEW s \in AllSubscribers, NEW c \in request'[s]
        PROVE  c \in request[s] /\ c \in 1 .. issued
    BY DEF RequestsInv, RequestTypes
  <2> QED
    BY <1>2, <2>1 DEF RequestsInv, SameSession
<1> QED
  BY <1>4, <1>5, <1>6, <1>7, <1>8 DEF RequestsInv

\* What becomes of the arrays when s joins those of the requests cs.
Joins(cs, s) ==
  /\ \A c \in Requests \ cs : subscribers'[c] = subscribers[c]
  /\ \A c \in cs : /\ Len(subscribers'[c]) = Len(subscribers[c]) + 1
                   /\ subscribers'[c][Len(subscribers[c]) + 1] = s
                   /\ \A i \in 1 .. Len(subscribers[c]) : subscribers'[c][i] = subscribers[c][i]

\* What becomes of a subscriber s of the requests cs, and of their arrays.
Subscribed(cs, s) ==
  /\ status[s] = "new" /\ request'[s] = cs
  /\ \A t \in AllSubscribers : t # s => status'[t] = status[t] /\ request'[t] = request[t]
  /\ status'[s] \in {"open", "rejected"}
  /\ status'[s] = "rejected" => IsFinished(cs) /\ UNCHANGED <<subscribers, published>>
  /\ status'[s] = "open" =>
        /\ ~IsFinished(cs)
        /\ \A c \in Requests : published'[c] >= published[c]
  /\ status'[s] = "open" => Joins(cs, s)

\* Who subscribes requests that are not finished joins the end of their arrays,
\* and publishes those that have no subscriber.
LEMMA SubscribeStep ==
    ASSUME RequestsInv, NEW cs \in SUBSET (1 .. issued), NEW s \in AllSubscribers, NEW f \in BOOLEAN,
           \A c, d \in cs : issuedIn[c] = issuedIn[d],
           Subscribe(cs, s, f)
    PROVE  RequestsInv' /\ Subscribed(cs, s)
<1> USE DEF Subscribe
<1>0. cs \subseteq Requests
  BY RequestNumbers DEF RequestsInv
<1>1. /\ status[s] = "new" /\ request'[s] = cs
      /\ status' \in [AllSubscribers -> {"new", "open", "closed", "rejected"}]
      /\ request' \in [AllSubscribers -> SUBSET (1 .. issued)]
      /\ \A t \in AllSubscribers : t # s => status'[t] = status[t] /\ request'[t] = request[t]
      /\ IF IsFinished(cs) THEN status'[s] = "rejected" ELSE status'[s] = "open"
  BY DEF RequestsInv, RequestTypes
<1>2. \A c \in Requests : \A i \in 1 .. Len(subscribers[c]) : subscribers[c][i] # s /\ subscribers[c][i] \in AllSubscribers
  BY <1>1, ArrayTypes DEF RequestsInv, MembersWait
<1>3. SameSession'
  BY <1>1 DEF RequestsInv, SameSession
<1>4. ObservedOnes'
  BY DEF RequestsInv, ObservedOnes
<1>5. CASE IsFinished(cs)
  <2>1. RequestTypes'
    BY <1>1, <1>5 DEF RequestsInv, RequestTypes
  <2>2. MembersWait'
    BY <1>1, <1>2, <1>5 DEF RequestsInv, MembersWait
  <2>3. WaitersAreMembers'
    BY <1>1, <1>5 DEF RequestsInv, WaitersAreMembers
  <2>4. RequestLife'
    BY <1>5 DEF RequestsInv, RequestLife
  <2> QED
    BY <1>1, <1>3, <1>4, <1>5, <2>1, <2>2, <2>3, <2>4 DEF RequestsInv, Subscribed
<1>6. CASE ~IsFinished(cs)
  <2>1. \A c \in Requests \ cs : subscribers'[c] = subscribers[c] /\ published'[c] = published[c]
    BY <1>6 DEF Added
  <2>2. \A c \in cs : /\ subscribers'[c] = Append(subscribers[c], s)
                      /\ published'[c] = Published(c)
    BY <1>0, <1>6 DEF Added
  <2>3. \A c \in cs : /\ subscribers'[c] \in Seq(AllSubscribers)
                      /\ Len(subscribers'[c]) = Len(subscribers[c]) + 1
                      /\ subscribers'[c][Len(subscribers[c]) + 1] = s
                      /\ \A i \in 1 .. Len(subscribers[c]) : subscribers'[c][i] = subscribers[c][i]
    <3> SUFFICES ASSUME NEW c \in cs
                 PROVE  /\ subscribers'[c] \in Seq(AllSubscribers)
                        /\ Len(subscribers'[c]) = Len(subscribers[c]) + 1
                        /\ subscribers'[c][Len(subscribers[c]) + 1] = s
                        /\ \A i \in 1 .. Len(subscribers[c]) : subscribers'[c][i] = subscribers[c][i]
      OBVIOUS
    <3>1. subscribers[c] \in Seq(AllSubscribers)
      BY <1>0 DEF RequestsInv, RequestTypes
    <3>2. subscribers'[c] = Append(subscribers[c], s)
      BY <2>2
    <3> QED
      BY <3>1, <3>2, AppendProperties
  <2>4. \A c \in cs : /\ Len(subscribers[c]) \in Nat
                      /\ \A i \in 1 .. Len(subscribers'[c]) : i \in 1 .. Len(subscribers[c]) \/ i = Len(subscribers[c]) + 1
                      /\ Len(subscribers[c]) + 1 \in 1 .. Len(subscribers'[c])
                      /\ 1 .. Len(subscribers[c]) \subseteq 1 .. Len(subscribers'[c])
    BY <1>0, <2>3, ArrayTypes DEF RequestsInv
  <2>5. \A c \in cs : \/ published[c] = 0 /\ published'[c] = 1
                      \/ published[c] = 1 /\ published'[c] = 1 /\ subscribers[c] # << >>
    <3>1. \A c \in cs : c \notin finished
      BY <1>6 DEF IsFinished
    <3>2. \A c \in cs : published[c] \in {0, 1} /\ (published[c] = 0 => subscribers[c] = << >>)
                          /\ (published[c] = 1 => subscribers[c] # << >>)
      BY <1>0, <3>1 DEF RequestsInv, RequestLife
    <3>3. \A c \in cs : published'[c] = IF subscribers[c] = << >> THEN published[c] + 1 ELSE published[c]
      BY <2>2 DEF Published
    <3> SUFFICES ASSUME NEW c \in cs
                 PROVE  \/ published[c] = 0 /\ published'[c] = 1
                        \/ published[c] = 1 /\ published'[c] = 1 /\ subscribers[c] # << >>
      OBVIOUS
    <3>4. CASE published[c] = 0
      <4>1. published'[c] = published[c] + 1
        BY <3>2, <3>3, <3>4
      <4> QED
        BY <3>4, <4>1
    <3>5. CASE published[c] = 1
      BY <3>2, <3>3, <3>5
    <3> QED
      BY <3>2, <3>4, <3>5
  <2>6. RequestTypes'
    <3>1. subscribers' \in [Requests -> Seq(AllSubscribers)]
      <4>1. subscribers' = [c \in Requests |-> subscribers'[c]]
        BY <1>6 DEF Added
      <4> QED
        BY <2>1, <2>3, <4>1 DEF RequestsInv, RequestTypes
    <3>2. published' \in [Requests -> Nat]
      <4>1. published' = [c \in Requests |-> published'[c]]
        BY <1>6
      <4> QED
        BY <2>1, <2>5, <4>1 DEF RequestsInv, RequestTypes
    <3> QED
      BY <1>1, <3>1, <3>2 DEF RequestsInv, RequestTypes
  <2>7. MembersWait'
    <3>1. ASSUME NEW c \in Requests \ cs
          PROVE  \A i \in 1 .. Len(subscribers'[c]) :
                    /\ status'[subscribers'[c][i]] = "open" /\ c \in request'[subscribers'[c][i]]
                    /\ \A j \in 1 .. Len(subscribers'[c]) : subscribers'[c][i] = subscribers'[c][j] => i = j
      BY <1>1, <1>2, <2>1 DEF RequestsInv, MembersWait
    <3>2. ASSUME NEW c \in cs
          PROVE  \A i \in 1 .. Len(subscribers'[c]) :
                    /\ status'[subscribers'[c][i]] = "open" /\ c \in request'[subscribers'[c][i]]
                    /\ \A j \in 1 .. Len(subscribers'[c]) : subscribers'[c][i] = subscribers'[c][j] => i = j
      <4>1. c \in Requests /\ status'[s] = "open"
        BY <1>0, <1>1, <1>6
      <4>2. \A i \in 1 .. Len(subscribers[c]) :
               /\ subscribers'[c][i] = subscribers[c][i] /\ subscribers[c][i] # s
               /\ status'[subscribers[c][i]] = "open" /\ c \in request'[subscribers[c][i]]
               /\ \A j \in 1 .. Len(subscribers[c]) : subscribers[c][i] = subscribers[c][j] => i = j
        BY <1>1, <1>2, <2>3, <4>1 DEF RequestsInv, MembersWait
      <4> QED
        BY <1>1, <2>3, <2>4, <4>1, <4>2
    <3> QED
      BY <3>1, <3>2 DEF MembersWait
  <2>8. WaitersAreMembers'
    <3> SUFFICES ASSUME NEW t \in AllSubscribers, status'[t] = "open", NEW c \in request'[t]
                 PROVE  \E i \in 1 .. Len(subscribers'[c]) : subscribers'[c][i] = t
      BY DEF WaitersAreMembers
    <3>1. CASE t = s
      BY <1>1, <2>3, <2>4, <3>1
    <3>2. CASE t # s
      <4>1. PICK i \in 1 .. Len(subscribers[c]) : subscribers[c][i] = t
        BY <1>1, <3>2 DEF RequestsInv, WaitersAreMembers
      <4>2. c \in Requests
        BY <1>1, RequestNumbers DEF RequestsInv
      <4>3. i \in 1 .. Len(subscribers'[c]) /\ subscribers'[c][i] = t
        BY <2>1, <2>3, <2>4, <4>1, <4>2
      <4> QED
        BY <4>3
    <3> QED
      BY <3>1, <3>2
  <2>9. RequestLife'
    <3>1. \A c \in cs : subscribers'[c] # << >> /\ ~(c > issued) /\ c \notin finished
      BY <1>6, <2>3, <2>4, RequestNumbers, EmptySeq DEF RequestsInv, IsFinished
    <3>2. \A c \in cs : published'[c] = 1
      BY <2>5
    <3> QED
      BY <2>1, <3>1, <3>2 DEF RequestsInv, RequestLife
  <2>10. \A c \in Requests : published'[c] >= published[c]
    <3>1. ASSUME NEW c \in Requests
          PROVE  published'[c] >= published[c]
      <4>1. published[c] \in Nat
        BY DEF RequestsInv, RequestTypes
      <4>2. CASE c \in cs
        BY <2>5, <4>2
      <4>3. CASE c \notin cs
        BY <2>1, <4>1, <4>3
      <4> QED
        BY <4>2, <4>3
    <3> QED
      BY <3>1
  <2> QED
    BY <1>1, <1>3, <1>4, <1>6, <2>1, <2>3, <2>6, <2>7, <2>8, <2>9, <2>10 DEF RequestsInv, Joins, Subscribed
<1> QED
  BY <1>5, <1>6

\* Who leaves requests leaves their arrays, and finishes those of which it was
\* the last subscriber.
LEMMA LeavesStep ==
    ASSUME RequestsInv, NEW s \in AllSubscribers, status[s] = "open",
           status' = [status EXCEPT ![s] = "closed"],
           Leaves(request[s], s), UNCHANGED <<session, requestVars, request>>
    PROVE  /\ RequestsInv'
           /\ status'[s] = "closed"
           /\ \A t \in AllSubscribers : t # s => status'[t] = status[t]
           /\ \A c \in Requests \ request[s] : subscribers'[c] = subscribers[c]
           /\ \A c \in request[s] : \E n \in 1 .. Len(subscribers[c]) :
                 /\ subscribers[c][n] = s
                 /\ Len(subscribers'[c]) = Len(subscribers[c]) - 1
                 /\ \A i \in 1 .. Len(subscribers[c]) - 1 :
                       subscribers'[c][i] = subscribers[c][IF i < n THEN i ELSE i + 1]
<1> DEFINE cs == request[s]
           rest == [c \in Requests |-> IF c \in cs THEN SubscribersRemoved(c, s) ELSE subscribers[c]]
           left == {c \in cs : rest[c] = << >> /\ subscribers[c] # << >>}
<1>0. /\ cs \subseteq 1 .. issued /\ cs \subseteq Requests /\ 1 .. issued \subseteq Requests
      /\ UNCHANGED <<session, issued, issuedIn, published, request>>
  BY RequestNumbers DEF RequestsInv, RequestTypes, requestVars
<1>1. /\ status' \in [AllSubscribers -> {"new", "open", "closed", "rejected"}]
      /\ status'[s] = "closed"
      /\ \A t \in AllSubscribers : t # s => status'[t] = status[t]
  BY DEF RequestsInv, RequestTypes
<1>2. /\ subscribers' = rest
      /\ finished' = finished \cup left
      /\ observedResponses' = observedResponses \ left
      /\ bound' = bound \ left
  BY DEF Leaves, BoundWithout
<1>3. \A c \in Requests \ cs : subscribers'[c] = subscribers[c]
  BY <1>2
<1>4. ASSUME NEW c \in cs
      PROVE  /\ subscribers'[c] \in Seq(AllSubscribers)
             /\ \E n \in 1 .. Len(subscribers[c]) :
                 /\ subscribers[c][n] = s
                 /\ Len(subscribers'[c]) = Len(subscribers[c]) - 1
                 /\ \A i \in 1 .. Len(subscribers[c]) - 1 :
                       subscribers'[c][i] = subscribers[c][IF i < n THEN i ELSE i + 1]
  <2>1. PICK n \in 1 .. Len(subscribers[c]) : subscribers[c][n] = s
    BY DEF RequestsInv, WaitersAreMembers
  <2>2. subscribers'[c] = SubscribersRemoved(c, subscribers[c][n])
    BY <1>0, <1>2, <2>1
  <2> HIDE DEF cs, rest, left
  <2> QED
    BY <1>0, <2>1, <2>2, RemovedProperties
<1>5. ASSUME NEW c \in cs
      PROVE  /\ Len(subscribers[c]) \in Nat /\ Len(subscribers[c]) > 0 /\ subscribers[c] # << >>
             /\ subscribers'[c] = << >> <=> c \in left
  <2>2. Len(subscribers[c]) > 0
    BY <1>0, <1>4, ArrayTypes DEF RequestsInv
  <2>3. Len(subscribers[c]) \in Nat /\ subscribers[c] # << >>
    BY <1>0, <2>2, ArrayTypes DEF RequestsInv
  <2>4. c \in left <=> rest[c] = << >>
    BY <2>3
  <2>5. rest[c] = subscribers'[c]
    BY <1>2
  <2> HIDE DEF rest, left
  <2> QED
    BY <2>2, <2>3, <2>4, <2>5
<1>6. left \subseteq cs
  OBVIOUS
<1>7. subscribers' = [c \in Requests |-> subscribers'[c]]
  BY <1>2
<1> HIDE DEF rest, left, cs
<1>8. RequestTypes'
  <2>1. subscribers' \in [Requests -> Seq(AllSubscribers)]
    BY <1>3, <1>4, <1>7 DEF RequestsInv, RequestTypes
  <2> QED
    BY <1>0, <1>1, <1>2, <1>6, <2>1 DEF RequestsInv, RequestTypes
<1>9. MembersWait'
  <2>1. ASSUME NEW c \in Requests \ cs
        PROVE  \A i \in 1 .. Len(subscribers'[c]) :
                  /\ status'[subscribers'[c][i]] = "open" /\ c \in request'[subscribers'[c][i]]
                  /\ \A j \in 1 .. Len(subscribers'[c]) : subscribers'[c][i] = subscribers'[c][j] => i = j
    <3>1. \A i \in 1 .. Len(subscribers[c]) : subscribers[c][i] \in AllSubscribers /\ subscribers[c][i] # s
      BY ArrayTypes DEF RequestsInv, MembersWait, cs
    <3> QED
      BY <1>0, <1>1, <1>3, <3>1 DEF RequestsInv, MembersWait
  <2>2. ASSUME NEW c \in cs
        PROVE  \A i \in 1 .. Len(subscribers'[c]) :
                  /\ status'[subscribers'[c][i]] = "open" /\ c \in request'[subscribers'[c][i]]
                  /\ \A j \in 1 .. Len(subscribers'[c]) : subscribers'[c][i] = subscribers'[c][j] => i = j
    <3>1. PICK n \in 1 .. Len(subscribers[c]) :
                 /\ subscribers[c][n] = s
                 /\ Len(subscribers'[c]) = Len(subscribers[c]) - 1
                 /\ \A i \in 1 .. Len(subscribers[c]) - 1 :
                       subscribers'[c][i] = subscribers[c][IF i < n THEN i ELSE i + 1]
      BY <1>4
    <3>2. \A i \in 1 .. Len(subscribers[c]) :
             /\ subscribers[c][i] \in AllSubscribers
             /\ status[subscribers[c][i]] = "open" /\ c \in request[subscribers[c][i]]
             /\ \A j \in 1 .. Len(subscribers[c]) : subscribers[c][i] = subscribers[c][j] => i = j
      BY <1>0, ArrayTypes DEF RequestsInv, MembersWait
    <3>3. ASSUME NEW i \in 1 .. Len(subscribers'[c])
          PROVE  \E k \in 1 .. Len(subscribers[c]) :
                    k = (IF i < n THEN i ELSE i + 1) /\ k # n /\ subscribers'[c][i] = subscribers[c][k]
      BY <1>5, <3>1
    <3>4. ASSUME NEW i \in 1 .. Len(subscribers'[c])
          PROVE  status'[subscribers'[c][i]] = "open" /\ c \in request'[subscribers'[c][i]]
      <4>1. PICK k \in 1 .. Len(subscribers[c]) : k # n /\ subscribers'[c][i] = subscribers[c][k]
        BY <3>3
      <4>2. subscribers[c][k] # s
        BY <3>1, <3>2, <4>1
      <4> QED
        BY <1>0, <1>1, <3>2, <4>1, <4>2
    <3>5. ASSUME NEW i \in 1 .. Len(subscribers'[c]), NEW j \in 1 .. Len(subscribers'[c]),
                 subscribers'[c][i] = subscribers'[c][j]
          PROVE  i = j
      <4>1. PICK k \in 1 .. Len(subscribers[c]) : k = (IF i < n THEN i ELSE i + 1) /\ subscribers'[c][i] = subscribers[c][k]
        BY <3>3
      <4>2. PICK l \in 1 .. Len(subscribers[c]) : l = (IF j < n THEN j ELSE j + 1) /\ subscribers'[c][j] = subscribers[c][l]
        BY <3>3
      <4>3. k = l
        BY <3>2, <3>5, <4>1, <4>2
      <4> QED
        BY <1>5, <3>1, <4>1, <4>2, <4>3
    <3> QED
      BY <3>4, <3>5
  <2> QED
    BY <2>1, <2>2 DEF MembersWait
<1>10. WaitersAreMembers'
  <2> SUFFICES ASSUME NEW t \in AllSubscribers, status'[t] = "open", NEW c \in request'[t]
               PROVE  \E i \in 1 .. Len(subscribers'[c]) : subscribers'[c][i] = t
    BY DEF WaitersAreMembers
  <2>1. t # s /\ status[t] = "open" /\ c \in request[t] /\ c \in Requests
    BY <1>0, <1>1 DEF RequestsInv, RequestTypes
  <2>2. PICK k \in 1 .. Len(subscribers[c]) : subscribers[c][k] = t
    BY <2>1 DEF RequestsInv, WaitersAreMembers
  <2>3. CASE c \notin cs
    BY <1>3, <2>1, <2>2, <2>3
  <2>4. CASE c \in cs
    <3>1. PICK n \in 1 .. Len(subscribers[c]) :
                 /\ subscribers[c][n] = s
                 /\ Len(subscribers'[c]) = Len(subscribers[c]) - 1
                 /\ \A i \in 1 .. Len(subscribers[c]) - 1 :
                       subscribers'[c][i] = subscribers[c][IF i < n THEN i ELSE i + 1]
      BY <1>4, <2>4
    <3>2. k # n /\ Len(subscribers[c]) \in Nat
      BY <1>5, <2>1, <2>2, <2>4, <3>1
    <3>3. PICK i \in 1 .. Len(subscribers[c]) - 1 : k = (IF i < n THEN i ELSE i + 1)
      <4>1. CASE k < n
        BY <3>2, <4>1
      <4>2. CASE k > n
        <5>1. k - 1 \in 1 .. Len(subscribers[c]) - 1 /\ ~(k - 1 < n) /\ k = (k - 1) + 1
          BY <3>2, <4>2
        <5> QED
          BY <5>1
      <4> QED
        BY <3>2, <4>1, <4>2
    <3> QED
      BY <2>2, <3>1, <3>3
  <2> QED
    BY <2>3, <2>4
<1>11. RequestLife'
  <2>1. ASSUME NEW c \in Requests \ cs
        PROVE  c \notin left /\ subscribers'[c] = subscribers[c]
    BY <1>3, <1>6
  <2>2. ASSUME NEW c \in cs
        PROVE  c \in 1 .. issued /\ published[c] = 1 /\ c \notin finished
    BY <1>0, <1>5 DEF RequestsInv, RequestLife
  <2>3. ASSUME NEW c \in Requests
        PROVE  /\ published'[c] \in {0, 1}
               /\ published'[c] = 0 => subscribers'[c] = << >>
               /\ published'[c] = 1 /\ subscribers'[c] = << >> => c \in finished'
               /\ c \in finished' => subscribers'[c] = << >>
               /\ c > issued' => published'[c] = 0
    <3>1. CASE c \in cs
      BY <1>0, <1>2, <1>5, <2>2, <3>1, RequestNumbers DEF RequestsInv
    <3>2. CASE c \notin cs
      BY <1>0, <1>2, <2>1, <3>2 DEF RequestsInv, RequestLife
    <3> QED
      BY <3>1, <3>2
  <2> QED
    BY <2>3 DEF RequestLife
<1>12. ObservedOnes'
  BY <1>0, <1>2 DEF RequestsInv, ObservedOnes
<1>13. SameSession'
  BY <1>0 DEF RequestsInv, SameSession
<1> QED
  BY <1>1, <1>3, <1>4, <1>8, <1>9, <1>10, <1>11, <1>12, <1>13 DEF RequestsInv, cs

\* The manager completes the subscribers of all observed requests, and those
\* of no others.
LEMMA StopStep ==
    ASSUME RequestsInv, Stop
    PROVE  /\ RequestsInv'
           /\ \A c \in Requests : subscribers'[c] = IF c \in observedResponses THEN << >> ELSE subscribers[c]
           /\ \A s \in AllSubscribers : status'[s] # status[s] => status[s] = "open" /\ status'[s] = "closed"
           /\ \A s \in AllSubscribers : status'[s] = "open" => request[s] \cap observedResponses = {}
<1> USE DEF Stop, requestVars
<1>0. 1 .. issued \subseteq Requests /\ UNCHANGED <<issued, issuedIn, published, request>>
  BY RequestNumbers DEF RequestsInv
<1>1. \A c \in Requests : subscribers'[c] = IF c \in observedResponses THEN << >> ELSE subscribers[c]
  OBVIOUS
<1>2. /\ status' \in [AllSubscribers -> {"new", "open", "closed", "rejected"}]
      /\ \A s \in AllSubscribers : status'[s] # status[s] => status[s] = "open" /\ status'[s] = "closed"
      /\ \A s \in AllSubscribers : status'[s] = IF Completed(s) THEN "closed" ELSE status[s]
  BY DEF RequestsInv, RequestTypes, Completed
<1>3. session' = session + 1 /\ session \in Nat /\ session' \in 1 .. MaxSessions
      /\ 0 .. session \subseteq 0 .. session'
  BY BoundsAssumption DEF RequestsInv, RequestTypes
<1>4. ASSUME NEW s \in AllSubscribers, status[s] = "open", NEW c \in request[s], c \in observedResponses
      PROVE  status'[s] = "closed"
  <2>1. ASSUME NEW d \in request[s]
        PROVE  d \in observedResponses
    <3>1. d \in 1 .. issued /\ d \in Requests
      BY <1>0, <1>4 DEF RequestsInv, RequestTypes
    <3>2. PICK i \in 1 .. Len(subscribers[d]) : subscribers[d][i] = s
      BY <1>4 DEF RequestsInv, WaitersAreMembers
    <3>3. subscribers[d] # << >>
      BY <3>1, <3>2, ArrayTypes DEF RequestsInv
    <3>4. d \notin finished
      BY <3>1, <3>3 DEF RequestsInv, RequestLife
    <3>5. issuedIn[d] = session
      BY <1>4 DEF RequestsInv, SameSession, ObservedOnes
    <3> QED
      BY <3>1, <3>4, <3>5 DEF RequestsInv, ObservedOnes
  <2>2. Completed(s)
    BY <1>4, <2>1 DEF Completed
  <2> QED
    BY <1>2, <2>2
<1>5. \A s \in AllSubscribers : status'[s] = "open" => request[s] \cap observedResponses = {}
  BY <1>2, <1>4
<1>6. RequestTypes'
  <2>1. subscribers' \in [Requests -> Seq(AllSubscribers)]
    <3>1. << >> \in Seq(AllSubscribers)
      OBVIOUS
    <3> QED
      BY <3>1 DEF RequestsInv, RequestTypes
  <2>2. finished' \subseteq 1 .. issued'
    BY DEF RequestsInv, RequestTypes, ObservedOnes
  <2>3. issuedIn' \in [Requests -> 0 .. session']
    BY <1>3 DEF RequestsInv, RequestTypes
  <2> QED
    BY <1>0, <1>2, <1>3, <2>1, <2>2, <2>3 DEF RequestsInv, RequestTypes
<1>7. MembersWait'
  <2> SUFFICES ASSUME NEW c \in Requests, NEW i \in 1 .. Len(subscribers'[c])
               PROVE  /\ status'[subscribers'[c][i]] = "open" /\ c \in request'[subscribers'[c][i]]
                      /\ \A j \in 1 .. Len(subscribers'[c]) : subscribers'[c][i] = subscribers'[c][j] => i = j
    BY DEF MembersWait
  <2>1. c \notin observedResponses
    <3>1. Len(subscribers'[c]) # 0
      BY <1>6, ArrayTypes DEF RequestTypes
    <3>2. Len(<< >>) = 0
      BY EmptySeq
    <3> QED
      BY <1>1, <3>1, <3>2
  <2>2. subscribers'[c] = subscribers[c] /\ subscribers[c][i] \in AllSubscribers
    BY <1>1, <2>1, ArrayTypes DEF RequestsInv
  <2>3. status[subscribers[c][i]] = "open" /\ c \in request[subscribers[c][i]]
        /\ \A j \in 1 .. Len(subscribers[c]) : subscribers[c][i] = subscribers[c][j] => i = j
    BY <2>2 DEF RequestsInv, MembersWait
  <2>4. ~Completed(subscribers[c][i])
    BY <2>1, <2>3 DEF Completed
  <2> QED
    BY <1>0, <1>2, <2>2, <2>3, <2>4
<1>8. WaitersAreMembers'
  <2> SUFFICES ASSUME NEW s \in AllSubscribers, status'[s] = "open", NEW c \in request'[s]
               PROVE  \E i \in 1 .. Len(subscribers'[c]) : subscribers'[c][i] = s
    BY DEF WaitersAreMembers
  <2>1. c \in request[s] /\ c \in Requests /\ c \notin observedResponses /\ status[s] = "open"
    BY <1>0, <1>2, <1>5 DEF RequestsInv, RequestTypes
  <2> QED
    BY <1>1, <2>1 DEF RequestsInv, WaitersAreMembers
<1>9. RequestLife'
  <2>1. ASSUME NEW c \in Requests
        PROVE  /\ c \in observedResponses => subscribers'[c] = << >>
               /\ c \notin observedResponses => subscribers'[c] = subscribers[c]
               /\ c \in finished' <=> (c \in finished \/ (c \in observedResponses /\ subscribers[c] # << >>))
    BY <1>1
  <2> QED
    BY <1>0, <2>1 DEF RequestsInv, RequestLife
<1>10. ObservedOnes'
  <2>1. \A c \in 1 .. issued : issuedIn[c] # session'
    BY <1>0, <1>3 DEF RequestsInv, RequestTypes
  <2> QED
    BY <1>0, <2>1 DEF ObservedOnes
<1>11. SameSession'
  BY <1>0 DEF RequestsInv, SameSession
<1> QED
  BY <1>1, <1>2, <1>5, <1>6, <1>7, <1>8, <1>9, <1>10, <1>11 DEF RequestsInv

------------------------------------------------------------------------------
(* Steps of the object cache                                                 *)

LEMMA CacherTypes ==
    /\ \A c \in Requests : Cacher(c) \in AllSubscribers /\ Cacher(c) \notin Subscribers
    /\ \A c, d \in Requests : Cacher(c) = Cacher(d) => c = d
    /\ Subscribers \subseteq AllSubscribers
  BY CachersAssumption DEF AllSubscribers, Cacher

\* The cache discovers an object by a new request, which it subscribes first.
LEMMA ResolveStep ==
    ASSUME RequestsInv, CacheInv, NEW s \in Subscribers, NEW again \in BOOLEAN,
           ResolveObject(s, again), pending = NoRequest \/ again
    PROVE  \E c \in Requests :
             /\ RequestsInv'
             /\ c = issued + 1 /\ c \notin 1 .. issued
             /\ issued' = c /\ pending' = c /\ issuedIn'[c] = session /\ published'[c] = 1
             /\ status[Cacher(c)] = "new" /\ status'[Cacher(c)] = "open"
             /\ request'[Cacher(c)] = {c}
             /\ subscribers[c] = << >> /\ subscribers'[c] = <<Cacher(c)>>
             /\ \A d \in Requests \ {c} : /\ subscribers'[d] = subscribers[d] /\ published'[d] = published[d]
                                         /\ issuedIn'[d] = issuedIn[d]
             /\ \A t \in AllSubscribers \ {Cacher(c)} : status'[t] = status[t] /\ request'[t] = request[t]
<1> USE DEF ResolveObject
<1>1. PICK c \in Requests :
        /\ c = issued + 1 /\ issued' = c
        /\ issuedIn' = [issuedIn EXCEPT ![c] = session]
        /\ observedResponses' = observedResponses \cup {c}
        /\ bound' = bound \cup {c}
        /\ subscribers' = [subscribers EXCEPT ![c] = <<Cacher(c)>>]
        /\ published' = [published EXCEPT ![c] = 1]
        /\ status' = [status EXCEPT ![Cacher(c)] = "open"]
        /\ request' = [request EXCEPT ![Cacher(c)] = {c}]
        /\ pending' = c
        /\ UNCHANGED <<session, finished>>
  OBVIOUS
<1>2. /\ issued \in Nat /\ c \notin 1 .. issued /\ 1 .. issued' = (1 .. issued) \cup {c}
      /\ 1 .. issued \subseteq 1 .. issued' /\ issued' \in 0 .. MaxRequests
      /\ 1 .. issued \subseteq Requests /\ c > issued
  BY <1>1, RequestNumbers DEF RequestsInv
<1>3. /\ Cacher(c) \in AllSubscribers /\ status[Cacher(c)] = "new"
      /\ subscribers[c] = << >> /\ c \notin finished
  <2>1. status[Cacher(c)] = "new"
    BY <1>1, <1>2 DEF CacheInv, CachersSubscribe, Discovered
  <2>2. published[c] = 0
    BY <1>2 DEF RequestsInv, RequestLife
  <2> QED
    BY <1>2, <2>1, <2>2, CacherTypes DEF RequestsInv, RequestLife, RequestTypes
<1>4. /\ subscribers'[c] = <<Cacher(c)>> /\ <<Cacher(c)>> \in Seq(AllSubscribers)
      /\ Len(<<Cacher(c)>>) = 1 /\ <<Cacher(c)>>[1] = Cacher(c) /\ <<Cacher(c)>> # << >>
      /\ published'[c] = 1 /\ issuedIn'[c] = session
      /\ \A d \in Requests \ {c} : /\ subscribers'[d] = subscribers[d] /\ published'[d] = published[d]
                                  /\ issuedIn'[d] = issuedIn[d]
  BY <1>1, <1>3 DEF RequestsInv, RequestTypes
<1>5. /\ status'[Cacher(c)] = "open" /\ request'[Cacher(c)] = {c}
      /\ \A t \in AllSubscribers \ {Cacher(c)} : status'[t] = status[t] /\ request'[t] = request[t]
  BY <1>1, <1>3 DEF RequestsInv, RequestTypes
<1>6. RequestTypes'
  <2>1. subscribers' \in [Requests -> Seq(AllSubscribers)]
    BY <1>1, <1>4 DEF RequestsInv, RequestTypes
  <2>2. request' \in [AllSubscribers -> SUBSET (1 .. issued')]
    <3>1. request' \in [AllSubscribers -> SUBSET ((1 .. issued) \cup {c})]
      BY <1>1 DEF RequestsInv, RequestTypes
    <3> QED
      BY <1>2, <3>1
  <2>3. issuedIn' \in [Requests -> 0 .. session'] /\ session \in 0 .. session
    BY <1>1, BoundsAssumption DEF RequestsInv, RequestTypes
  <2>4. published' \in [Requests -> Nat]
    BY <1>1 DEF RequestsInv, RequestTypes
  <2>5. status' \in [AllSubscribers -> {"new", "open", "closed", "rejected"}]
    BY <1>1 DEF RequestsInv, RequestTypes
  <2>6. finished' \subseteq 1 .. issued' /\ session' \in 1 .. MaxSessions
    BY <1>1, <1>2 DEF RequestsInv, RequestTypes
  <2> QED
    BY <1>2, <2>1, <2>2, <2>3, <2>4, <2>5, <2>6 DEF RequestTypes
<1>7. MembersWait'
  <2>1. \A i \in 1 .. Len(subscribers'[c]) : i = 1
    BY <1>4
  <2>2. ASSUME NEW d \in Requests \ {c}, NEW i \in 1 .. Len(subscribers'[d])
        PROVE  /\ status'[subscribers'[d][i]] = "open" /\ d \in request'[subscribers'[d][i]]
               /\ \A j \in 1 .. Len(subscribers'[d]) : subscribers'[d][i] = subscribers'[d][j] => i = j
    <3>1. subscribers'[d] = subscribers[d] /\ subscribers[d][i] \in AllSubscribers /\ status[subscribers[d][i]] = "open"
      BY <1>4, <2>2, ArrayTypes DEF RequestsInv, MembersWait
    <3>2. subscribers[d][i] # Cacher(c)
      BY <1>3, <3>1
    <3> QED
      BY <1>5, <3>1, <3>2 DEF RequestsInv, MembersWait
  <2>3. \A i \in 1 .. Len(subscribers'[c]) :
           /\ status'[subscribers'[c][i]] = "open" /\ c \in request'[subscribers'[c][i]]
           /\ \A j \in 1 .. Len(subscribers'[c]) : i = j
    BY <1>4, <1>5, <2>1
  <2> QED
    BY <2>2, <2>3 DEF MembersWait
<1>8. WaitersAreMembers'
  <2> SUFFICES ASSUME NEW t \in AllSubscribers, status'[t] = "open", NEW d \in request'[t]
               PROVE  \E i \in 1 .. Len(subscribers'[d]) : subscribers'[d][i] = t
    BY DEF WaitersAreMembers
  <2>1. CASE t = Cacher(c)
    <3>1. d = c /\ 1 \in 1 .. Len(subscribers'[d]) /\ subscribers'[d][1] = t
      <4>1. d = c
        BY <1>5, <2>1
      <4>2. Len(subscribers'[c]) = 1 /\ subscribers'[c][1] = t
        BY <1>4, <2>1
      <4> QED
        BY <4>1, <4>2
    <3> QED
      BY <3>1
  <2>2. CASE t # Cacher(c)
    <3>1. d \in 1 .. issued /\ d \in request[t] /\ status[t] = "open"
      BY <1>5, <2>2 DEF RequestsInv, RequestTypes
    <3>2. subscribers'[d] = subscribers[d]
      BY <1>2, <1>4, <3>1
    <3> QED
      BY <3>1, <3>2 DEF RequestsInv, WaitersAreMembers
  <2> QED
    BY <2>1, <2>2
<1>9. RequestLife'
  <2>1. ASSUME NEW d \in Requests
        PROVE  /\ published'[d] \in {0, 1}
               /\ published'[d] = 0 => subscribers'[d] = << >>
               /\ published'[d] = 1 /\ subscribers'[d] = << >> => d \in finished'
               /\ d \in finished' => subscribers'[d] = << >>
               /\ d > issued' => published'[d] = 0
    <3>1. CASE d = c
      <4>1. published'[d] = 1 /\ subscribers'[d] # << >> /\ d \notin finished'
        BY <1>1, <1>3, <1>4, <3>1
      <4>2. ~(d > issued')
        BY <1>1, <1>2, <3>1
      <4> QED
        BY <4>1, <4>2
    <3>2. CASE d # c
      <4>1. d > issued' => d > issued
        BY <1>1, <1>2, RequestNumbers DEF RequestsInv
      <4> QED
        BY <1>1, <1>4, <3>2, <4>1 DEF RequestsInv, RequestLife
    <3> QED
      BY <3>1, <3>2
  <2> QED
    BY <2>1 DEF RequestLife
<1>10. ObservedOnes'
  <2>1. \A d \in 1 .. issued : d # c /\ issuedIn'[d] = issuedIn[d]
    BY <1>2, <1>4
  <2>2. observedResponses' = {d \in 1 .. issued' : issuedIn'[d] = session' /\ d \notin finished'}
    BY <1>1, <1>2, <1>3, <1>4, <2>1 DEF RequestsInv, ObservedOnes
  <2> QED
    BY <1>1, <2>2 DEF RequestsInv, ObservedOnes
<1>11. SameSession'
  <2>1. ASSUME NEW t \in AllSubscribers, NEW d \in request'[t], NEW e \in request'[t]
        PROVE  issuedIn'[d] = issuedIn'[e]
    <3>1. CASE t = Cacher(c)
      BY <1>5, <3>1
    <3>2. CASE t # Cacher(c)
      <4>1. d \in request[t] /\ e \in request[t] /\ d \in 1 .. issued /\ e \in 1 .. issued
        BY <1>5, <3>2 DEF RequestsInv, RequestTypes
      <4>2. issuedIn'[d] = issuedIn[d] /\ issuedIn'[e] = issuedIn[e]
        BY <1>2, <1>4, <4>1
      <4> QED
        BY <4>1, <4>2 DEF RequestsInv, SameSession
    <3> QED
      BY <3>1, <3>2
  <2> QED
    BY <2>1 DEF SameSession
<1> QED
  BY <1>1, <1>2, <1>3, <1>4, <1>5, <1>6, <1>7, <1>8, <1>9, <1>10, <1>11 DEF RequestsInv

\* What subscribers of the application do to the requests cs.
LEMMA ApplicationSubscribes ==
    ASSUME RequestsInv, CacheInv, NEW cs \in SUBSET (1 .. issued), NEW s \in Subscribers, NEW f \in BOOLEAN,
           \A c, d \in cs : issuedIn[c] = issuedIn[d],
           Subscribe(cs, s, f), UNCHANGED cacheVars,
           got[s] # NoRequest => cs = {got[s]}
    PROVE  CacheInv'
<1> USE DEF Subscribe, cacheVars
<1>1. /\ RequestsInv' /\ status[s] = "new" /\ request'[s] = cs
      /\ \A t \in AllSubscribers : t # s => status'[t] = status[t] /\ request'[t] = request[t]
      /\ status'[s] = "rejected" => IsFinished(cs) /\ UNCHANGED published
      /\ status'[s] \in {"open", "rejected"}
      /\ status'[s] = "open" => \A c \in Requests : published'[c] >= published[c]
  <2>1. s \in AllSubscribers
    BY CacherTypes
  <2>2. RequestsInv' /\ Subscribed(cs, s)
    BY <2>1, SubscribeStep
  <2> QED
    BY <2>2 DEF Subscribed
<1>2. CacheTypes'
  BY <1>1, CacherTypes DEF CacheInv, CacheTypes
<1>3. \A c \in Requests : status'[Cacher(c)] = status[Cacher(c)] /\ request'[Cacher(c)] = request[Cacher(c)]
  BY <1>1, CacherTypes
<1>4. \A c \in Requests : published[c] = 1 => published'[c] = 1
  <2>1. \A c \in Requests : published[c] = 1 => published'[c] >= 1
    BY <1>1
  <2>2. \A c \in Requests : published'[c] \in {0, 1}
    BY <1>1 DEF RequestsInv, RequestLife
  <2> QED
    BY <2>1, <2>2
<1>5. CachersSubscribe'
  BY <1>3, <1>4 DEF CacheInv, CachersSubscribe, Discovered
<1>6. TakersRun'
  BY <1>1 DEF CacheInv, TakersRun
<1>7. pending # NoRequest => pending \in Requests /\ pending \in 1 .. issued
  BY RequestNumbers DEF RequestsInv, CacheInv, CacheTypes, NoRequest
<1>8. PendingWaits'
  BY <1>3, <1>7 DEF CacheInv, PendingWaits, Discovered
<1>9. CallersNotRejected'
  <2>1. ASSUME got[s] # NoRequest, got[s] = pending, running
        PROVE  status'[s] # "rejected"
    <3>1. cs = {pending} /\ pending \in 1 .. issued /\ pending \in Requests
      BY <1>7, <2>1
    <3>2. pending \in request[Cacher(pending)] /\ status[Cacher(pending)] = "open" /\ Cacher(pending) \in AllSubscribers
      BY <2>1, <3>1, CacherTypes DEF CacheInv, PendingWaits, CachersSubscribe
    <3>3. PICK i \in 1 .. Len(subscribers[pending]) : subscribers[pending][i] = Cacher(pending)
      BY <3>2 DEF RequestsInv, WaitersAreMembers
    <3>4. subscribers[pending] # << >>
      BY <3>1, <3>3, ArrayTypes DEF RequestsInv
    <3>5. pending \notin finished
      BY <3>1, <3>4 DEF RequestsInv, RequestLife
    <3> QED
      BY <1>1, <3>1, <3>5 DEF IsFinished
  <2>2. \A t \in Subscribers : t # s => status'[t] = status[t]
    BY <1>1, CacherTypes
  <2> QED
    BY <2>1, <2>2 DEF CacheInv, CallersNotRejected
<1> QED
  BY <1>2, <1>5, <1>6, <1>8, <1>9 DEF CacheInv

\* Who leaves is not the cache, as long as this waits for an object.
LEMMA SubscriberLeaves ==
    ASSUME RequestsInv, CacheInv, NEW s \in AllSubscribers, status[s] = "open",
           s \in Subscribers \/ taken[s] # NoObject,
           status' = [status EXCEPT ![s] = "closed"],
           Leaves(request[s], s), UNCHANGED <<session, requestVars, request, answers, first, taken, cacheVars>>,
           loop' \in [corr : 0 .. MaxRequests, index : Nat, running : SUBSET AllSubscribers,
                      object : Objects \cup {NoObject}],
           loop.running \subseteq loop'.running \cup {s},
           \A t, u \in loop'.running : t = u
    PROVE  CacheInv'
<1> USE DEF cacheVars, requestVars
<1>1. status'[s] = "closed" /\ \A t \in AllSubscribers : t # s => status'[t] = status[t]
  BY LeavesStep
<1>2. CacheTypes'
  BY DEF CacheInv, CacheTypes
<1>3. CachersSubscribe'
  <2>1. \A c \in Requests : Discovered(c)' => Discovered(c)
    BY <1>1, CacherTypes DEF Discovered
  <2> QED
    BY <2>1 DEF CacheInv, CachersSubscribe
<1>4. TakersRun'
  BY <1>1 DEF CacheInv, TakersRun
<1>5. PendingWaits'
  <2> SUFFICES ASSUME pending # NoRequest
               PROVE  /\ Discovered(pending)'
                      /\ running => /\ issuedIn[pending] = session
                                    /\ status'[Cacher(pending)] = "open"
                                    /\ taken[Cacher(pending)] = NoObject
    BY DEF PendingWaits
  <2>1. Cacher(pending) \in AllSubscribers /\ Cacher(pending) \notin Subscribers
    <3>1. pending \in Requests
      BY RequestNumbers DEF RequestsInv, CacheInv, CacheTypes, NoRequest
    <3> QED
      BY <3>1, CacherTypes
  <2>2. Discovered(pending)'
    BY <1>1, <2>1 DEF CacheInv, PendingWaits, Discovered
  <2>3. running => Cacher(pending) # s
    BY <2>1 DEF CacheInv, PendingWaits
  <2> QED
    BY <1>1, <2>1, <2>2, <2>3 DEF CacheInv, PendingWaits
<1>6. CallersNotRejected'
  BY <1>1, CacherTypes DEF CacheInv, CallersNotRejected
<1> QED
  BY <1>2, <1>3, <1>4, <1>5, <1>6 DEF CacheInv

\* Steps that neither issue requests nor subscribe any.
LEMMA NobodySubscribes ==
    ASSUME RequestsInv, CacheInv, UNCHANGED <<session, requestVars, request, status, taken, cacheVars>>,
           answers' \subseteq [corr : 1 .. issued, object : Objects, fits : BOOLEAN],
           first' \subseteq AllSubscribers,
           loop' \in [corr : 0 .. MaxRequests, index : Nat, running : SUBSET AllSubscribers,
                      object : Objects \cup {NoObject}],
           \A s \in loop.running : s \in loop'.running \/ status[s] # "open" \/ taken[s] = NoObject,
           \A s, t \in loop'.running : s = t
    PROVE  CacheInv'
<1> USE DEF cacheVars, requestVars
<1>1. CacheTypes'
  BY DEF CacheInv, CacheTypes
<1>2. CachersSubscribe' /\ CallersNotRejected' /\ PendingWaits'
  BY DEF CacheInv, CachersSubscribe, CallersNotRejected, PendingWaits, Discovered
<1>3. TakersRun'
  BY DEF CacheInv, TakersRun
<1> QED
  BY <1>1, <1>2, <1>3 DEF CacheInv

\* A step of the dispatch loop.
LEMMA LoopTypes ==
    ASSUME RequestsInv, CacheInv
    PROVE  /\ \A m \in answers : Receive(m) =>
                 loop' \in [corr : 0 .. MaxRequests, index : Nat, running : SUBSET AllSubscribers,
                            object : Objects \cup {NoObject}]
           /\ DispatchNext => /\ loop.corr \in Requests /\ loop.index - 1 \in 1 .. Len(subscribers[loop.corr])
                              /\ Reached = {subscribers[loop.corr][loop.index - 1]}
                              /\ subscribers[loop.corr][loop.index - 1] \in AllSubscribers
                              /\ loop'.corr = loop.corr /\ loop'.object = loop.object
                              /\ loop'.index = loop.index - 1 /\ loop'.running = Reached
                              /\ loop' \in [corr : 0 .. MaxRequests, index : Nat, running : SUBSET AllSubscribers,
                                            object : Objects \cup {NoObject}]
           /\ CallbackReturns => /\ loop'.corr = loop.corr /\ loop'.object = loop.object
                                 /\ loop'.index = loop.index /\ loop'.running = {}
                                 /\ loop' \in [corr : 0 .. MaxRequests, index : Nat, running : SUBSET AllSubscribers,
                                               object : Objects \cup {NoObject}]
           /\ Idle \in [corr : 0 .. MaxRequests, index : Nat, running : SUBSET AllSubscribers,
                        object : Objects \cup {NoObject}]
<1> DEFINE Loops == [corr : 0 .. MaxRequests, index : Nat, running : SUBSET AllSubscribers,
                     object : Objects \cup {NoObject}]
<1>1. loop \in Loops /\ MaxRequests \in Nat
  BY BoundsAssumption DEF CacheInv, CacheTypes
<1>2. Idle \in Loops
  BY <1>1 DEF Idle
<1>3. ASSUME NEW m \in answers, Receive(m)
      PROVE  loop' \in Loops
  <2>1. m.corr \in 1 .. issued /\ m.object \in Objects
    BY DEF CacheInv, CacheTypes
  <2>2. m.corr \in Requests /\ m.corr \in 0 .. MaxRequests
    BY <2>1, RequestNumbers DEF RequestsInv, Requests
  <2>3. Behind(m.corr) \in Nat
    BY <2>2, ArrayTypes DEF Behind, RequestsInv
  <2>4. [corr |-> m.corr, index |-> Behind(m.corr), running |-> {}, object |-> m.object] \in Loops
    BY <2>1, <2>2, <2>3
  <2>5. loop' = [corr |-> m.corr, index |-> Behind(m.corr), running |-> {}, object |-> m.object] \/ loop' = Idle
    BY <1>3 DEF Receive
  <2> HIDE DEF Loops
  <2> QED
    BY <1>2, <2>4, <2>5
<1>4. ASSUME DispatchNext
      PROVE  /\ loop.corr \in Requests /\ loop.index - 1 \in 1 .. Len(subscribers[loop.corr])
             /\ Reached = {subscribers[loop.corr][loop.index - 1]}
             /\ subscribers[loop.corr][loop.index - 1] \in AllSubscribers
  <2>1. loop.corr # 0 /\ loop.index - 1 \in DOMAIN subscribers[loop.corr]
        /\ Reached = {subscribers[loop.corr][loop.index - 1]}
    BY <1>4 DEF DispatchNext, Reached
  <2>2. loop.corr \in Requests
    BY <1>1, <2>1 DEF Requests
  <2> QED
    BY <2>1, <2>2, ArrayTypes DEF RequestsInv
<1>5. ASSUME DispatchNext
      PROVE  /\ loop'.corr = loop.corr /\ loop'.object = loop.object
             /\ loop'.index = loop.index - 1 /\ loop'.running = Reached
             /\ loop' \in Loops
  <2>1. loop' = [loop EXCEPT !.index = loop.index - 1, !.running = Reached]
    BY <1>5 DEF DispatchNext
  <2>2. loop.index - 1 \in Nat /\ Reached \in SUBSET AllSubscribers
    <3>1. Len(subscribers[loop.corr]) \in Nat
      BY <1>4, <1>5, ArrayTypes DEF RequestsInv
    <3> QED
      BY <1>4, <1>5, <3>1
  <2> QED
    BY <1>1, <2>1, <2>2
<1>6. ASSUME CallbackReturns
      PROVE  /\ loop'.corr = loop.corr /\ loop'.object = loop.object
             /\ loop'.index = loop.index /\ loop'.running = {}
             /\ loop' \in Loops
  BY <1>1, <1>6 DEF CallbackReturns
<1> QED
  BY <1>2, <1>3, <1>4, <1>5, <1>6

\* A caller is served from the cache.
LEMMA CachedStep ==
    ASSUME RequestsInv, CacheInv, NEW s \in Subscribers, ResolveCached(s)
    PROVE  RequestsInv' /\ CacheInv'
<1> USE DEF ResolveCached, itemVars, requestVars, cacheVars
<1>1. /\ s \in AllSubscribers /\ status[s] = "new" /\ status'[s] = "closed" /\ got[s] = NoRequest
      /\ status' \in [AllSubscribers -> {"new", "open", "closed", "rejected"}]
      /\ \A t \in AllSubscribers : t # s => status'[t] = status[t] /\ taken'[t] = taken[t]
      /\ \A t \in AllSubscribers : status'[t] = "open" <=> status[t] = "open"
  BY CacherTypes DEF RequestsInv, RequestTypes, CacheInv, CacheTypes
<1>2. RequestsInv'
  <2>1. RequestTypes' /\ WaitersAreMembers' /\ RequestLife' /\ ObservedOnes' /\ SameSession'
    BY <1>1 DEF RequestsInv, RequestTypes, WaitersAreMembers, RequestLife, ObservedOnes, SameSession
  <2>2. \A c \in Requests : \A i \in 1 .. Len(subscribers[c]) : subscribers[c][i] \in AllSubscribers
    BY ArrayTypes DEF RequestsInv
  <2>3. MembersWait'
    BY <1>1, <2>2 DEF RequestsInv, MembersWait
  <2> QED
    BY <2>1, <2>3 DEF RequestsInv
<1>3. \A c \in Requests : status'[Cacher(c)] = status[Cacher(c)] /\ taken'[Cacher(c)] = taken[Cacher(c)]
  BY <1>1, CacherTypes
<1>4. CacheTypes'
  BY DEF CacheInv, CacheTypes
<1>5. CachersSubscribe'
  BY <1>3 DEF CacheInv, CachersSubscribe, Discovered
<1>6. TakersRun'
  BY <1>1 DEF CacheInv, TakersRun
<1>7. PendingWaits'
  <2>1. pending # NoRequest => pending \in Requests
    BY RequestNumbers DEF RequestsInv, CacheInv, CacheTypes, NoRequest
  <2> QED
    BY <1>3, <2>1 DEF CacheInv, PendingWaits, Discovered
<1>8. CallersNotRejected'
  BY <1>1, CacherTypes DEF CacheInv, CallersNotRejected
<1> QED
  BY <1>2, <1>4, <1>5, <1>6, <1>7, <1>8 DEF CacheInv

\* A caller gets a request of the cache, which is pending from then on.
LEMMA ResolveCache ==
    ASSUME RequestsInv, CacheInv, NEW s \in Subscribers, NEW again \in BOOLEAN, ResolveObject(s, again)
    PROVE  RequestsInv' /\ CacheInv'
<1>1. CASE pending = NoRequest \/ again
  <2>1. PICK c \in Requests :
             /\ RequestsInv'
             /\ c = issued + 1 /\ c \notin 1 .. issued
             /\ issued' = c /\ pending' = c /\ issuedIn'[c] = session /\ published'[c] = 1
             /\ status[Cacher(c)] = "new" /\ status'[Cacher(c)] = "open"
             /\ request'[Cacher(c)] = {c}
             /\ subscribers[c] = << >> /\ subscribers'[c] = <<Cacher(c)>>
             /\ \A d \in Requests \ {c} : /\ subscribers'[d] = subscribers[d] /\ published'[d] = published[d]
                                         /\ issuedIn'[d] = issuedIn[d]
             /\ \A t \in AllSubscribers \ {Cacher(c)} : status'[t] = status[t] /\ request'[t] = request[t]
    BY <1>1, ResolveStep
  <2>2. /\ got' = [got EXCEPT ![s] = c] /\ first' = first \cup {Cacher(c)} /\ status[s] = "new"
        /\ UNCHANGED <<session, answers, taken, loop, running, objectCache>>
    BY <1>1, <2>1 DEF ResolveObject
  <2>3. /\ issued \in Nat /\ 1 .. issued \subseteq 1 .. issued' /\ 0 .. issued \subseteq 0 .. issued' /\ c \in 0 .. issued'
        /\ c # NoRequest
    BY <2>1, RequestNumbers DEF RequestsInv, NoRequest
  <2>4. CacheTypes'
    <3>1. answers' \subseteq [corr : 1 .. issued', object : Objects, fits : BOOLEAN]
      BY <2>2, <2>3 DEF CacheInv, CacheTypes
    <3>2. got' \in [Subscribers -> 0 .. issued']
      BY <2>2, <2>3 DEF CacheInv, CacheTypes
    <3>3. first' \subseteq AllSubscribers
      BY <2>1, <2>2, CacherTypes DEF CacheInv, CacheTypes
    <3> QED
      BY <2>1, <2>2, <2>3, <3>1, <3>2, <3>3 DEF CacheInv, CacheTypes
  <2>5. CachersSubscribe'
    <3> SUFFICES ASSUME NEW d \in Requests, Discovered(d)'
                 PROVE  d <= issued' /\ published'[d] = 1 /\ request'[Cacher(d)] = {d}
      BY DEF CachersSubscribe
    <3>1. CASE d = c
      BY <2>1, <3>1, RequestNumbers DEF RequestsInv
    <3>2. CASE d # c
      <4>1. Cacher(d) \in AllSubscribers \ {Cacher(c)}
        BY <3>2, CacherTypes
      <4>2. d <= issued /\ published[d] = 1 /\ request[Cacher(d)] = {d}
        BY <2>1, <4>1 DEF CacheInv, CachersSubscribe, Discovered
      <4> QED
        BY <2>1, <2>3, <3>2, <4>1, <4>2, RequestNumbers DEF RequestsInv
    <3> QED
      BY <3>1, <3>2
  <2>6. taken[Cacher(c)] = NoObject
    BY <2>1, CacherTypes DEF CacheInv, TakersRun
  <2>7. TakersRun'
    BY <2>1, <2>2, <2>6 DEF CacheInv, TakersRun
  <2>8. PendingWaits'
    BY <2>1, <2>2, <2>6 DEF PendingWaits, Discovered
  <2>9. CallersNotRejected'
    <3>1. \A t \in Subscribers : t # s /\ got'[t] # NoRequest => got'[t] # pending'
      BY <2>1, <2>2, <2>3 DEF CacheInv, CacheTypes, NoRequest
    <3>2. status'[s] = "new"
      BY <2>1, <2>2, CacherTypes
    <3> QED
      BY <3>1, <3>2 DEF CallersNotRejected
  <2> QED
    BY <2>1, <2>4, <2>5, <2>7, <2>8, <2>9 DEF CacheInv
<1>2. CASE ~(pending = NoRequest \/ again)
  <2>1. /\ got' = [got EXCEPT ![s] = pending] /\ status[s] = "new"
        /\ UNCHANGED <<vars, running, objectCache, pending>>
    BY <1>2 DEF ResolveObject
  <2>2. RequestsInv'
    BY <2>1, RequestsUnchanged DEF vars, subscriberVars
  <2>3. CacheTypes'
    BY <2>1 DEF CacheInv, CacheTypes, vars, requestVars, subscriberVars
  <2>4. CachersSubscribe' /\ TakersRun' /\ PendingWaits'
    BY <2>1 DEF CacheInv, CachersSubscribe, TakersRun, PendingWaits, Discovered, vars, requestVars, subscriberVars
  <2>5. CallersNotRejected'
    <3>1. \A t \in Subscribers : t # s => got'[t] = got[t] /\ status'[t] = status[t]
      BY <2>1 DEF CacheInv, CacheTypes, vars, subscriberVars
    <3>2. status'[s] = "new"
      BY <2>1 DEF vars, subscriberVars
    <3> QED
      BY <2>1, <3>1, <3>2 DEF CacheInv, CallersNotRejected
  <2> QED
    BY <2>2, <2>3, <2>4, <2>5 DEF CacheInv
<1> QED
  BY <1>1, <1>2

LEMMA DispatchCache ==
    ASSUME RequestsInv, CacheInv, Dispatch
    PROVE  RequestsInv' /\ CacheInv'
<1> USE DEF Dispatch
<1>1. DispatchNext /\ UNCHANGED <<session, itemVars, requestVars, status, request, answers, first, running, got>>
  BY DEF DispatchNext
<1>2. RequestsInv'
  BY <1>1, RequestsUnchanged
<1> DEFINE Loops == [corr : 0 .. MaxRequests, index : Nat, running : SUBSET AllSubscribers,
                     object : Objects \cup {NoObject}]
<1>3. loop.running = {} /\ loop'.running = Reached /\ loop' \in Loops /\ loop.object \in Objects \cup {NoObject}
  BY <1>1, LoopTypes DEF CacheInv, CacheTypes, DispatchNext
<1>4. /\ taken' \in [AllSubscribers -> Objects \cup {NoObject}]
      /\ \A s \in AllSubscribers : taken'[s] = IF s \in Reached /\ Takes(s) THEN loop.object ELSE taken[s]
  <2>1. \A s \in AllSubscribers : taken'[s] = IF s \in Reached /\ Takes(s) THEN loop.object ELSE taken[s]
    BY <1>1 DEF DispatchNext
  <2>2. taken' = [s \in AllSubscribers |-> taken'[s]]
    BY <1>1 DEF DispatchNext
  <2>3. \A s \in AllSubscribers : taken'[s] \in Objects \cup {NoObject}
    BY <1>3, <2>1 DEF CacheInv, CacheTypes
  <2> QED
    BY <2>1, <2>2, <2>3
<1>5. /\ \A s \in Reached : status[s] = "open"
      /\ \A s, t \in Reached : s = t
  BY <1>1, LoopTypes DEF RequestsInv, MembersWait
<1>6. TakersRun' /\ CachersSubscribe'
  BY <1>1, <1>3, <1>4, <1>5 DEF CacheInv, CachersSubscribe, TakersRun, Discovered, requestVars
<1>7. CASE \E s \in Reached : s \in Internal /\ Takes(s)
  <2>1. objectCache' = loop.object /\ pending' = NoRequest
    BY <1>7 DEF PendingAfter
  <2>2. CacheTypes'
    <3>1. objectCache' \in Objects \cup {NoObject} /\ pending' \in 0 .. issued
      BY <1>2, <1>3, <2>1, RequestNumbers DEF RequestsInv, NoRequest
    <3> QED
      BY <1>1, <1>3, <1>4, <3>1 DEF CacheInv, CacheTypes, requestVars
  <2>3. PendingWaits' /\ CallersNotRejected'
    BY <2>1 DEF PendingWaits, CallersNotRejected
  <2> QED
    BY <1>2, <1>6, <2>2, <2>3 DEF CacheInv
<1>8. CASE ~\E s \in Reached : s \in Internal /\ Takes(s)
  <2>1. UNCHANGED <<objectCache, pending>>
    BY <1>8
  <2>2. CacheTypes'
    BY <1>1, <1>3, <1>4, <2>1 DEF CacheInv, CacheTypes, requestVars
  <2>3. CallersNotRejected'
    BY <1>1, <2>1 DEF CacheInv, CallersNotRejected
  <2>4. PendingWaits'
    <3> SUFFICES ASSUME pending # NoRequest PROVE PendingWaits'
      BY <2>1 DEF PendingWaits
    <3>1. pending \in Requests
      BY RequestNumbers DEF RequestsInv, CacheInv, CacheTypes, NoRequest
    <3>2. Cacher(pending) \in AllSubscribers /\ Cacher(pending) \in Internal
      BY <3>1, CacherTypes, CachersAssumption
    <3>3. taken'[Cacher(pending)] = taken[Cacher(pending)]
      BY <1>4, <1>8, <3>2
    <3> QED
      BY <1>1, <2>1, <3>3 DEF CacheInv, PendingWaits, Discovered, requestVars
  <2> QED
    BY <1>2, <1>6, <2>2, <2>3, <2>4 DEF CacheInv
<1> QED
  BY <1>7, <1>8

LEMMA StopCache ==
    ASSUME RequestsInv, CacheInv, ManagerStops
    PROVE  RequestsInv' /\ CacheInv'
<1> USE DEF ManagerStops
<1>1. /\ Stop /\ running' = FALSE /\ UNCHANGED <<objectCache, pending, got, requestVars, answers, request, first, taken, loop>>
      /\ RequestsInv'
      /\ \A s \in AllSubscribers : status'[s] # status[s] => status[s] = "open" /\ status'[s] = "closed"
  BY StopStep DEF Stop
<1>2. CacheTypes'
  BY <1>1 DEF CacheInv, CacheTypes, requestVars
<1>3. \A c \in Requests : Discovered(c)' <=> Discovered(c)
  BY <1>1, CacherTypes DEF Discovered
<1>4. CachersSubscribe'
  BY <1>1, <1>3 DEF CacheInv, CachersSubscribe, requestVars
<1>5. TakersRun'
  BY <1>1 DEF CacheInv, TakersRun
<1>6. PendingWaits'
  <2>1. pending # NoRequest => pending \in Requests
    BY RequestNumbers DEF RequestsInv, CacheInv, CacheTypes, NoRequest
  <2>2. pending # NoRequest => Discovered(pending)'
    BY <1>3, <2>1 DEF CacheInv, PendingWaits
  <2> QED
    BY <1>1, <2>2 DEF PendingWaits
<1>7. CallersNotRejected'
  BY <1>1 DEF CallersNotRejected
<1> QED
  BY <1>1, <1>2, <1>4, <1>5, <1>6, <1>7 DEF CacheInv

LEMMA CacheStep ==
    ASSUME RequestsInv, CacheInv, [Next]_allVars
    PROVE  RequestsInv' /\ CacheInv'
<1> DEFINE Loops == [corr : 0 .. MaxRequests, index : Nat, running : SUBSET AllSubscribers,
                     object : Objects \cup {NoObject}]
<1>0. answers \subseteq [corr : 1 .. issued, object : Objects, fits : BOOLEAN] /\ first \subseteq AllSubscribers
      /\ loop \in Loops /\ Idle \in Loops
      /\ \A s, t \in loop.running : s = t
  BY LoopTypes DEF CacheInv, CacheTypes, TakersRun
<1>1. ASSUME NEW s \in Subscribers, CallerSubscribes(s)
      PROVE  RequestsInv' /\ CacheInv'
  <2>1. {got[s]} \in SUBSET (1 .. issued)
    BY <1>1, RequestNumbers DEF CallerSubscribes, RequestsInv, CacheInv, CacheTypes, NoRequest
  <2>2. s \in AllSubscribers /\ TRUE \in BOOLEAN /\ \A c, d \in {got[s]} : issuedIn[c] = issuedIn[d]
    BY CacherTypes
  <2>3. Subscribe({got[s]}, s, TRUE) /\ UNCHANGED cacheVars
    BY <1>1 DEF CallerSubscribes
  <2>4. RequestsInv'
    BY <2>1, <2>2, <2>3, SubscribeStep
  <2>5. CacheInv'
    BY <2>1, <2>2, <2>3, ApplicationSubscribes
  <2> QED
    BY <2>4, <2>5
<1>2. ASSUME NEW n \in 1 .. 2, PublishRequest(n), UNCHANGED cacheVars
      PROVE  RequestsInv' /\ CacheInv'
  <2>1. RequestsInv'
    BY <1>2, PublishRequestStep
  <2>2. /\ issued \in Nat /\ issued' = issued + n /\ UNCHANGED <<session, published, answers, subscriberVars, loop>>
        /\ 1 .. issued \subseteq 1 .. issued' /\ 0 .. issued \subseteq 0 .. issued'
        /\ \A c \in 1 .. issued : issuedIn'[c] = issuedIn[c]
    <3>1. issued \in Nat /\ issued' = issued + n /\ 1 .. issued \subseteq Requests
      BY <1>2, RequestNumbers DEF PublishRequest, RequestsInv
    <3>2. \A c \in 1 .. issued : c \in Requests /\ c \notin Fresh(n)
      BY <3>1 DEF Fresh
    <3> QED
      BY <1>2, <3>1, <3>2 DEF PublishRequest
  <2>3. CacheTypes'
    <3>1. answers' \subseteq [corr : 1 .. issued', object : Objects, fits : BOOLEAN]
      BY <1>0, <2>2
    <3> QED
      BY <1>2, <2>2, <3>1 DEF CacheInv, CacheTypes, cacheVars, subscriberVars
  <2>4. CachersSubscribe'
    <3> SUFFICES ASSUME NEW c \in Requests, Discovered(c)'
                 PROVE  c <= issued' /\ published'[c] = 1 /\ request'[Cacher(c)] = {c}
      BY DEF CachersSubscribe
    <3>1. c <= issued /\ published[c] = 1 /\ request[Cacher(c)] = {c}
      BY <2>2 DEF CacheInv, CachersSubscribe, Discovered, subscriberVars
    <3> QED
      BY <2>2, <3>1, RequestNumbers DEF RequestsInv, subscriberVars
  <2>5. TakersRun' /\ CallersNotRejected'
    BY <1>2, <2>2 DEF CacheInv, TakersRun, CallersNotRejected, subscriberVars, cacheVars
  <2>6. PendingWaits'
    <3>1. pending # NoRequest => pending \in 1 .. issued
      BY <2>2 DEF CacheInv, CacheTypes, NoRequest
    <3> QED
      BY <1>2, <2>2, <3>1 DEF CacheInv, PendingWaits, Discovered, subscriberVars, cacheVars
  <2> QED
    BY <2>1, <2>3, <2>4, <2>5, <2>6 DEF CacheInv
<1>3. ASSUME NEW s \in Subscribers, NEW n \in 1 .. 2, NEW c \in 1 .. issued,
             got[s] = NoRequest, c + n - 1 <= issued, \A d \in c .. (c + n - 1) : issuedIn[d] = issuedIn[c],
             Subscribe(c .. (c + n - 1), s, FALSE), UNCHANGED cacheVars
      PROVE  RequestsInv' /\ CacheInv'
  <2>1. c .. (c + n - 1) \in SUBSET (1 .. issued)
    BY <1>3, RequestNumbers DEF RequestsInv
  <2>2. s \in AllSubscribers /\ FALSE \in BOOLEAN
    BY CacherTypes
  <2>3. \A d, e \in c .. (c + n - 1) : issuedIn[d] = issuedIn[e]
    BY <1>3
  <2>4. RequestsInv'
    BY <1>3, <2>1, <2>2, <2>3, SubscribeStep
  <2>5. CacheInv'
    BY <1>3, <2>1, <2>2, <2>3, ApplicationSubscribes
  <2> QED
    BY <2>4, <2>5
<1>4. ASSUME NEW s \in Subscribers, Unsubscribe(s), UNCHANGED cacheVars
      PROVE  RequestsInv' /\ CacheInv'
  <2>1. s \in AllSubscribers
    BY CacherTypes
  <2>2. RequestsInv'
    BY <1>4, <2>1, LeavesStep DEF Unsubscribe
  <2>3. CacheInv'
    BY <1>0, <1>4, <2>1, SubscriberLeaves DEF Unsubscribe
  <2> QED
    BY <2>2, <2>3
<1>5. ASSUME NEW c \in 1 .. issued, NEW o \in Objects, NEW fits \in BOOLEAN,
             Respond(c, o, fits), UNCHANGED cacheVars
      PROVE  RequestsInv' /\ CacheInv'
  <2>1. /\ answers' \subseteq [corr : 1 .. issued, object : Objects, fits : BOOLEAN]
        /\ UNCHANGED <<session, itemVars, requestVars, subscriberVars, loop>>
    BY <1>0, <1>5 DEF Respond
  <2> QED
    BY <1>0, <1>5, <2>1, RequestsUnchanged, NobodySubscribes DEF subscriberVars
<1>6. ASSUME NEW m \in answers, Receive(m), UNCHANGED cacheVars
      PROVE  RequestsInv' /\ CacheInv'
  <2>1. loop' \in Loops /\ loop'.running = {}
    BY <1>6, LoopTypes DEF Receive, Idle
  <2>2. /\ answers' \subseteq [corr : 1 .. issued, object : Objects, fits : BOOLEAN]
        /\ UNCHANGED <<session, itemVars, requestVars, subscriberVars>>
    BY <1>0, <1>6 DEF Receive
  <2>3. loop.running = {}
    BY <1>6 DEF Receive, Idle
  <2> QED
    BY <1>0, <1>6, <2>1, <2>2, <2>3, RequestsUnchanged, NobodySubscribes DEF subscriberVars
<1>7. ASSUME CallbackReturns, UNCHANGED cacheVars
      PROVE  RequestsInv' /\ CacheInv'
  <2>1. PICK s \in loop.running :
           IF status[s] = "open" /\ taken[s] # NoObject
           THEN status' = [status EXCEPT ![s] = "closed"] /\ Leaves(request[s], s)
           ELSE UNCHANGED <<status, itemVars>>
    BY <1>7 DEF CallbackReturns
  <2>2. s \in AllSubscribers /\ loop' \in Loops /\ loop'.running = {} /\ UNCHANGED <<session, requestVars, answers, request, first, taken>>
    BY <1>0, <1>7, LoopTypes DEF CallbackReturns
  <2>3. \A t \in loop.running : t = s
    BY <1>0
  <2>4. CASE status[s] = "open" /\ taken[s] # NoObject
    <3>1. RequestsInv'
      BY <2>1, <2>2, <2>4, LeavesStep
    <3>2. CacheInv'
      BY <1>7, <2>1, <2>2, <2>3, <2>4, SubscriberLeaves
    <3> QED
      BY <3>1, <3>2
  <2>5. CASE ~(status[s] = "open" /\ taken[s] # NoObject)
    <3>1. RequestsInv'
      BY <2>1, <2>2, <2>5, RequestsUnchanged
    <3>2. CacheInv'
      BY <1>0, <1>7, <2>1, <2>2, <2>3, <2>5, NobodySubscribes
    <3> QED
      BY <3>1, <3>2
  <2> QED
    BY <2>4, <2>5
<1>8. ASSUME DispatchEnds, UNCHANGED cacheVars
      PROVE  RequestsInv' /\ CacheInv'
  <2>1. loop' \in Loops /\ loop.running = {} /\ loop'.running = {}
        /\ UNCHANGED <<session, itemVars, requestVars, answers, subscriberVars>>
    BY <1>0, <1>8 DEF DispatchEnds, Idle
  <2> QED
    BY <1>0, <1>8, <2>1, RequestsUnchanged, NobodySubscribes DEF subscriberVars
<1>9. ASSUME NEW o \in Objects, Advertised(o)
      PROVE  RequestsInv' /\ CacheInv'
  <2>1. UNCHANGED <<vars, running, pending, got>> /\ objectCache' \in Objects \cup {NoObject}
    BY <1>9 DEF Advertised
  <2>2. RequestsInv'
    BY <2>1, RequestsUnchanged DEF vars, subscriberVars
  <2>3. CacheTypes'
    BY <2>1 DEF CacheInv, CacheTypes, vars, requestVars, subscriberVars
  <2> QED
    BY <2>1, <2>2, <2>3 DEF CacheInv, CachersSubscribe, TakersRun, PendingWaits, CallersNotRejected, Discovered,
       vars, requestVars, subscriberVars
<1>10. ASSUME ManagerStarts
       PROVE  RequestsInv' /\ CacheInv'
  <2>1. UNCHANGED <<vars, got>> /\ running' = TRUE /\ objectCache' = NoObject /\ pending' = NoRequest
    BY <1>10 DEF ManagerStarts, Cleared
  <2>2. RequestsInv'
    BY <2>1, RequestsUnchanged DEF vars, subscriberVars
  <2>3. pending' \in 0 .. issued
    BY <2>1, RequestNumbers DEF RequestsInv, NoRequest
  <2>4. CacheTypes'
    BY <2>1, <2>3 DEF CacheInv, CacheTypes, vars, requestVars, subscriberVars
  <2>5. PendingWaits' /\ CallersNotRejected'
    BY <2>1 DEF PendingWaits, CallersNotRejected
  <2> QED
    BY <2>1, <2>2, <2>4, <2>5 DEF CacheInv, CachersSubscribe, TakersRun, Discovered, vars, requestVars, subscriberVars
<1>11. CASE UNCHANGED allVars
  <2>1. UNCHANGED <<vars, cacheVars>>
    BY <1>11 DEF allVars
  <2> QED
    BY <1>0, <2>1, RequestsUnchanged, NobodySubscribes DEF vars, subscriberVars
<1> QED
  BY <1>1, <1>2, <1>3, <1>4, <1>5, <1>6, <1>7, <1>8, <1>9, <1>10, <1>11, CachedStep, ResolveCache, DispatchCache, StopCache
     DEF Next

LEMMA CacheStarts == CacheInit => RequestsInv /\ CacheInv
<1> SUFFICES ASSUME CacheInit PROVE RequestsInv /\ CacheInv
  OBVIOUS
<1>1. RequestsInv
  BY RequestsInit DEF CacheInit
<1>2. CacheTypes
  <2>1. Idle \in [corr : 0 .. MaxRequests, index : Nat, running : SUBSET AllSubscribers,
                  object : Objects \cup {NoObject}]
    BY BoundsAssumption DEF Idle
  <2> QED
    BY <2>1 DEF CacheInit, Init, CacheTypes, NoRequest
<1>3. CachersSubscribe
  BY CacherTypes DEF CacheInit, Init, CachersSubscribe, Discovered
<1>4. TakersRun
  BY DEF CacheInit, Init, TakersRun, Idle
<1>5. PendingWaits /\ CallersNotRejected
  BY DEF CacheInit, PendingWaits, CallersNotRejected
<1> QED
  BY <1>1, <1>2, <1>3, <1>4, <1>5 DEF CacheInv

LEMMA CacheInvariant == Spec => [](RequestsInv /\ CacheInv)
<1>1. (RequestsInv /\ CacheInv) /\ [Next]_allVars => (RequestsInv /\ CacheInv)'
  BY CacheStep
<1> QED
  BY <1>1, CacheStarts, PTL DEF Spec

------------------------------------------------------------------------------
(* What requests and the object cache promise                                *)

\* A request is published once, by its first subscriber; as long as it has
\* subscribers in its session, responses to it are subscribed and dispatched;
\* when the last has left nothing remains of it, and nobody gets in again
\* (communication-manager.ts:1023-1036, 1548-1597).
THEOREM RequestsAreConsistent == Spec => []RequestsConsistent
<1>1. RequestsInv /\ CacheInv => RequestsConsistent
  <2> SUFFICES ASSUME RequestsInv, CacheInv PROVE RequestsConsistent
    OBVIOUS
  <2>1. \A c \in Requests : \A i \in DOMAIN subscribers[c] :
           /\ subscribers[c][i] \in AllSubscribers /\ status[subscribers[c][i]] = "open"
           /\ c \in request[subscribers[c][i]]
    BY ArrayTypes DEF RequestsInv, MembersWait
  <2>2. ASSUME NEW s \in AllSubscribers, status[s] = "open", NEW c \in request[s]
        PROVE  s \in ToSet(subscribers[c])
    <3>1. c \in Requests
      BY RequestNumbers DEF RequestsInv, RequestTypes
    <3>2. PICK i \in 1 .. Len(subscribers[c]) : subscribers[c][i] = s
      BY <2>2 DEF RequestsInv, WaitersAreMembers
    <3> QED
      BY <3>1, <3>2, ArrayTypes DEF RequestsInv, ToSet
  <2>3. observedResponses \cup bound \cup finished \subseteq 1 .. issued
    BY DEF RequestsInv, RequestTypes, ObservedOnes
  <2>4. ResponsesTypeOK
    BY <2>1, <2>2, <2>3 DEF ResponsesTypeOK, RequestsInv, RequestTypes, CacheInv, CacheTypes
  <2>5. TypeOK
    BY <2>4 DEF TypeOK, CacheInv, CacheTypes
  <2>6. ObservedRequestsAnswered
    <3> SUFFICES ASSUME NEW c \in 1 .. issued, issuedIn[c] = session, subscribers[c] # << >>
                 PROVE  published[c] = 1 /\ c \in observedResponses /\ c \in bound
      BY DEF ObservedRequestsAnswered
    <3>1. c \in Requests
      BY RequestNumbers DEF RequestsInv
    <3> QED
      BY <3>1 DEF RequestsInv, RequestLife, ObservedOnes
  <2>7. FinishedForGood
    <3>1. \A c \in finished : c \in Requests
      BY RequestNumbers DEF RequestsInv, RequestTypes
    <3> QED
      BY <3>1 DEF FinishedForGood, RequestsInv, RequestLife, ObservedOnes
  <2>8. PublishedOnce
    BY DEF PublishedOnce, RequestsInv, RequestLife
  <2> QED
    BY <2>5, <2>6, <2>7, <2>8 DEF RequestsConsistent
<1> QED
  BY <1>1, CacheInvariant, PTL

\* A request that the cache shares with new callers can still be answered, as
\* the cache itself waits for its answer and its responses are observed, and no
\* caller that subscribes it is rejected while the manager is started, whenever
\* callers resolve objects and subscribe (object-cache-controller.ts:50-78).
THEOREM CacheIsConsistent == Spec => []CacheConsistent
<1>1. RequestsInv /\ CacheInv => CacheConsistent
  <2> SUFFICES ASSUME RequestsInv, CacheInv PROVE CacheConsistent
    OBVIOUS
  <2>1. ASSUME running, pending # NoRequest
        PROVE  /\ Cacher(pending) \in Observers(pending)
               /\ pending \in bound /\ pending \in observedResponses /\ issuedIn[pending] = session
    <3>1. pending \in 1 .. issued /\ pending \in Requests
      BY <2>1, RequestNumbers DEF RequestsInv, CacheInv, CacheTypes, NoRequest
    <3>2. /\ issuedIn[pending] = session /\ status[Cacher(pending)] = "open"
          /\ pending \in request[Cacher(pending)] /\ Cacher(pending) \in AllSubscribers
      BY <2>1, <3>1, CacherTypes DEF CacheInv, PendingWaits, CachersSubscribe
    <3>3. PICK i \in 1 .. Len(subscribers[pending]) : subscribers[pending][i] = Cacher(pending)
      BY <3>2 DEF RequestsInv, WaitersAreMembers
    <3>4. subscribers[pending] # << >> /\ i \in DOMAIN subscribers[pending]
      BY <3>1, <3>3, ArrayTypes DEF RequestsInv
    <3>5. pending \notin finished
      BY <3>1, <3>4 DEF RequestsInv, RequestLife
    <3>6. Cacher(pending) \in Observers(pending)
      BY <3>3, <3>4 DEF Observers, ToSet
    <3> QED
      BY <3>1, <3>2, <3>5, <3>6 DEF RequestsInv, ObservedOnes
  <2> QED
    BY <2>1 DEF CacheConsistent, PendingIsLive, CacheInv
<1> QED
  BY <1>1, CacheInvariant, PTL

------------------------------------------------------------------------------
(* Late and repeated responses                                               *)

\* Only published requests are answered, and a loop runs over a request that is
\* observed or finished.
LoopObserved ==
  /\ \A m \in answers : published[m.corr] > 0
  /\ loop.corr # 0 => published[loop.corr] > 0 /\ loop.corr \in observedResponses \cup finished

\* A request that was published is observed until it is finished, also if the
\* manager stops.
LEMMA ObservedKept ==
    ASSUME RequestsInv, CacheInv, [Next]_allVars, NEW c \in 1 .. issued, published[c] > 0
    PROVE  /\ published'[c] > 0
           /\ c \in observedResponses \cup finished => c \in observedResponses' \cup finished'
<1>0. /\ c \in Requests /\ issued \in Nat /\ published[c] = 1 /\ published \in [Requests -> Nat]
      /\ issuedIn \in [Requests -> 0 .. session]
      /\ c \in observedResponses => issuedIn[c] = session
  BY RequestNumbers DEF RequestsInv, RequestTypes, RequestLife, ObservedOnes
<1>1. RequestsInv'
  BY CacheStep
<1>2. ASSUME issued' >= issued, issued' \in Nat, published'[c] = 1, session' = session,
             issuedIn'[c] = issuedIn[c], finished \subseteq finished'
      PROVE  /\ published'[c] > 0
             /\ c \in observedResponses \cup finished => c \in observedResponses' \cup finished'
  <2>1. c \in 1 .. issued'
    BY <1>0, <1>2
  <2> QED
    BY <1>0, <1>1, <1>2, <2>1 DEF RequestsInv, ObservedOnes
<1>3. ASSUME UNCHANGED <<session, issued, issuedIn, published>>, finished \subseteq finished'
      PROVE  /\ published'[c] > 0
             /\ c \in observedResponses \cup finished => c \in observedResponses' \cup finished'
  BY <1>0, <1>2, <1>3
<1>4. ASSUME NEW n \in 1 .. 2, PublishRequest(n)
      PROVE  /\ published'[c] > 0
             /\ c \in observedResponses \cup finished => c \in observedResponses' \cup finished'
  <2>1. issued' = issued + n /\ issuedIn'[c] = issuedIn[c] /\ UNCHANGED <<session, published, finished>>
    BY <1>0, <1>4 DEF PublishRequest, Fresh
  <2> QED
    BY <1>0, <1>2, <2>1
<1>5. ASSUME NEW s \in AllSubscribers, NEW cs \in SUBSET (1 .. issued), NEW b \in BOOLEAN, Subscribe(cs, s, b)
      PROVE  /\ published'[c] > 0
             /\ c \in observedResponses \cup finished => c \in observedResponses' \cup finished'
  <2>1. UNCHANGED <<session, issued, issuedIn, finished>>
    BY <1>5 DEF Subscribe
  <2>2. published'[c] = published[c] \/ published'[c] = Published(c)
    BY <1>0, <1>5 DEF Subscribe
  <2>3. published'[c] \in {1, 2} /\ published'[c] \in {0, 1}
    BY <1>0, <1>1, <2>2 DEF Published, RequestsInv, RequestLife
  <2> QED
    BY <1>0, <1>2, <2>1, <2>3
<1>6. ASSUME NEW s \in Subscribers, NEW again \in BOOLEAN, ResolveObject(s, again)
      PROVE  /\ published'[c] > 0
             /\ c \in observedResponses \cup finished => c \in observedResponses' \cup finished'
  <2>1. CASE pending = NoRequest \/ again
    <3>1. /\ issued' = issued + 1 /\ issuedIn' = [issuedIn EXCEPT ![issued + 1] = session]
          /\ published' = [published EXCEPT ![issued + 1] = 1] /\ UNCHANGED <<session, finished>>
      BY <1>6, <2>1 DEF ResolveObject
    <3>2. c # issued + 1
      BY <1>0
    <3>3. issuedIn'[c] = issuedIn[c] /\ published'[c] = published[c]
      BY <1>0, <3>1, <3>2
    <3> QED
      BY <1>0, <1>2, <3>1, <3>3
  <2>2. CASE ~(pending = NoRequest \/ again)
    BY <1>3, <1>6, <2>2 DEF ResolveObject, vars, itemVars, requestVars
  <2> QED
    BY <2>1, <2>2
<1>7. ASSUME Stop
      PROVE  /\ published'[c] > 0
             /\ c \in observedResponses \cup finished => c \in observedResponses' \cup finished'
  <2>1. published' = published /\ finished' = finished \cup {d \in observedResponses : subscribers[d] # << >>}
    BY <1>7 DEF Stop, requestVars
  <2> QED
    BY <1>0, <2>1 DEF RequestsInv, RequestLife
<1>8. ASSUME NEW s \in Subscribers, Unsubscribe(s)
      PROVE  /\ published'[c] > 0
             /\ c \in observedResponses \cup finished => c \in observedResponses' \cup finished'
  BY <1>3, <1>8 DEF Unsubscribe, Leaves, requestVars
<1>9. ASSUME CallbackReturns
      PROVE  /\ published'[c] > 0
             /\ c \in observedResponses \cup finished => c \in observedResponses' \cup finished'
  BY <1>3, <1>9 DEF CallbackReturns, Leaves, requestVars, itemVars
<1>10. ASSUME NEW s \in Subscribers, CallerSubscribes(s)
       PROVE  /\ published'[c] > 0
              /\ c \in observedResponses \cup finished => c \in observedResponses' \cup finished'
  <2>1. {got[s]} \in SUBSET (1 .. issued) /\ s \in AllSubscribers
    BY <1>10, RequestNumbers, CacherTypes DEF CallerSubscribes, RequestsInv, CacheInv, CacheTypes, NoRequest
  <2> QED
    BY <1>5, <1>10, <2>1 DEF CallerSubscribes
<1>11. ASSUME NEW s \in Subscribers, NEW n \in 1 .. 2, NEW d \in 1 .. issued, d + n - 1 <= issued,
              Subscribe(d .. (d + n - 1), s, FALSE)
       PROVE  /\ published'[c] > 0
              /\ c \in observedResponses \cup finished => c \in observedResponses' \cup finished'
  <2>1. d .. (d + n - 1) \in SUBSET (1 .. issued) /\ s \in AllSubscribers
    BY <1>0, <1>11, CacherTypes
  <2> QED
    BY <1>5, <1>11, <2>1
<1>12. ASSUME UNCHANGED <<session, itemVars, requestVars>>
       PROVE  /\ published'[c] > 0
              /\ c \in observedResponses \cup finished => c \in observedResponses' \cup finished'
  BY <1>3, <1>12 DEF itemVars, requestVars
<1> QED
  BY <1>4, <1>6, <1>7, <1>8, <1>9, <1>10, <1>11, <1>12 DEF Next, allVars, vars, Respond, Receive, DispatchEnds,
     Dispatch, DispatchNext, ResolveCached, Advertised, ManagerStops, ManagerStarts

LEMMA LoopStep ==
    ASSUME RequestsInv, CacheInv, LoopObserved, [Next]_allVars
    PROVE  LoopObserved'
<1>0. /\ answers \subseteq [corr : 1 .. issued, object : Objects, fits : BOOLEAN]
      /\ loop.corr \in 0 .. MaxRequests /\ issued \in Nat /\ MaxRequests \in Nat
  BY RequestNumbers DEF RequestsInv, CacheInv, CacheTypes
<1>1. loop.corr # 0 => loop.corr \in 1 .. issued
  <2> SUFFICES ASSUME loop.corr # 0 PROVE loop.corr \in 1 .. issued
    OBVIOUS
  <2>1. loop.corr \in Requests /\ published[loop.corr] > 0
    BY <1>0 DEF LoopObserved, Requests
  <2> QED
    BY <1>0, <2>1 DEF RequestsInv, RequestLife, Requests
<1>2. \A m \in answers : published'[m.corr] > 0
  BY <1>0, ObservedKept DEF LoopObserved
<1>3. loop.corr # 0 => published'[loop.corr] > 0 /\ loop.corr \in observedResponses' \cup finished'
  BY <1>1, ObservedKept DEF LoopObserved
<1>4. ASSUME answers' \subseteq answers, loop'.corr = 0 \/ loop'.corr = loop.corr
      PROVE  LoopObserved'
  BY <1>2, <1>3, <1>4 DEF LoopObserved
<1>5. ASSUME NEW m \in answers, Receive(m)
      PROVE  LoopObserved'
  <2>1. answers' \subseteq answers /\ UNCHANGED <<observedResponses, published>>
    BY <1>5 DEF Receive, itemVars, requestVars
  <2>2. loop'.corr = 0 \/ (loop'.corr = m.corr /\ m.corr \in observedResponses)
    BY <1>5 DEF Receive, IsDispatched, Idle
  <2> QED
    BY <1>2, <2>1, <2>2 DEF LoopObserved
<1>6. ASSUME NEW c \in 1 .. issued, NEW o \in Objects, NEW fits \in BOOLEAN, Respond(c, o, fits)
      PROVE  LoopObserved'
  <2>1. /\ answers' = answers \cup {[corr |-> c, object |-> o, fits |-> fits]} /\ published[c] > 0
        /\ UNCHANGED <<loop, published>>
    BY <1>6 DEF Respond, requestVars
  <2> QED
    BY <1>2, <1>3, <2>1 DEF LoopObserved
<1>7. ASSUME CallbackReturns
      PROVE  LoopObserved'
  BY <1>4, <1>7, LoopTypes DEF CallbackReturns
<1>8. ASSUME Dispatch
      PROVE  LoopObserved'
  BY <1>4, <1>8, LoopTypes DEF Dispatch, DispatchNext
<1>9. ASSUME DispatchEnds
      PROVE  LoopObserved'
  BY <1>4, <1>9 DEF DispatchEnds, Idle
<1>10. ASSUME UNCHANGED <<answers, loop>>
       PROVE  LoopObserved'
  BY <1>4, <1>10
<1> QED
  BY <1>5, <1>6, <1>7, <1>8, <1>9, <1>10 DEF Next, allVars, vars, CallerSubscribes, PublishRequest, Subscribe,
     Unsubscribe, ResolveCached, ResolveObject, Advertised, ManagerStops, Stop, ManagerStarts

\* The callback that a loop runs is that of a subscriber who still waits.
LEMMA DispatchReachesWaiting ==
    ASSUME RequestsInv, CacheInv, LoopObserved, DispatchNext, NEW s \in loop'.running
    PROVE  /\ status[s] = "open" /\ taken[s] = NoObject
           /\ loop.corr \in request[s] \cap observedResponses
           /\ issuedIn[loop.corr] = session
<1>1. /\ loop.corr \in Requests /\ loop.index - 1 \in 1 .. Len(subscribers[loop.corr])
      /\ s = subscribers[loop.corr][loop.index - 1] /\ s \in AllSubscribers
      /\ loop.running = {} /\ loop.corr # 0
  BY LoopTypes DEF DispatchNext
<1>2. status[s] = "open" /\ loop.corr \in request[s]
  BY <1>1 DEF RequestsInv, MembersWait
<1>3. taken[s] = NoObject
  BY <1>1, <1>2 DEF CacheInv, TakersRun
<1>4. subscribers[loop.corr] # << >>
  BY <1>1, ArrayTypes DEF RequestsInv
<1>5. loop.corr \in observedResponses
  BY <1>1, <1>4 DEF LoopObserved, RequestsInv, RequestLife
<1> QED
  BY <1>2, <1>3, <1>5 DEF RequestsInv, ObservedOnes

\* A response that comes late or repeatedly reaches nobody who has left, has
\* taken his response already or was completed by a restart, also if this is
\* done by callbacks of its own dispatch (communication-manager.ts:1066-1126,
\* 1485-1490).
THEOREM LateResponsesAreDropped == Spec => LateResponsesDropped
<1>1. CacheInit => LoopObserved
  BY DEF CacheInit, Init, LoopObserved, Idle
<1>2. Spec => []LoopObserved
  <2>1. (RequestsInv /\ CacheInv) /\ LoopObserved /\ [Next]_allVars => LoopObserved'
    BY LoopStep
  <2> QED
    BY <1>1, <2>1, CacheInvariant, PTL DEF Spec
<1>3. ASSUME RequestsInv, CacheInv, LoopObserved, [Next]_allVars
      PROVE  [\A s \in loop'.running \ loop.running :
                 /\ status[s] = "open" /\ taken[s] = NoObject
                 /\ loop.corr \in request[s] \cap observedResponses
                 /\ issuedIn[loop.corr] = session]_vars
  <2> SUFFICES ASSUME NEW s \in loop'.running \ loop.running
               PROVE  /\ status[s] = "open" /\ taken[s] = NoObject
                      /\ loop.corr \in request[s] \cap observedResponses
                      /\ issuedIn[loop.corr] = session
    OBVIOUS
  <2>1. DispatchNext
    <3>1. ~CallbackReturns
      BY <1>3, LoopTypes
    <3>2. ASSUME NEW m \in answers PROVE ~Receive(m)
      BY DEF Receive, Idle
    <3>3. ~DispatchEnds
      BY DEF DispatchEnds, Idle
    <3> QED
      BY <1>3, <3>1, <3>2, <3>3 DEF Next, allVars, vars, CallerSubscribes, PublishRequest, Subscribe, Unsubscribe,
         Respond, Dispatch, ResolveCached, ResolveObject, Advertised, ManagerStops, Stop, ManagerStarts
  <2> QED
    BY <1>3, <2>1, DispatchReachesWaiting
<1> QED
  BY <1>2, <1>3, CacheInvariant, PTL DEF Spec, LateResponsesDropped

------------------------------------------------------------------------------
(* Callers of the cache that subscribe what they get at once                 *)

\* Steps after which no loop is active.
LEMMA NoLoop ==
    ASSUME loop'.corr = 0, loop'.running = {}
    PROVE  HoldersIdle' /\ RunnersSubscribe' /\ NobodyBehind'
  BY DEF HoldersIdle, RunnersSubscribe, NobodyBehind

LEMMA CallersUnchanged ==
    ASSUME CallersInv, UNCHANGED <<subscribers, status, request, first, taken, loop, got>>
    PROVE  CallersInv'
  BY DEF CallersInv, CallersSubscribe, CacheComesFirst, HoldersIdle, RunnersSubscribe, NobodyBehind, Discovered, SomeoneHolds

\* A subscriber that leaves does not leave the cache behind another one: it is
\* not the cache, or the only subscriber.
LEMMA LeaverIsNotFirst ==
    ASSUME RequestsInv, CacheInv, CallersInv, NEW s \in AllSubscribers, status[s] = "open",
           status' = [status EXCEPT ![s] = "closed"],
           Leaves(request[s], s), UNCHANGED <<session, requestVars, request, first>>,
           \A c \in Requests : s = Cacher(c) /\ Discovered(c) => Len(subscribers[c]) = 1
    PROVE  CacheComesFirst'
<1>1. /\ RequestsInv'
      /\ status'[s] = "closed"
      /\ \A t \in AllSubscribers : t # s => status'[t] = status[t]
      /\ \A c \in Requests \ request[s] : subscribers'[c] = subscribers[c]
      /\ \A c \in request[s] : \E n \in 1 .. Len(subscribers[c]) :
            /\ subscribers[c][n] = s
            /\ Len(subscribers'[c]) = Len(subscribers[c]) - 1
            /\ \A i \in 1 .. Len(subscribers[c]) - 1 :
                  subscribers'[c][i] = subscribers[c][IF i < n THEN i ELSE i + 1]
  BY LeavesStep
<1> SUFFICES ASSUME NEW c \in Requests, Discovered(c)'
             PROVE  /\ subscribers'[c] # << >> => subscribers'[c][1] = Cacher(c)
                    /\ \A i \in 1 .. Len(subscribers'[c]) : subscribers'[c][i] \in first'
  BY DEF CacheComesFirst
<1>2. Discovered(c)
  BY <1>1, CacherTypes DEF Discovered
<1>3. /\ subscribers[c] # << >> => subscribers[c][1] = Cacher(c)
      /\ \A i \in 1 .. Len(subscribers[c]) : subscribers[c][i] \in first
  BY <1>2 DEF CallersInv, CacheComesFirst
<1>4. CASE c \notin request[s]
  BY <1>1, <1>3, <1>4
<1>5. CASE c \in request[s]
  <2>1. PICK n \in 1 .. Len(subscribers[c]) :
            /\ subscribers[c][n] = s
            /\ Len(subscribers'[c]) = Len(subscribers[c]) - 1
            /\ \A i \in 1 .. Len(subscribers[c]) - 1 :
                  subscribers'[c][i] = subscribers[c][IF i < n THEN i ELSE i + 1]
    BY <1>1, <1>5
  <2>2. Len(subscribers[c]) \in Nat /\ Len(subscribers[c]) > 0
    BY <2>1, ArrayTypes DEF RequestsInv
  <2>3. \A i \in 1 .. Len(subscribers[c]) - 1 : (IF i < n THEN i ELSE i + 1) \in 1 .. Len(subscribers[c])
    BY <2>2
  <2>4. \A i \in 1 .. Len(subscribers'[c]) : subscribers'[c][i] \in first'
    BY <1>3, <2>1, <2>3
  <2>5. ASSUME subscribers'[c] # << >>
        PROVE  subscribers'[c][1] = Cacher(c)
    <3>1. Len(subscribers'[c]) # 0 /\ Len(subscribers'[c]) \in Nat
      BY <1>1, <2>5, ArrayTypes DEF RequestsInv, RequestTypes
    <3>2. subscribers[c][1] = Cacher(c)
      BY <1>3, <2>2, ArrayTypes DEF RequestsInv
    <3>3. n # 1
      BY <1>2, <2>1, <2>2, <3>1, <3>2
    <3>4. 1 \in 1 .. Len(subscribers[c]) - 1 /\ 1 < n
      BY <2>1, <2>2, <3>1, <3>3
    <3> QED
      BY <2>1, <3>2, <3>4
  <2> QED
    BY <2>4, <2>5
<1> QED
  BY <1>4, <1>5

\* Callers subscribe while no loop is active, and behind the cache.
LEMMA CallerSubscribesStep ==
    ASSUME RequestsInv, CacheInv, CallersInv, NEW s \in Subscribers, CallerSubscribes(s)
    PROVE  CallersInv'
<1> USE DEF CallerSubscribes
<1> DEFINE g == got[s]
<1>1. /\ Subscribe({g}, s, TRUE) /\ UNCHANGED cacheVars /\ g # NoRequest /\ status[s] = "new"
      /\ first' = first \cup {s} /\ UNCHANGED <<loop, taken>> /\ UNCHANGED got
      /\ s \in AllSubscribers
  BY CacherTypes DEF Subscribe, cacheVars
<1>2. loop.corr = 0 /\ loop.running = {}
  BY <1>1 DEF CallersInv, HoldersIdle, SomeoneHolds, RunnersSubscribe
<1>3. g \in 1 .. issued /\ g \in Requests /\ {g} \in SUBSET (1 .. issued)
  BY <1>1, RequestNumbers DEF RequestsInv, CacheInv, CacheTypes, NoRequest
<1>4. /\ request'[s] = {g}
      /\ \A t \in AllSubscribers : t # s => status'[t] = status[t] /\ request'[t] = request[t]
      /\ status'[s] = "rejected" => UNCHANGED <<subscribers, published>>
      /\ status'[s] \in {"open", "rejected"}
      /\ status'[s] = "open" =>
            /\ ~IsFinished({g})
            /\ \A d \in Requests \ {g} : subscribers'[d] = subscribers[d]
            /\ Len(subscribers'[g]) = Len(subscribers[g]) + 1
            /\ subscribers'[g][Len(subscribers[g]) + 1] = s
            /\ \A i \in 1 .. Len(subscribers[g]) : subscribers'[g][i] = subscribers[g][i]
  <2>1. \A d, e \in {g} : issuedIn[d] = issuedIn[e]
    OBVIOUS
  <2>2. TRUE \in BOOLEAN
    OBVIOUS
  <2> HIDE DEF g
  <2>3. PICK cs \in SUBSET (1 .. issued) : cs = {g}
    BY <1>3
  <2>4. PICK f \in BOOLEAN : Subscribe(cs, s, f)
    BY <1>1, <2>2, <2>3
  <2>5. /\ request'[s] = cs
        /\ \A t \in AllSubscribers : t # s => status'[t] = status[t] /\ request'[t] = request[t]
        /\ status'[s] \in {"open", "rejected"}
        /\ status'[s] = "rejected" => UNCHANGED <<subscribers, published>>
        /\ status'[s] = "open" => ~IsFinished(cs)
        /\ status'[s] = "open" => Joins(cs, s)
    <3>1. \A d, e \in cs : issuedIn[d] = issuedIn[e]
      BY <2>1, <2>3
    <3>2. s \in AllSubscribers
      BY <1>1
    <3>3. Subscribed(cs, s)
      BY <2>4, <3>1, <3>2, SubscribeStep
    <3> QED
      BY <3>3 DEF Subscribed
  <2>6. g \in cs
    BY <2>3
  <2>7. /\ request'[s] = {g}
        /\ status'[s] = "rejected" => UNCHANGED <<subscribers, published>>
    BY <2>3, <2>5
  <2>8. status'[s] = "open" =>
          /\ ~IsFinished({g})
          /\ \A d \in Requests \ {g} : subscribers'[d] = subscribers[d]
          /\ Len(subscribers'[g]) = Len(subscribers[g]) + 1
          /\ subscribers'[g][Len(subscribers[g]) + 1] = s
          /\ \A i \in 1 .. Len(subscribers[g]) : subscribers'[g][i] = subscribers[g][i]
    BY <2>3, <2>5, <2>6 DEF Joins
  <2> QED
    BY <2>5, <2>7, <2>8
<1>5. \A d \in Requests : Discovered(d)' <=> Discovered(d)
  BY <1>4, CacherTypes DEF Discovered
<1>6. CallersSubscribe'
  <2>1. \A t \in Subscribers : got[t] # NoRequest => got[t] \in Requests
    BY RequestNumbers DEF RequestsInv, CacheInv, CacheTypes, NoRequest
  <2>2. \A t \in Subscribers : got[t] # NoRequest => Discovered(got[t])'
    BY <1>1, <1>5, <2>1 DEF CallersInv, CallersSubscribe
  <2>3. \A t \in Subscribers : got[t] # NoRequest /\ status'[t] = "open" => request'[t] = {got[t]}
    BY <1>4, CacherTypes DEF CallersInv, CallersSubscribe
  <2> QED
    BY <1>1, <2>2, <2>3 DEF CallersSubscribe
<1>7. CacheComesFirst'
  <2> SUFFICES ASSUME NEW d \in Requests, Discovered(d)'
               PROVE  /\ subscribers'[d] # << >> => subscribers'[d][1] = Cacher(d)
                      /\ \A i \in 1 .. Len(subscribers'[d]) : subscribers'[d][i] \in first'
    BY DEF CacheComesFirst
  <2>1. /\ Discovered(d)
        /\ subscribers[d] # << >> => subscribers[d][1] = Cacher(d)
        /\ \A i \in 1 .. Len(subscribers[d]) : subscribers[d][i] \in first
    BY <1>5 DEF CallersInv, CacheComesFirst
  <2>2. CASE status'[s] = "rejected" \/ d # g
    BY <1>1, <1>4, <2>1, <2>2
  <2>3. CASE status'[s] = "open" /\ d = g
    <3>1. subscribers[d] # << >>
      BY <1>4, <2>1, <2>3 DEF RequestsInv, RequestLife, CacheInv, CachersSubscribe, IsFinished
    <3>2. Len(subscribers[d]) \in Nat /\ Len(subscribers[d]) > 0
      BY <3>1, ArrayTypes DEF RequestsInv
    <3>3. subscribers'[d][1] = Cacher(d)
      BY <1>4, <2>1, <2>3, <3>1, <3>2
    <3>4. \A i \in 1 .. Len(subscribers'[d]) : i \in 1 .. Len(subscribers[d]) \/ i = Len(subscribers[d]) + 1
      BY <1>4, <2>3, <3>2
    <3>5. \A i \in 1 .. Len(subscribers'[d]) : subscribers'[d][i] \in first'
      BY <1>1, <1>4, <2>1, <2>3, <3>4
    <3> QED
      BY <3>3, <3>5
  <2> QED
    BY <1>4, <2>2, <2>3
<1> QED
  BY <1>1, <1>2, <1>6, <1>7, NoLoop DEF CallersInv

\* Subscribers of other requests do not get among those of the cache.
LEMMA OthersSubscribeStep ==
    ASSUME RequestsInv, CacheInv, CallersInv, NEW cs \in SUBSET (1 .. issued), NEW s \in Subscribers,
           got[s] = NoRequest,
           \A c, d \in cs : issuedIn[c] = issuedIn[d],
           \A c \in cs : ~Discovered(c),
           Subscribe(cs, s, FALSE), UNCHANGED cacheVars
    PROVE  CallersInv'
<1>1. /\ first' = first /\ UNCHANGED <<loop, taken, got>> /\ s \in AllSubscribers /\ status[s] = "new"
  BY CacherTypes DEF Subscribe, cacheVars
<1>2. /\ \A t \in AllSubscribers : t # s => status'[t] = status[t] /\ request'[t] = request[t]
      /\ status'[s] # "new"
      /\ \A c \in Requests \ cs : subscribers'[c] = subscribers[c]
  <2>1. /\ \A t \in AllSubscribers : t # s => status'[t] = status[t] /\ request'[t] = request[t]
        /\ status'[s] \in {"open", "rejected"}
        /\ status'[s] = "rejected" => UNCHANGED <<subscribers, published>>
        /\ status'[s] = "open" => Joins(cs, s)
    <3>1. Subscribed(cs, s)
      BY <1>1, SubscribeStep
    <3> QED
      BY <3>1 DEF Subscribed
  <2> QED
    BY <2>1 DEF Joins
<1>3. \A c \in Requests : Discovered(c)' <=> Discovered(c)
  BY <1>2, CacherTypes DEF Discovered
<1>4. \A t \in Subscribers : got[t] # NoRequest => got[t] \in Requests /\ t # s /\ t \in AllSubscribers
  BY CacherTypes, RequestNumbers DEF RequestsInv, CacheInv, CacheTypes, NoRequest
<1>5. CallersSubscribe'
  BY <1>1, <1>2, <1>3, <1>4 DEF CallersInv, CallersSubscribe
<1>6. CacheComesFirst'
  <2>1. \A c \in Requests : Discovered(c)' => subscribers'[c] = subscribers[c] /\ Discovered(c)
    BY <1>2, <1>3
  <2> QED
    BY <1>1, <2>1 DEF CallersInv, CacheComesFirst
<1>7. HoldersIdle'
  <2>1. SomeoneHolds' => SomeoneHolds
    BY <1>1, <1>2, <1>4 DEF SomeoneHolds
  <2> QED
    BY <1>1, <2>1 DEF CallersInv, HoldersIdle
<1>8. \A t \in loop.running : t \in AllSubscribers /\ t # s
  BY <1>1 DEF CallersInv, RunnersSubscribe, CacheInv, CacheTypes
<1>9. RunnersSubscribe'
  BY <1>1, <1>2, <1>8 DEF CallersInv, RunnersSubscribe
<1>10. NobodyBehind'
  <2> SUFFICES ASSUME loop.corr # 0, Discovered(loop.corr)', loop.object \in Suiting
               PROVE  NobodyBehind'
    BY <1>1 DEF NobodyBehind
  <2>1. loop.corr \in Requests
    BY BoundsAssumption DEF CacheInv, CacheTypes, Requests
  <2>2. Discovered(loop.corr) /\ subscribers'[loop.corr] = subscribers[loop.corr]
    BY <1>1, <1>2, <1>3, <2>1
  <2> QED
    BY <1>1, <1>2, <1>8, <2>2 DEF CallersInv, NobodyBehind
<1> QED
  BY <1>5, <1>6, <1>7, <1>9, <1>10 DEF CallersInv

LEMMA CallerUnsubscribesStep ==
    ASSUME RequestsInv, CacheInv, CallersInv, NEW s \in Subscribers, Unsubscribe(s), UNCHANGED cacheVars
    PROVE  CallersInv'
<1>1. /\ s \in AllSubscribers /\ status[s] = "open"
      /\ status' = [status EXCEPT ![s] = "closed"]
      /\ Leaves(request[s], s)
      /\ UNCHANGED <<session, requestVars, request, first, taken, loop, got>>
      /\ loop = Idle \/ loop.running = {s}
  BY CacherTypes DEF Unsubscribe, cacheVars
<1>2. \A c \in Requests : s # Cacher(c)
  BY CacherTypes
<1>3. CacheComesFirst'
  BY <1>1, <1>2, LeaverIsNotFirst
<1>4. /\ status'[s] = "closed"
      /\ \A t \in AllSubscribers : t # s => status'[t] = status[t]
      /\ \A c \in request[s] : Len(subscribers'[c]) = Len(subscribers[c]) - 1
  BY <1>1, LeavesStep
<1>5. /\ \A c \in Requests : Discovered(c)' <=> Discovered(c)
      /\ \A t \in Subscribers : got[t] # NoRequest => got[t] \in Requests
  BY <1>2, <1>4, CacherTypes, RequestNumbers DEF Discovered, RequestsInv, CacheInv, CacheTypes, NoRequest
<1>6. CallersSubscribe'
  BY <1>1, <1>4, <1>5, CacherTypes DEF CallersInv, CallersSubscribe
<1>7. HoldersIdle'
  BY <1>1, <1>4, CacherTypes DEF CallersInv, HoldersIdle, SomeoneHolds
<1>8. RunnersSubscribe'
  <2>1. \A t \in loop.running : t \in AllSubscribers
    BY DEF CacheInv, CacheTypes
  <2> QED
    BY <1>1, <1>4, <2>1 DEF CallersInv, RunnersSubscribe
<1>9. NobodyBehind'
  <2> SUFFICES ASSUME loop.corr # 0, Discovered(loop.corr)', loop.object \in Suiting
               PROVE  /\ Len(subscribers'[loop.corr]) < loop.index
                      /\ \A t \in loop.running : status'[t] # "open"
    BY <1>1 DEF NobodyBehind
  <2>1. loop.running = {s} /\ loop.corr \in request[s] /\ loop.corr \in Requests
    BY <1>1, BoundsAssumption DEF Idle, CallersInv, RunnersSubscribe, CacheInv, CacheTypes, Requests
  <2>2. Discovered(loop.corr)
    BY <1>1, <1>5, <2>1
  <2>3. Len(subscribers[loop.corr]) = loop.index
    BY <1>1, <2>1, <2>2 DEF CallersInv, NobodyBehind
  <2>4. Len(subscribers'[loop.corr]) = Len(subscribers[loop.corr]) - 1 /\ Len(subscribers[loop.corr]) \in Nat
    BY <1>4, <2>1, ArrayTypes DEF RequestsInv
  <2>5. Len(subscribers'[loop.corr]) < loop.index
    BY <2>3, <2>4
  <2> QED
    BY <1>4, <2>1, <2>5
<1> QED
  BY <1>3, <1>6, <1>7, <1>8, <1>9 DEF CallersInv

\* A callback that has taken an object leaves; if it is that of the cache, it is
\* the last one.
LEMMA CallbackReturnsStep ==
    ASSUME RequestsInv, CacheInv, CallersInv, CallbackReturns, UNCHANGED cacheVars
    PROVE  CallersInv'
<1>1. PICK s \in loop.running :
         IF status[s] = "open" /\ taken[s] # NoObject
         THEN status' = [status EXCEPT ![s] = "closed"] /\ Leaves(request[s], s)
         ELSE UNCHANGED <<status, itemVars>>
  BY DEF CallbackReturns
<1>2. /\ s \in AllSubscribers
      /\ loop'.corr = loop.corr /\ loop'.object = loop.object /\ loop'.index = loop.index /\ loop'.running = {}
      /\ UNCHANGED <<session, requestVars, request, first, taken, got>>
  BY LoopTypes DEF CallbackReturns, CacheInv, CacheTypes, cacheVars
<1>3. \A t \in loop.running : t = s
  BY <1>1 DEF CacheInv, TakersRun
<1>4. loop.corr \in Requests /\ loop.corr \in request[s] /\ loop.corr # 0
  BY <1>1, BoundsAssumption DEF CallersInv, RunnersSubscribe, CacheInv, CacheTypes, Requests
<1>5. loop.index \in Nat /\ Len(subscribers[loop.corr]) \in Nat
  BY <1>4, ArrayTypes DEF RequestsInv, CacheInv, CacheTypes
<1>6. RunnersSubscribe'
  BY <1>2, <1>4 DEF RunnersSubscribe
<1>7. ASSUME Discovered(loop.corr), loop.object \in Suiting, status[s] = "open"
      PROVE  /\ Len(subscribers[loop.corr]) = loop.index /\ loop.index > 0
             /\ subscribers[loop.corr][loop.index] = s /\ taken[s] # NoObject
  BY <1>1, <1>3, <1>4, <1>7 DEF CallersInv, NobodyBehind
<1>8. CASE status[s] = "open" /\ taken[s] # NoObject
  <2>1. status' = [status EXCEPT ![s] = "closed"] /\ Leaves(request[s], s)
    BY <1>1, <1>8
  <2>2. /\ status'[s] = "closed"
        /\ \A t \in AllSubscribers : t # s => status'[t] = status[t]
        /\ \A c \in request[s] : Len(subscribers'[c]) = Len(subscribers[c]) - 1
    BY <1>2, <1>8, <2>1, LeavesStep
  <2>3. /\ \A c \in Requests : Discovered(c)' <=> Discovered(c)
        /\ \A t \in Subscribers : got[t] # NoRequest => got[t] \in Requests
    BY <1>8, <2>2, CacherTypes, RequestNumbers DEF Discovered, RequestsInv, CacheInv, CacheTypes, NoRequest
  <2>4. CallersSubscribe'
    BY <1>2, <1>8, <2>2, <2>3, CacherTypes DEF CallersInv, CallersSubscribe
  <2>5. HoldersIdle'
    BY <1>2, <1>8, <2>2, CacherTypes DEF CallersInv, HoldersIdle, SomeoneHolds
  <2>6. CacheComesFirst'
    <3>1. ASSUME NEW c \in Requests, s = Cacher(c), Discovered(c)
          PROVE  Len(subscribers[c]) = 1
      <4>1. c = loop.corr
        BY <1>4, <3>1 DEF CacheInv, CachersSubscribe
      <4>2. loop.object \in Suiting
        BY <1>1, <1>8 DEF CallersInv, RunnersSubscribe
      <4>3. Len(subscribers[c]) = loop.index /\ loop.index > 0 /\ subscribers[c][loop.index] = s
        BY <1>7, <1>8, <3>1, <4>1, <4>2
      <4>4. 1 \in 1 .. Len(subscribers[c]) /\ loop.index \in 1 .. Len(subscribers[c])
        BY <1>5, <4>1, <4>3
      <4>5. subscribers[c][1] = s
        BY <1>5, <3>1, <4>1, <4>3, ArrayTypes DEF CallersInv, CacheComesFirst, RequestsInv
      <4>6. loop.index = 1
        BY <4>3, <4>4, <4>5 DEF RequestsInv, MembersWait
      <4> QED
        BY <4>3, <4>6
    <3> QED
      BY <1>2, <1>8, <2>1, <3>1, LeaverIsNotFirst
  <2>7. NobodyBehind'
    <3> SUFFICES ASSUME Discovered(loop.corr), loop.object \in Suiting
                 PROVE  Len(subscribers'[loop.corr]) < loop.index
      BY <1>2, <1>4, <2>3 DEF NobodyBehind
    <3>1. Len(subscribers[loop.corr]) = loop.index
      BY <1>7, <1>8
    <3> QED
      BY <1>4, <1>5, <2>2, <3>1
  <2> QED
    BY <1>6, <2>4, <2>5, <2>6, <2>7 DEF CallersInv
<1>9. CASE ~(status[s] = "open" /\ taken[s] # NoObject)
  <2>1. UNCHANGED <<status, subscribers>>
    BY <1>1, <1>9 DEF itemVars
  <2>2. CallersSubscribe' /\ CacheComesFirst' /\ HoldersIdle'
    BY <1>2, <2>1 DEF CallersInv, CallersSubscribe, CacheComesFirst, HoldersIdle, SomeoneHolds, Discovered
  <2>3. NobodyBehind'
    <3> SUFFICES ASSUME Discovered(loop.corr), loop.object \in Suiting
                 PROVE  Len(subscribers[loop.corr]) < loop.index
      BY <1>2, <2>1 DEF NobodyBehind, Discovered
    <3>1. status[s] # "open"
      BY <1>7, <1>9
    <3>2. \A i \in 1 .. Len(subscribers[loop.corr]) : subscribers[loop.corr][i] # s
      BY <1>4, <3>1 DEF RequestsInv, MembersWait
    <3> QED
      BY <1>3, <1>4, <1>5, <3>2 DEF CallersInv, NobodyBehind
  <2> QED
    BY <1>6, <2>2, <2>3 DEF CallersInv
<1> QED
  BY <1>8, <1>9

\* A loop starts behind the last subscriber, and comes to each of them.
LEMMA LoopSteps ==
    ASSUME RequestsInv, CacheInv, CallersInv, ~SomeoneHolds
    PROVE  /\ \A m \in answers : Receive(m) /\ UNCHANGED cacheVars => CallersInv'
           /\ DispatchEnds /\ UNCHANGED cacheVars => CallersInv'
           /\ Dispatch => CallersInv'
<1>1. ASSUME NEW m \in answers, Receive(m), UNCHANGED cacheVars
      PROVE  CallersInv'
  <2>1. UNCHANGED <<subscribers, status, request, first, taken, got>>
    BY <1>1 DEF Receive, itemVars, subscriberVars, cacheVars
  <2>2. CallersSubscribe' /\ CacheComesFirst' /\ HoldersIdle'
    BY <2>1 DEF CallersInv, CallersSubscribe, CacheComesFirst, HoldersIdle, SomeoneHolds, Discovered
  <2>3. CASE loop' = Idle
    BY <2>2, <2>3, NoLoop DEF CallersInv, Idle
  <2>4. CASE loop' # Idle
    <3>1. loop' = [corr |-> m.corr, index |-> Behind(m.corr), running |-> {}, object |-> m.object]
      BY <1>1, <2>4 DEF Receive
    <3>2. loop'.corr = m.corr /\ loop'.running = {} /\ loop'.index = Len(subscribers[m.corr]) + 1
      BY <3>1 DEF Behind
    <3>3. Len(subscribers[m.corr]) \in Nat
      <4>1. m.corr \in Requests
        BY RequestNumbers DEF RequestsInv, CacheInv, CacheTypes
      <4> QED
        BY <4>1, ArrayTypes DEF RequestsInv
    <3>4. Len(subscribers'[loop'.corr]) < loop'.index
      BY <2>1, <3>2, <3>3
    <3>5. NobodyBehind' /\ RunnersSubscribe'
      BY <3>2, <3>4 DEF NobodyBehind, RunnersSubscribe
    <3> QED
      BY <2>2, <3>5 DEF CallersInv
  <2> QED
    BY <2>3, <2>4
<1>2. ASSUME DispatchEnds, UNCHANGED cacheVars
      PROVE  CallersInv'
  <2>1. UNCHANGED <<subscribers, status, request, first, taken, got>> /\ loop' = Idle
    BY <1>2 DEF DispatchEnds, itemVars, subscriberVars, cacheVars
  <2>2. CallersSubscribe' /\ CacheComesFirst'
    BY <2>1 DEF CallersInv, CallersSubscribe, CacheComesFirst, Discovered
  <2> QED
    BY <2>1, <2>2, NoLoop DEF CallersInv, Idle
<1>3. ASSUME Dispatch
      PROVE  CallersInv'
  <2>1. /\ UNCHANGED <<subscribers, status, request, first, got>>
        /\ loop.running = {} /\ loop.corr # 0
        /\ \A s \in AllSubscribers : taken'[s] = IF s \in Reached /\ Takes(s) THEN loop.object ELSE taken[s]
    BY <1>3 DEF Dispatch, DispatchNext, itemVars
  <2>2. PICK s \in AllSubscribers :
           /\ loop.corr \in Requests /\ loop.index - 1 \in 1 .. Len(subscribers[loop.corr])
           /\ s = subscribers[loop.corr][loop.index - 1] /\ Reached = {s}
           /\ loop'.corr = loop.corr /\ loop'.object = loop.object
           /\ loop'.index = loop.index - 1 /\ loop'.running = {s}
    BY <1>3, LoopTypes DEF Dispatch
  <2>3. status[s] = "open" /\ loop.corr \in request[s]
    BY <2>2 DEF RequestsInv, MembersWait
  <2>4. taken[s] = NoObject
    BY <2>1, <2>3 DEF CacheInv, TakersRun
  <2>5. CallersSubscribe' /\ CacheComesFirst' /\ HoldersIdle'
    BY <2>1 DEF CallersInv, CallersSubscribe, CacheComesFirst, HoldersIdle, SomeoneHolds, Discovered
  <2>6. RunnersSubscribe'
    <3>1. taken'[s] # NoObject => loop.object \in Suiting
      BY <2>1, <2>2, <2>4 DEF Takes
    <3> QED
      BY <2>1, <2>2, <2>3, <3>1 DEF RunnersSubscribe
  <2>7. NobodyBehind'
    <3> SUFFICES ASSUME Discovered(loop.corr), loop.object \in Suiting
                 PROVE  NobodyBehind'
      BY <2>1, <2>2 DEF NobodyBehind, Discovered
    <3>1. Len(subscribers[loop.corr]) < loop.index
      BY <2>1 DEF CallersInv, NobodyBehind
    <3>2. Len(subscribers[loop.corr]) = loop.index - 1 /\ loop.index - 1 > 0
      <4>1. Len(subscribers[loop.corr]) \in Nat /\ loop.index \in Nat
        BY <2>2, ArrayTypes DEF RequestsInv, CacheInv, CacheTypes
      <4> QED
        BY <2>2, <3>1, <4>1
    <3>3. s \in first
      BY <2>2 DEF CallersInv, CacheComesFirst
    <3>4. taken'[s] = loop.object /\ loop.object # NoObject
      BY <2>1, <2>2, <2>4, <3>3, ContentsAssumption DEF Takes
    <3>5. /\ Len(subscribers'[loop'.corr]) = loop'.index /\ loop'.index > 0
          /\ subscribers'[loop'.corr][loop'.index] = s
      BY <2>1, <2>2, <3>2
    <3> QED
      BY <2>2, <3>4, <3>5 DEF NobodyBehind
  <2> QED
    BY <2>5, <2>6, <2>7 DEF CallersInv
<1> QED
  BY <1>1, <1>2, <1>3

\* Callers resolve objects while no loop is active.
LEMMA ResolveStepCallers ==
    ASSUME ~ResolveInCallbacks, RequestsInv, CacheInv, CallersInv,
           NEW s \in Subscribers, ResolveCached(s) \/ \E again \in BOOLEAN : ResolveObject(s, again)
    PROVE  CallersInv'
<1>1. loop'.corr = 0 /\ loop'.running = {} /\ status[s] = "new" /\ s \in AllSubscribers /\ loop' = loop
  BY CacherTypes DEF ResolveCached, ResolveObject, MayResolve, Idle, vars
<1>2. \A t \in Subscribers : got[t] # NoRequest => got[t] \in Requests
  BY RequestNumbers DEF RequestsInv, CacheInv, CacheTypes, NoRequest
<1>3. CASE ResolveCached(s)
  <2>1. /\ UNCHANGED <<subscribers, request, first, got>> /\ status'[s] = "closed"
        /\ \A t \in AllSubscribers : t # s => status'[t] = status[t]
    BY <1>1, <1>3 DEF ResolveCached, itemVars, cacheVars, RequestsInv, RequestTypes
  <2>2. \A c \in Requests : Discovered(c)' <=> Discovered(c)
    BY <2>1, CacherTypes DEF Discovered
  <2>3. CallersSubscribe'
    BY <1>2, <2>1, <2>2, CacherTypes DEF CallersInv, CallersSubscribe
  <2>4. CacheComesFirst'
    BY <2>1, <2>2 DEF CallersInv, CacheComesFirst
  <2> QED
    BY <1>1, <2>3, <2>4, NoLoop DEF CallersInv
<1>4. ASSUME NEW again \in BOOLEAN, ResolveObject(s, again), pending = NoRequest \/ again
      PROVE  CallersInv'
  <2>1. PICK c \in Requests :
             /\ RequestsInv'
             /\ c = issued + 1 /\ c \notin 1 .. issued
             /\ issued' = c /\ pending' = c /\ issuedIn'[c] = session /\ published'[c] = 1
             /\ status[Cacher(c)] = "new" /\ status'[Cacher(c)] = "open"
             /\ request'[Cacher(c)] = {c}
             /\ subscribers[c] = << >> /\ subscribers'[c] = <<Cacher(c)>>
             /\ \A d \in Requests \ {c} : /\ subscribers'[d] = subscribers[d] /\ published'[d] = published[d]
                                         /\ issuedIn'[d] = issuedIn[d]
             /\ \A t \in AllSubscribers \ {Cacher(c)} : status'[t] = status[t] /\ request'[t] = request[t]
    BY <1>4, ResolveStep
  <2>2. got' = [got EXCEPT ![s] = c] /\ first' = first \cup {Cacher(c)}
    BY <1>4, <2>1 DEF ResolveObject
  <2>3. \A d \in Requests : Discovered(d) => status'[Cacher(d)] # "new"
    BY <2>1, CacherTypes DEF Discovered
  <2>4. CallersSubscribe'
    <3> SUFFICES ASSUME NEW t \in Subscribers, got'[t] # NoRequest
                 PROVE  status'[Cacher(got'[t])] # "new" /\ (status'[t] = "open" => request'[t] = {got'[t]})
      BY DEF CallersSubscribe, Discovered
    <3>1. t \in AllSubscribers \ {Cacher(c)}
      BY CacherTypes
    <3>2. CASE t = s
      <4>1. got'[t] = c /\ status'[t] = "new"
        BY <1>1, <2>1, <2>2, <3>1, <3>2 DEF CacheInv, CacheTypes
      <4> QED
        BY <2>1, <4>1
    <3>3. CASE t # s
      <4>1. got'[t] = got[t] /\ status'[t] = status[t] /\ request'[t] = request[t]
        BY <2>1, <2>2, <3>1, <3>3 DEF CacheInv, CacheTypes
      <4> QED
        BY <1>2, <2>3, <4>1 DEF CallersInv, CallersSubscribe
    <3> QED
      BY <3>2, <3>3
  <2>5. CacheComesFirst'
    <3> SUFFICES ASSUME NEW d \in Requests, status'[Cacher(d)] # "new"
                 PROVE  /\ subscribers'[d] # << >> => subscribers'[d][1] = Cacher(d)
                        /\ \A i \in 1 .. Len(subscribers'[d]) : subscribers'[d][i] \in first'
      BY DEF CacheComesFirst, Discovered
    <3>1. CASE d = c
      <4>1. subscribers'[d] = <<Cacher(d)>> /\ Cacher(d) \in first'
        BY <2>1, <2>2, <3>1
      <4> QED
        BY <4>1
    <3>2. CASE d # c
      <4>1. Cacher(d) \in AllSubscribers \ {Cacher(c)}
        BY <3>2, CacherTypes
      <4>2. Discovered(d) /\ subscribers'[d] = subscribers[d]
        BY <2>1, <3>2, <4>1 DEF Discovered
      <4> QED
        BY <2>2, <4>2 DEF CallersInv, CacheComesFirst
    <3> QED
      BY <3>1, <3>2
  <2> QED
    BY <1>1, <2>4, <2>5, NoLoop DEF CallersInv
<1>5. ASSUME NEW again \in BOOLEAN, ResolveObject(s, again), ~(pending = NoRequest \/ again)
      PROVE  CallersInv'
  <2>1. got' = [got EXCEPT ![s] = pending] /\ UNCHANGED <<subscribers, status, request, first>>
    BY <1>5 DEF ResolveObject, vars, itemVars, subscriberVars
  <2>2. Discovered(pending)
    BY <1>5 DEF CacheInv, PendingWaits
  <2>3. CallersSubscribe'
    <3> SUFFICES ASSUME NEW t \in Subscribers, got'[t] # NoRequest
                 PROVE  status[Cacher(got'[t])] # "new" /\ (status[t] = "open" => request[t] = {got'[t]})
      BY <2>1 DEF CallersSubscribe, Discovered
    <3>1. CASE t = s
      BY <1>1, <2>1, <2>2, <3>1 DEF CacheInv, CacheTypes, Discovered
    <3>2. CASE t # s
      BY <2>1, <3>2 DEF CallersInv, CallersSubscribe, Discovered, CacheInv, CacheTypes
    <3> QED
      BY <3>1, <3>2
  <2>4. CacheComesFirst'
    BY <2>1 DEF CallersInv, CacheComesFirst, Discovered
  <2> QED
    BY <1>1, <2>3, <2>4, NoLoop DEF CallersInv
<1> QED
  BY <1>3, <1>4, <1>5

LEMMA StopCallers ==
    ASSUME RequestsInv, CacheInv, CallersInv, ManagerStops
    PROVE  CallersInv'
<1>1. /\ UNCHANGED <<got, request, first, taken, loop>>
      /\ \A c \in Requests : subscribers'[c] = IF c \in observedResponses THEN << >> ELSE subscribers[c]
      /\ \A s \in AllSubscribers : status'[s] # status[s] => status[s] = "open" /\ status'[s] = "closed"
      /\ \A s \in AllSubscribers : status'[s] = "open" => request[s] \cap observedResponses = {}
  BY StopStep DEF ManagerStops, Stop
<1>2. /\ \A c \in Requests : Discovered(c)' <=> Discovered(c)
      /\ \A t \in Subscribers : t \in AllSubscribers /\ (got[t] # NoRequest => got[t] \in Requests)
  BY <1>1, CacherTypes, RequestNumbers DEF Discovered, RequestsInv, CacheInv, CacheTypes, NoRequest
<1>3. \A s \in AllSubscribers : /\ status'[s] = "open" => status[s] = "open"
                               /\ status'[s] = "new" <=> status[s] = "new"
  BY <1>1
<1>4. CallersSubscribe'
  BY <1>1, <1>2, <1>3 DEF CallersInv, CallersSubscribe
<1>5. CacheComesFirst'
  <2> SUFFICES ASSUME NEW c \in Requests, Discovered(c)
               PROVE  /\ subscribers'[c] # << >> => subscribers'[c][1] = Cacher(c)
                      /\ \A i \in 1 .. Len(subscribers'[c]) : subscribers'[c][i] \in first
    BY <1>1, <1>2 DEF CacheComesFirst
  <2>1. CASE c \in observedResponses
    <3>1. subscribers'[c] = << >>
      BY <1>1, <2>1
    <3> QED
      BY <3>1, EmptySeq
  <2>2. CASE c \notin observedResponses
    BY <1>1, <2>2 DEF CallersInv, CacheComesFirst
  <2> QED
    BY <2>1, <2>2
<1>6. HoldersIdle'
  <2>1. SomeoneHolds' => SomeoneHolds
    BY <1>1, <1>2, <1>3 DEF SomeoneHolds
  <2> QED
    BY <1>1, <2>1 DEF CallersInv, HoldersIdle
<1>7. \A s \in loop.running : s \in AllSubscribers
  BY DEF CacheInv, CacheTypes
<1>8. RunnersSubscribe'
  BY <1>1, <1>3, <1>7 DEF CallersInv, RunnersSubscribe
<1>9. NobodyBehind'
  <2> SUFFICES ASSUME loop.corr # 0, Discovered(loop.corr)', loop.object \in Suiting
               PROVE  NobodyBehind'
    BY <1>1 DEF NobodyBehind
  <2>1. loop.corr \in Requests
    BY BoundsAssumption DEF CacheInv, CacheTypes, Requests
  <2>2. Discovered(loop.corr) /\ NobodyBehind
    BY <1>1, <1>2, <2>1 DEF CallersInv
  <2>3. CASE loop.corr \in observedResponses
    <3>1. \A s \in loop.running : status'[s] # "open"
      BY <1>1, <1>7, <2>3 DEF CallersInv, RunnersSubscribe
    <3>2. subscribers'[loop.corr] = << >>
      BY <1>1, <2>1, <2>3
    <3>3. Len(subscribers'[loop.corr]) < loop.index
      <4>1. Len(subscribers'[loop.corr]) = 0
        BY <3>2, EmptySeq
      <4>2. Len(subscribers[loop.corr]) \in Nat /\ loop.index \in Nat
        BY <2>1, ArrayTypes DEF RequestsInv, CacheInv, CacheTypes
      <4>3. loop.index > 0
        BY <2>2, <4>2 DEF NobodyBehind
      <4> QED
        BY <4>1, <4>3
    <3> QED
      BY <1>1, <3>1, <3>3 DEF NobodyBehind
  <2>4. CASE loop.corr \notin observedResponses
    <3>1. subscribers'[loop.corr] = subscribers[loop.corr]
      BY <1>1, <2>1, <2>4
    <3> QED
      BY <1>1, <1>3, <1>7, <2>2, <3>1 DEF NobodyBehind
  <2> QED
    BY <2>3, <2>4
<1> QED
  BY <1>4, <1>5, <1>6, <1>8, <1>9 DEF CallersInv

LEMMA CallersStep ==
    ASSUME ~ResolveInCallbacks, ~HoldObservables, RequestsInv, CacheInv, CallersInv, [Next]_allVars
    PROVE  CallersInv'
<1>1. ASSUME NEW n \in 1 .. 2, PublishRequest(n), UNCHANGED cacheVars
      PROVE  CallersInv'
  BY <1>1, CallersUnchanged DEF PublishRequest, subscriberVars, cacheVars
<1>2. ASSUME NEW s \in Subscribers, NEW n \in 1 .. 2, NEW c \in 1 .. issued,
             got[s] = NoRequest, c + n - 1 <= issued,
             \A d \in c .. (c + n - 1) : issuedIn[d] = issuedIn[c] /\ status[Cacher(d)] = "new",
             Subscribe(c .. (c + n - 1), s, FALSE), UNCHANGED cacheVars
      PROVE  CallersInv'
  <2>1. c .. (c + n - 1) \in SUBSET (1 .. issued)
    BY <1>2, RequestNumbers DEF RequestsInv
  <2>2. \A d, e \in c .. (c + n - 1) : issuedIn[d] = issuedIn[e]
    BY <1>2
  <2>3. \A d \in c .. (c + n - 1) : ~Discovered(d)
    BY <1>2 DEF Discovered
  <2> QED
    BY <1>2, <2>1, <2>2, <2>3, OthersSubscribeStep
<1>3. ASSUME NEW c \in 1 .. issued, NEW o \in Objects, NEW fits \in BOOLEAN,
             Respond(c, o, fits), UNCHANGED cacheVars
      PROVE  CallersInv'
  BY <1>3, CallersUnchanged DEF Respond, itemVars, subscriberVars, cacheVars
<1>4. ASSUME NEW o \in Objects, Advertised(o)
      PROVE  CallersInv'
  BY <1>4, CallersUnchanged DEF Advertised, vars, itemVars, subscriberVars
<1>5. ASSUME ManagerStarts
      PROVE  CallersInv'
  BY <1>5, CallersUnchanged DEF ManagerStarts, vars, itemVars, subscriberVars
<1>6. CASE UNCHANGED allVars
  BY <1>6, CallersUnchanged DEF allVars, vars, itemVars, subscriberVars, cacheVars
<1>7. ASSUME NobodyHolds
      PROVE  ~SomeoneHolds
  BY <1>7 DEF NobodyHolds
<1>8. ASSUME NEW s \in Subscribers, NEW again \in BOOLEAN, ResolveObject(s, again)
      PROVE  CallersInv'
  BY <1>8, ResolveStepCallers
<1>9. ASSUME NEW s \in Subscribers, ResolveCached(s)
      PROVE  CallersInv'
  BY <1>9, ResolveStepCallers
<1> QED
  BY <1>1, <1>2, <1>3, <1>4, <1>5, <1>6, <1>7, <1>8, <1>9, CallerSubscribesStep, CallerUnsubscribesStep,
     CallbackReturnsStep, LoopSteps, StopCallers DEF Next

\* A caller that has subscribed what it got from the cache waits only as long
\* as the cache does, for callers that subscribe at once and do not resolve
\* objects in callbacks: as the loop runs from the latest subscriber to the
\* first, the cache is the last to take an object, and what has been resolved
\* is not withheld (communication-manager.ts:1483-1488,
\* object-cache-controller.ts:57-78).
THEOREM CallersAreServed ==
    ASSUME ~ResolveInCallbacks, ~HoldObservables
    PROVE  Spec => []CallersServed
<1>1. CacheInit => CallersInv
  <2> SUFFICES ASSUME CacheInit PROVE CallersInv
    OBVIOUS
  <2>1. loop.corr = 0 /\ loop.running = {}
    BY DEF CacheInit, Init, Idle
  <2>2. CallersSubscribe
    BY DEF CacheInit, CallersSubscribe
  <2>3. CacheComesFirst
    BY CacherTypes DEF CacheInit, Init, CacheComesFirst, Discovered
  <2>4. HoldersIdle /\ RunnersSubscribe /\ NobodyBehind
    BY <2>1 DEF HoldersIdle, RunnersSubscribe, NobodyBehind
  <2> QED
    BY <2>2, <2>3, <2>4 DEF CallersInv
<1>2. (RequestsInv /\ CacheInv) /\ CallersInv /\ [Next]_allVars => CallersInv'
  BY CallersStep
<1>3. RequestsInv /\ CacheInv /\ CallersInv => CallersServed
  <2> SUFFICES ASSUME RequestsInv, CacheInv, CallersInv, NEW s \in Subscribers, got[s] # NoRequest, status[s] = "open"
               PROVE  Cacher(got[s]) \in Observers(got[s])
    BY DEF CallersServed
  <2>1. got[s] \in Requests /\ got[s] \in request[s] /\ Discovered(got[s]) /\ s \in AllSubscribers
    BY CacherTypes, RequestNumbers DEF RequestsInv, CacheInv, CacheTypes, CallersInv, CallersSubscribe, NoRequest
  <2>2. PICK i \in 1 .. Len(subscribers[got[s]]) : subscribers[got[s]][i] = s
    BY <2>1 DEF RequestsInv, WaitersAreMembers
  <2>3. subscribers[got[s]] # << >> /\ 1 \in DOMAIN subscribers[got[s]]
    BY <2>1, <2>2, ArrayTypes DEF RequestsInv
  <2>4. subscribers[got[s]][1] = Cacher(got[s])
    BY <2>1, <2>3 DEF CallersInv, CacheComesFirst
  <2> QED
    BY <2>3, <2>4 DEF Observers, ToSet
<1> QED
  BY <1>1, <1>2, <1>3, CacheInvariant, PTL DEF Spec

=============================================================================

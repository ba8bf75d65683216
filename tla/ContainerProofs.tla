--------------------------- MODULE ContainerProofs ---------------------------
(***************************************************************************)
(* Proofs about the communication manager of an agent and its container,   *)
(* for any number of bindings, connections, controllers and names.         *)
(***************************************************************************)
EXTENDS Container, SequenceTheorems, TLAPS

------------------------------------------------------------------------------
(* The inductive invariant of the manager                                  *)

Untouched == [state |-> "Initialized", link |-> "none", promise |-> "none"]

\* A binding has a client as long as it is joined or is being unjoined.
BindingPhases ==
    \A g \in Bindings :
        /\ binding[g].state = "Initialized" => binding[g] = Untouched
        /\ binding[g].state = "Joined" => binding[g].promise = "none"
        /\ Live(g) <=> binding[g].state = "Joined" \/ binding[g].promise = "pending"

\* Bindings are used one after the other.
BindingsInTurn ==
    \A g \in Bindings :
        /\ g < current => binding[g].state = "Unjoined"
        /\ g > current => binding[g] = Untouched

\* The binding in place is not unjoined before the manager is disposed.
CurrentInPlace ==
    IF disposed THEN binding[current].state = "Unjoined" /\ operatingState = "Stopped"
                ELSE binding[current].state # "Unjoined"

\* Callers that wait for promises have one call under way at most; while it
\* is, nothing has been joined since.
OneCall ==
    /\ \A c, d \in calls : c = d
    /\ \A c \in calls : c.on < current /\ (~disposed => binding[current] = Untouched)

\* Each binding that goes on unjoining does it for a call, or is the last.
UnjoinAwaited ==
    \A g \in Bindings :
        binding[g].promise = "pending" => (\E c \in calls : c.on = g) \/ (disposed /\ g = current)

\* Only one binding goes on unjoining.
LastUnjoin ==
    disposed /\ binding[current].promise = "pending" => calls = {}

ManagerInv ==
    /\ TypeOK
    /\ BindingPhases /\ BindingsInTurn /\ CurrentInPlace
    /\ OneCall /\ UnjoinAwaited /\ LastUnjoin
    /\ OperatingStateCurrent /\ ObserversOnce /\ CommunicationStateCurrent

------------------------------------------------------------------------------
(* The inductive invariant of the container                                *)

\* A name and a controller is in one entry.
EntriesDistinct ==
    /\ \A i, j \in 1 .. Len(entries) : i # j => entries[i].name # entries[j].name
    /\ \A i, j \in 1 .. Len(entries) : i # j => entries[i].ctrl # entries[j].ctrl
    /\ \A i \in 1 .. Len(entries) : entries[i].ctrl <= created

\* A controller that has been created is in an entry until it is disposed,
\* unless its name has been registered again.
NoneForgotten ==
    \A c \in 1 .. created :
        \/ c \in replaced
        \/ \E i \in 1 .. Len(entries) : entries[i].ctrl = c
        \/ shutdown /\ dispatch = NoDispatch /\ told[c] = "dispose"

NestedCreated == \A c \in nested : c <= created

\* Which callbacks are made when.
DispatchFits ==
    /\ dispatch.what = "nothing" => dispatch = NoDispatch /\ (shutdown => entries = << >>)
                                    /\ (~shutdown => listening)
    /\ dispatch.what # "nothing" => dispatch.at >= 1
    /\ dispatch.what = "init" => ~listening /\ ~shutdown
    /\ dispatch.what \in {"Started", "Stopped"} => operatingState = dispatch.what /\ (shutdown \/ listening)
    /\ dispatch.what = "Started" => ~shutdown
    /\ dispatch.what = "dispose" => shutdown
    /\ shutdown <=> disposed
    /\ shutdown => operatingState = "Stopped"

\* What the controllers in entries have been told that are called, and what
\* those that are not called yet, or are not called at all, have been told.
ToldFits(ctrl, first) ==
    /\ dispatch.what = "nothing" =>
          /\ operatingState = "Started" => told[ctrl] = "Started"
          /\ operatingState = "Stopped" => told[ctrl] \in {"init", "Stopped"}
    /\ dispatch.what = "init" =>
          /\ operatingState = "Stopped" /\ first => told[ctrl] = "init"
          /\ ctrl \notin nested => told[ctrl] = IF first THEN "init" ELSE "nothing"
    /\ dispatch.what = "Started" =>
          /\ first => told[ctrl] = "Started"
          /\ ctrl \notin nested /\ ~first => told[ctrl] \in {"init", "Stopped"}
    /\ dispatch.what = "Stopped" =>
          /\ first => told[ctrl] \in {"init", "Stopped"}
          /\ ctrl \notin nested => told[ctrl] = IF first THEN "Stopped" ELSE "Started"
    /\ dispatch.what = "dispose" =>
          /\ first => told[ctrl] = "dispose"
          /\ ctrl \notin nested /\ ~first => told[ctrl] \in {"init", "Stopped"}

ToldSoFar ==
    \A i \in 1 .. Len(entries) : ToldFits(entries[i].ctrl, i < dispatch.at)

ContainerInv ==
    /\ ContainerTypeOK /\ operatingState \in {"Started", "Stopped"}
    /\ EntriesDistinct /\ NoneForgotten /\ NestedCreated
    /\ DispatchFits /\ ToldSoFar /\ CallbacksAlternate

------------------------------------------------------------------------------
(* The manager: types                                                      *)

\* What join() and unjoin() make of a binding is a binding.
LEMMA BindingTypes ==
    ASSUME NEW b \in BindingStates
    PROVE  Joined(b) \in BindingStates /\ Unjoined(b) \in BindingStates
  BY DEF BindingStates, Joined, Unjoined

LEMMA ManagerInitTypes == Init => TypeOK
<1> SUFFICES ASSUME Init PROVE TypeOK
  OBVIOUS
<1>1. binding \in [Bindings -> BindingStates]
  BY DEF Init, BindingStates
<1>2. /\ operatingState \in {"Started", "Stopped"} /\ communicationState \in {"Online", "Offline"}
      /\ calls \subseteq [op : {"start", "stop"}, on : Bindings] /\ disposed \in BOOLEAN
  BY DEF Init
<1>3. current \in Bindings /\ observers \in Nat /\ downs \in 0 .. MaxDowns /\ errors \subseteq Bindings
  BY ParametersAssumption DEF Init, Bindings
<1> QED
  BY <1>1, <1>2, <1>3 DEF TypeOK

\* The type invariant holds whether or not callers wait for promises.
LEMMA ManagerTypes ==
    ASSUME TypeOK, [Next]_vars
    PROVE  TypeOK'
<1>0. /\ binding \in [Bindings -> BindingStates] /\ current \in Bindings /\ observers \in Nat
      /\ operatingState \in {"Started", "Stopped"} /\ communicationState \in {"Online", "Offline"}
      /\ calls \subseteq [op : {"start", "stop"}, on : Bindings] /\ disposed \in BOOLEAN
      /\ downs \in 0 .. MaxDowns /\ errors \subseteq Bindings
  BY DEF TypeOK
<1>1. ASSUME JoinBinding, calls' \subseteq calls
      PROVE  TypeOK'
  <2>1. binding' \in [Bindings -> BindingStates]
    BY <1>0, <1>1, BindingTypes DEF JoinBinding
  <2>2. observers' \in Nat
    BY <1>0, <1>1 DEF JoinBinding
  <2> QED
    BY <1>0, <1>1, <2>1, <2>2 DEF JoinBinding, TypeOK
<1>2. ASSUME UnjoinBinding, disposed' \in BOOLEAN, ~disposed' => current < MaxBindings,
             calls' \subseteq [op : {"start", "stop"}, on : Bindings]
      PROVE  TypeOK'
  <2>1. binding' \in [Bindings -> BindingStates]
    BY <1>0, <1>2, BindingTypes DEF UnjoinBinding
  <2>2. current' \in Bindings
    <3>1. CASE disposed'
      BY <1>0, <1>2, <3>1 DEF UnjoinBinding
    <3>2. CASE ~disposed'
      BY <1>0, <1>2, <3>2, ParametersAssumption DEF UnjoinBinding, Bindings
    <3> QED
      BY <3>1, <3>2
  <2>3. communicationState' \in {"Online", "Offline"} /\ operatingState' = "Stopped" /\ observers' = 0
    BY <1>0, <1>2 DEF UnjoinBinding, UnobserveObservedItems
  <2> QED
    BY <1>0, <1>2, <2>1, <2>2, <2>3 DEF UnjoinBinding, TypeOK
<1>3. CASE Start
  BY <1>1, <1>3 DEF Start
<1>4. ASSUME NEW op \in {"start", "stop"}, Unjoining(op)
      PROVE  TypeOK'
  BY <1>0, <1>2, <1>4 DEF Unjoining, MayCall
<1>5. CASE StopResolved
  BY <1>0, <1>5 DEF StopResolved, TypeOK
<1>6. CASE StartResolved
  <2>1. PICK c \in calls :
           /\ calls' = calls \ {c}
           /\ \/ JoinBinding
              \/ UNCHANGED <<binding, current, operatingState, communicationState,
                             observers, disposed, downs, errors>>
    BY <1>6 DEF StartResolved
  <2> QED
    BY <1>0, <1>1, <2>1 DEF TypeOK
<1>7. CASE Dispose
  BY <1>0, <1>2, <1>7 DEF Dispose
<1>8. ASSUME NEW g \in Bindings, GoUp(g) \/ GoDown(g) \/ ClientError(g) \/ UnjoinCompletes(g)
      PROVE  TypeOK'
  <2>1. binding' \in [Bindings -> BindingStates]
    BY <1>0, <1>8 DEF GoUp, GoDown, ClientError, UnjoinCompletes, BindingStates
  <2>2. downs' \in 0 .. MaxDowns /\ errors' \subseteq Bindings
    BY <1>0, <1>8, ParametersAssumption DEF GoUp, GoDown, ClientError, UnjoinCompletes
  <2>3. communicationState' \in {"Online", "Offline"}
    BY <1>8 DEF GoUp, GoDown, ClientError, UnjoinCompletes
  <2>4. UNCHANGED <<current, operatingState, observers, calls, disposed>>
    BY <1>8 DEF GoUp, GoDown, ClientError, UnjoinCompletes
  <2> QED
    BY <1>0, <2>1, <2>2, <2>3, <2>4 DEF TypeOK
<1>9. CASE UNCHANGED vars
  BY <1>9 DEF vars, TypeOK
<1> QED
  BY <1>3, <1>4, <1>5, <1>6, <1>7, <1>8, <1>9 DEF Next, StartWithOptions, Stop

------------------------------------------------------------------------------
(* The manager: its invariant                                              *)

\* Two bindings would be live only if one that is to be unjoined were left
\* when the next one is joined.
LEMMA OnlyOneLive == ManagerInv => OneBindingLive
<1> SUFFICES ASSUME ManagerInv, NEW g \in Bindings, NEW h \in Bindings, Live(g), Live(h)
             PROVE  g = h
  BY DEF OneBindingLive
<1>0. current \in Nat /\ \A k \in Bindings : k \in Nat
  BY DEF ManagerInv, TypeOK, Bindings
<1>1. ASSUME NEW k \in Bindings, binding[k].state = "Joined"
      PROVE  k = current /\ ~disposed
  BY <1>0, <1>1 DEF ManagerInv, BindingsInTurn, CurrentInPlace, Untouched
<1>2. ASSUME NEW k \in Bindings, binding[k].promise = "pending"
      PROVE  \/ \E c \in calls : c.on = k
             \/ disposed /\ k = current /\ calls = {}
  BY <1>2 DEF ManagerInv, UnjoinAwaited, LastUnjoin
<1>3. \A k \in Bindings : Live(k) => binding[k].state = "Joined" \/ binding[k].promise = "pending"
  BY DEF ManagerInv, BindingPhases
<1>4. calls # {} /\ ~disposed => binding[current].state # "Joined"
  BY DEF ManagerInv, OneCall, Untouched
<1> QED
  BY <1>1, <1>2, <1>3, <1>4 DEF ManagerInv, OneCall

LEMMA ManagerInitInvariant == Init => ManagerInv
<1> SUFFICES ASSUME Init PROVE ManagerInv
  OBVIOUS
<1>1. \A g \in Bindings : binding[g] = Untouched
  BY DEF Init, Untouched
<1>2. TypeOK
  BY ManagerInitTypes
<1>3. current = 1 /\ calls = {} /\ ~disposed /\ operatingState = "Stopped"
      /\ communicationState = "Offline" /\ observers = 0
  BY DEF Init
<1>4. \A g \in Bindings : ~(g < current)
  BY <1>3 DEF Bindings
<1>5. current \in Bindings
  BY <1>2 DEF TypeOK
<1> QED
  BY <1>1, <1>2, <1>3, <1>4, <1>5
     DEF ManagerInv, BindingPhases, BindingsInTurn, CurrentInPlace, OneCall, UnjoinAwaited,
         LastUnjoin, OperatingStateCurrent, ObserversOnce, CommunicationStateCurrent, Live, Untouched

\* Joining the binding in place, when nothing is being unjoined.
LEMMA JoinInvariant ==
    ASSUME ManagerInv, JoinBinding, TypeOK', ~disposed, binding[current] = Untouched, calls' = {},
           \A g \in Bindings : binding[g].promise # "pending"
    PROVE  ManagerInv'
<1>1. /\ current \in Bindings /\ current' = current /\ disposed' = disposed
      /\ communicationState' = communicationState /\ operatingState' = "Started"
      /\ errors' = errors
  BY DEF JoinBinding, ManagerInv, TypeOK
<1>2. /\ \A g \in Bindings : g # current => binding'[g] = binding[g]
      /\ binding'[current] = [state |-> "Joined", link |-> "down", promise |-> "none"]
  <2>1. binding \in [Bindings -> BindingStates]
    BY DEF ManagerInv, TypeOK
  <2>2. /\ \A g \in Bindings : g # current => binding'[g] = binding[g]
        /\ binding'[current] = Joined(Untouched)
    BY <1>1, <2>1 DEF JoinBinding
  <2>3. Joined(Untouched) = [state |-> "Joined", link |-> "down", promise |-> "none"]
    BY DEF Joined, Untouched
  <2> QED
    BY <2>2, <2>3
<1>3. BindingPhases'
  BY <1>1, <1>2 DEF ManagerInv, BindingPhases, Live
<1>4. BindingsInTurn'
  <2>1. ~(current < current) /\ ~(current > current)
    BY DEF ManagerInv, TypeOK, Bindings
  <2> QED
    BY <1>1, <1>2, <2>1 DEF ManagerInv, BindingsInTurn
<1>5. (CurrentInPlace /\ OneCall /\ LastUnjoin /\ OperatingStateCurrent)'
  BY <1>1, <1>2 DEF CurrentInPlace, OneCall, LastUnjoin, OperatingStateCurrent
<1>6. UnjoinAwaited'
  BY <1>2 DEF UnjoinAwaited
<1>7. ObserversOnce'
  <2>1. operatingState = "Stopped"
    BY DEF ManagerInv, OperatingStateCurrent, Untouched, TypeOK
  <2>2. observers = 0
    BY <2>1 DEF ManagerInv, ObserversOnce
  <2> QED
    BY <1>1, <2>2 DEF JoinBinding, ObserversOnce
<1>8. CommunicationStateCurrent'
  <2>1. binding[current].link # "up" /\ binding'[current].link # "up"
    BY <1>2 DEF Untouched
  <2> QED
    BY <1>1, <1>2, <2>1 DEF ManagerInv, CommunicationStateCurrent
<1> QED
  BY <1>3, <1>4, <1>5, <1>6, <1>7, <1>8 DEF ManagerInv

\* Unjoining the binding in place, for a call or since the manager is disposed.
LEMMA UnjoinInvariant ==
    ASSUME ManagerInv, UnjoinBinding, TypeOK', ~disposed,
           \/ disposed' /\ calls' = calls
           \/ /\ ~disposed' /\ calls = {} /\ current < MaxBindings
              /\ \E op \in {"start", "stop"} : calls' = {[op |-> op, on |-> current]}
    PROVE  ManagerInv'
<1>1. /\ current \in Bindings /\ current' \in Bindings /\ operatingState' = "Stopped" /\ observers' = 0
      /\ current' = IF disposed' THEN current ELSE current + 1
      /\ \A g \in Bindings : g \in Nat
  BY DEF UnjoinBinding, UnobserveObservedItems, ManagerInv, TypeOK, Bindings
<1>2. /\ \A g \in Bindings : g # current => binding'[g] = binding[g]
      /\ binding'[current] = Unjoined(binding[current])
      /\ binding[current].state \in {"Initialized", "Joined"}
      /\ binding[current] \in BindingStates
  BY <1>1 DEF UnjoinBinding, ManagerInv, TypeOK, CurrentInPlace, BindingStates
<1>3. /\ binding'[current].state = "Unjoined"
      /\ binding'[current].link = binding[current].link
      /\ binding'[current].promise \in {"pending", "resolved"}
      /\ binding'[current].promise = "pending" <=> binding[current].state = "Joined"
  BY <1>2 DEF Unjoined, BindingStates
<1>4. BindingPhases'
  <2>1. ASSUME NEW g \in Bindings, g # current
        PROVE  (/\ binding[g].state = "Initialized" => binding[g] = Untouched
                /\ binding[g].state = "Joined" => binding[g].promise = "none"
                /\ Live(g) <=> binding[g].state = "Joined" \/ binding[g].promise = "pending")'
    BY <1>2, <2>1 DEF ManagerInv, BindingPhases, Live
  <2>2. binding'[current].link # "none" <=> binding'[current].promise = "pending"
    BY <1>1, <1>2, <1>3 DEF ManagerInv, BindingPhases, Live, Untouched
  <2> QED
    BY <1>3, <2>1, <2>2 DEF BindingPhases, Live
<1>5. BindingsInTurn'
  <2>1. ASSUME NEW g \in Bindings, g < current' PROVE binding'[g].state = "Unjoined"
    <3>1. g = current \/ g < current
      BY <1>1, <2>1
    <3> QED
      BY <1>1, <1>2, <1>3, <3>1 DEF ManagerInv, BindingsInTurn
  <2>2. ASSUME NEW g \in Bindings, g > current' PROVE binding'[g] = Untouched
    <3>1. g > current /\ g # current
      BY <1>1, <2>2
    <3> QED
      BY <1>2, <3>1 DEF ManagerInv, BindingsInTurn
  <2> QED
    BY <2>1, <2>2 DEF BindingsInTurn
<1>6. ~disposed' => binding'[current'] = Untouched
  <2>1. ASSUME ~disposed' PROVE current' > current /\ current' # current
    BY <1>1, <2>1
  <2> QED
    BY <1>1, <1>2, <2>1 DEF ManagerInv, BindingsInTurn
<1>7. (CurrentInPlace /\ OperatingStateCurrent /\ ObserversOnce)'
  <2>1. disposed' => current' = current
    BY <1>1
  <2> QED
    BY <1>1, <1>3, <1>6, <2>1 DEF CurrentInPlace, OperatingStateCurrent, ObserversOnce, Untouched
<1>8. OneCall'
  <2>1. CASE disposed' /\ calls' = calls
    BY <1>1, <2>1 DEF ManagerInv, OneCall
  <2>2. CASE ~disposed' /\ \E op \in {"start", "stop"} : calls' = {[op |-> op, on |-> current]}
    <3>1. current < current'
      BY <1>1, <2>2
    <3> QED
      BY <1>6, <2>2, <3>1 DEF OneCall
  <2> QED
    BY <2>1, <2>2
<1>9. UnjoinAwaited'
  <2>1. ASSUME NEW g \in Bindings, binding'[g].promise = "pending", g # current
        PROVE  \E c \in calls' : c.on = g
    BY <1>2, <2>1 DEF ManagerInv, UnjoinAwaited
  <2>2. \/ disposed' /\ current' = current
        \/ \E c \in calls' : c.on = current
    <3>1. CASE disposed'
      BY <1>1, <3>1
    <3>2. CASE ~disposed'
      <4>1. PICK op \in {"start", "stop"} : calls' = {[op |-> op, on |-> current]}
        BY <3>2
      <4> QED
        BY <4>1
    <3> QED
      BY <3>1, <3>2
  <2> QED
    BY <2>1, <2>2 DEF UnjoinAwaited
<1>10. LastUnjoin'
  <2>1. ASSUME disposed', calls' = calls, calls # {}
        PROVE  binding'[current'].promise # "pending"
    BY <1>1, <1>3, <2>1 DEF ManagerInv, OneCall, Untouched
  <2> QED
    BY <2>1 DEF LastUnjoin
<1>11. CommunicationStateCurrent'
  <2>1. SUFFICES ASSUME ~disposed' PROVE CommunicationStateCurrent'
    BY DEF CommunicationStateCurrent
  <2>2. \A g \in Bindings : binding'[g].link = binding[g].link
    BY <1>2, <1>3
  <2>3. /\ communicationState = "Online" <=> \E g \in Bindings \ errors : binding[g].link = "up"
        /\ errors' = errors
    BY <2>1 DEF ManagerInv, CommunicationStateCurrent, UnjoinBinding
  <2>4. CASE binding[current].state = "Joined"
    BY <2>2, <2>3, <2>4 DEF UnjoinBinding, CommunicationStateCurrent
  <2>5. CASE binding[current].state = "Initialized"
    <3>1. \A g \in Bindings : binding[g].link = "none"
      <4>1. ASSUME NEW g \in Bindings PROVE binding[g].state # "Joined"
        <5>1. g < current \/ g > current \/ g = current
          BY <1>1
        <5> QED
          BY <2>5, <5>1 DEF ManagerInv, BindingsInTurn, Untouched
      <4>2. \A g \in Bindings : binding[g].promise # "pending"
        BY <2>1 DEF ManagerInv, UnjoinAwaited
      <4> QED
        BY <4>1, <4>2 DEF ManagerInv, BindingPhases, Live
    <3> QED
      BY <2>2, <2>5, <3>1 DEF UnjoinBinding, CommunicationStateCurrent
  <2> QED
    BY <1>2, <2>4, <2>5
<1> QED
  BY <1>4, <1>5, <1>7, <1>8, <1>9, <1>10, <1>11 DEF ManagerInv

\* Sessions come and go, and former bindings get done with unjoining.
LEMMA LinkInvariant ==
    ASSUME ManagerInv, TypeOK', NEW g \in Bindings, GoUp(g) \/ GoDown(g) \/ ClientError(g) \/ UnjoinCompletes(g)
    PROVE  ManagerInv'
<1>1. /\ UNCHANGED <<current, operatingState, observers, calls, disposed>>
      /\ \A h \in Bindings : h # g => binding'[h] = binding[h]
      /\ binding'[g].state = binding[g].state
  BY DEF GoUp, GoDown, ClientError, UnjoinCompletes, ManagerInv, TypeOK, BindingStates
<1>2. \/ /\ binding[g].link \in {"down", "up"} /\ binding'[g].link \in {"down", "up"}
         /\ binding'[g].promise = binding[g].promise
         /\ communicationState' = IF binding'[g].link = "up" /\ g \notin errors'
                                  THEN "Online" ELSE "Offline"
      \/ /\ binding[g].promise = "pending"
         /\ binding'[g].promise = "resolved" /\ binding'[g].link = "none"
         /\ communicationState' = "Offline"
  BY DEF GoUp, GoDown, ClientError, UnjoinCompletes, ManagerInv, TypeOK, BindingStates
<1>3. Live(g) /\ binding[g] # Untouched /\ binding[g].state # "Initialized"
  BY <1>2 DEF ManagerInv, BindingPhases, Live, Untouched
<1>4. BindingPhases'
  <2>1. ASSUME NEW h \in Bindings, h # g
        PROVE  (/\ binding[h].state = "Initialized" => binding[h] = Untouched
                /\ binding[h].state = "Joined" => binding[h].promise = "none"
                /\ Live(h) <=> binding[h].state = "Joined" \/ binding[h].promise = "pending")'
    BY <1>1, <2>1 DEF ManagerInv, BindingPhases, Live
  <2>2. (/\ binding[g].state = "Joined" => binding[g].promise = "none"
         /\ Live(g) <=> binding[g].state = "Joined" \/ binding[g].promise = "pending")'
    BY <1>1, <1>2, <1>3 DEF ManagerInv, BindingPhases, Live
  <2> QED
    BY <1>1, <1>3, <2>1, <2>2 DEF BindingPhases
<1>5. BindingsInTurn'
  BY <1>1, <1>3 DEF ManagerInv, BindingsInTurn
<1>6. current \in Bindings /\ binding'[current].state = binding[current].state
      /\ (binding[current] = Untouched => binding'[current] = Untouched)
  BY <1>1, <1>3 DEF ManagerInv, TypeOK
<1>7. (CurrentInPlace /\ OneCall /\ OperatingStateCurrent /\ ObserversOnce)'
  BY <1>1, <1>6 DEF ManagerInv, CurrentInPlace, OneCall, OperatingStateCurrent, ObserversOnce
<1>8. \A h \in Bindings : binding'[h].promise = "pending" => binding[h].promise = "pending"
  BY <1>1, <1>2
<1>9. (UnjoinAwaited /\ LastUnjoin)'
  BY <1>1, <1>6, <1>8 DEF ManagerInv, UnjoinAwaited, LastUnjoin
<1>10. CommunicationStateCurrent'
  <2>1. \A h \in Bindings : h # g => binding[h].link = "none"
    BY <1>3, OnlyOneLive DEF OneBindingLive, Live
  <2> QED
    BY <1>1, <1>2, <2>1 DEF CommunicationStateCurrent
<1> QED
  BY <1>4, <1>5, <1>7, <1>9, <1>10 DEF ManagerInv

\* A call that is resolved is the only one, and nothing is unjoining any more
\* unless the manager is disposed.
LEMMA ResolvedIsLast ==
    ASSUME ManagerInv, NEW c \in calls, binding[c.on].promise = "resolved"
    PROVE  /\ calls \ {c} = {}
           /\ \A g \in Bindings : binding[g].promise = "pending" => disposed /\ g = current
  BY DEF ManagerInv, OneCall, UnjoinAwaited

LEMMA StopResolvedInvariant ==
    ASSUME ManagerInv, StopResolved, TypeOK'
    PROVE  ManagerInv'
<1>1. PICK c \in calls :
         /\ binding[c.on].promise = "resolved"
         /\ calls' = calls \ {c}
         /\ UNCHANGED <<binding, current, operatingState, communicationState, observers,
                        disposed, downs, errors>>
  BY DEF StopResolved
<1>2. calls' = {} /\ \A g \in Bindings : binding[g].promise = "pending" => disposed /\ g = current
  BY <1>1, ResolvedIsLast
<1>3. (BindingPhases /\ BindingsInTurn /\ CurrentInPlace)'
  BY <1>1 DEF ManagerInv, BindingPhases, BindingsInTurn, CurrentInPlace, Live
<1>4. (OneCall /\ UnjoinAwaited /\ LastUnjoin)'
  BY <1>1, <1>2 DEF OneCall, UnjoinAwaited, LastUnjoin
<1>5. (OperatingStateCurrent /\ ObserversOnce /\ CommunicationStateCurrent)'
  BY <1>1 DEF ManagerInv, OperatingStateCurrent, ObserversOnce, CommunicationStateCurrent
<1> QED
  BY <1>3, <1>4, <1>5 DEF ManagerInv

LEMMA StartResolvedInvariant ==
    ASSUME ManagerInv, StartResolved, TypeOK'
    PROVE  ManagerInv'
<1>1. PICK c \in calls :
         /\ binding[c.on].promise = "resolved"
         /\ calls' = calls \ {c}
         /\ \/ ~disposed /\ JoinBinding
            \/ /\ disposed
               /\ UNCHANGED <<binding, current, operatingState, communicationState, observers,
                              disposed, downs, errors>>
  BY DEF StartResolved
<1>2. calls' = {} /\ \A g \in Bindings : binding[g].promise = "pending" => disposed /\ g = current
  BY <1>1, ResolvedIsLast
<1>3. CASE ~disposed /\ JoinBinding
  BY <1>2, <1>3, JoinInvariant DEF ManagerInv, OneCall
<1>4. CASE disposed /\ UNCHANGED <<binding, current, operatingState, communicationState,
                                   observers, disposed, downs, errors>>
  <2>1. (BindingPhases /\ BindingsInTurn /\ CurrentInPlace)'
    BY <1>4 DEF ManagerInv, BindingPhases, BindingsInTurn, CurrentInPlace, Live
  <2>2. (OneCall /\ UnjoinAwaited /\ LastUnjoin)'
    BY <1>2, <1>4 DEF OneCall, UnjoinAwaited, LastUnjoin
  <2>3. (OperatingStateCurrent /\ ObserversOnce /\ CommunicationStateCurrent)'
    BY <1>4 DEF ManagerInv, OperatingStateCurrent, ObserversOnce, CommunicationStateCurrent
  <2> QED
    BY <2>1, <2>2, <2>3 DEF ManagerInv
<1> QED
  BY <1>1, <1>3, <1>4

LEMMA ManagerStep ==
    ASSUME Patient, ManagerInv, [Next]_vars
    PROVE  ManagerInv'
<1>1. TypeOK'
  BY ManagerTypes DEF ManagerInv
<1>2. CASE Start
  <2>1. ~disposed /\ calls = {} /\ calls' = {} /\ JoinBinding /\ binding[current].state = "Initialized"
    BY <1>2 DEF Start, MayCall
  <2>2. binding[current] = Untouched
    BY <2>1 DEF ManagerInv, TypeOK, BindingPhases
  <2>3. \A g \in Bindings : binding[g].promise # "pending"
    BY <2>1 DEF ManagerInv, UnjoinAwaited
  <2> QED
    BY <1>1, <2>1, <2>2, <2>3, JoinInvariant
<1>3. ASSUME NEW op \in {"start", "stop"}, Unjoining(op)
      PROVE  ManagerInv'
  <2>1. /\ ~disposed /\ ~disposed' /\ calls = {} /\ current < MaxBindings /\ UnjoinBinding
        /\ calls' = {[op |-> op, on |-> current]}
    BY <1>3 DEF Unjoining, MayCall
  <2> QED
    BY <1>1, <2>1, UnjoinInvariant
<1>4. CASE Dispose
  BY <1>1, <1>4, UnjoinInvariant DEF Dispose
<1>5. CASE UNCHANGED vars
  <2>1. (BindingPhases /\ BindingsInTurn /\ CurrentInPlace)'
    BY <1>5 DEF vars, ManagerInv, BindingPhases, BindingsInTurn, CurrentInPlace, Live
  <2>2. (OneCall /\ UnjoinAwaited /\ LastUnjoin)'
    BY <1>5 DEF vars, ManagerInv, OneCall, UnjoinAwaited, LastUnjoin
  <2>3. (OperatingStateCurrent /\ ObserversOnce /\ CommunicationStateCurrent)'
    BY <1>5 DEF vars, ManagerInv, OperatingStateCurrent, ObserversOnce, CommunicationStateCurrent
  <2> QED
    BY <1>1, <2>1, <2>2, <2>3 DEF ManagerInv
<1> QED
  BY <1>1, <1>2, <1>3, <1>4, <1>5, StopResolvedInvariant, StartResolvedInvariant, LinkInvariant
     DEF Next, StartWithOptions, Stop

------------------------------------------------------------------------------
(* The manager within its container                                        *)

\* Whatever the container and its controllers do, the manager takes a step of
\* its own or none.
LEMMA ManagerSteps ==
    ASSUME [ContainerNext]_agentVars
    PROVE  [Next]_vars
<1>1. CASE ManagerCalled
  BY <1>1 DEF ManagerCalled, Next
<1>2. CASE Shutdown
  BY <1>2 DEF Shutdown, Next
<1>3. CASE Continues(StopResolved) \/ Continues(StartResolved) \/ BindingsContinue \/ UnjoinContinues
  BY <1>3 DEF Continues, BindingsContinue, UnjoinContinues, Next
<1>4. CASE CallController \/ DispatchEnds \/ \E name \in Names : RegisterController(name)
  BY <1>4 DEF CallController, DispatchEnds, RegisterController
<1>5. CASE UNCHANGED agentVars
  BY <1>5 DEF agentVars
<1> QED
  BY <1>1, <1>2, <1>3, <1>4, <1>5 DEF ContainerNext

\* An agent's manager, run by its container, is the manager of
\* ManagerLifecycle (container.ts:238-276): what is proved of Spec
\* holds in each agent.
THEOREM ContainerRunsManager == AgentSpec => Spec
<1>1. AgentInit => Init
  BY DEF AgentInit
<1>2. [ContainerNext]_agentVars => [Next]_vars
  BY ManagerSteps
<1> QED
  BY <1>1, <1>2, PTL DEF AgentSpec, Spec

LEMMA ManagerInvariant ==
    ASSUME Patient
    PROVE  Spec => []ManagerInv
<1>1. ManagerInv /\ [Next]_vars => ManagerInv'
  BY ManagerStep
<1> QED
  BY <1>1, ManagerInitInvariant, PTL DEF Spec

\* The promise of stop() is resolved only when the manager has unjoined.
LEMMA StopResolvedStep ==
    ASSUME ManagerInv, [Next]_vars
    PROVE  \A c \in calls \ calls' :
              c.op = "stop" => \A g \in 1 .. c.on : binding[g].link = "none"
<1> SUFFICES ASSUME NEW c \in calls, c \notin calls', c.op = "stop", NEW g \in 1 .. c.on
             PROVE  binding[g].link = "none"
  OBVIOUS
<1>1. binding[c.on].promise = "resolved"
  <2>1. CASE StopResolved \/ StartResolved
    <3>1. PICK d \in calls : binding[d.on].promise = "resolved" /\ calls' = calls \ {d}
      BY <2>1 DEF StopResolved, StartResolved
    <3> QED
      BY <3>1
  <2>2. CASE Start \/ StartWithOptions \/ Stop \/ Dispose \/ UNCHANGED vars
    BY <2>2 DEF Start, StartWithOptions, Stop, Unjoining, Dispose, vars
  <2>3. CASE \E h \in Bindings : GoUp(h) \/ GoDown(h) \/ ClientError(h) \/ UnjoinCompletes(h)
    BY <2>3 DEF GoUp, GoDown, ClientError, UnjoinCompletes
  <2> QED
    BY <2>1, <2>2, <2>3 DEF Next
<1>2. c.on \in Bindings /\ c.on < current /\ current \in Bindings
  BY DEF ManagerInv, TypeOK, OneCall
<1>3. g \in Bindings /\ g < current /\ g # current
  BY <1>2, ParametersAssumption DEF Bindings
<1>4. binding[g].state = "Unjoined"
  BY <1>3 DEF ManagerInv, BindingsInTurn
<1>5. binding[g].promise # "pending"
  BY <1>1, <1>3, ResolvedIsLast
<1> QED
  BY <1>3, <1>4, <1>5 DEF ManagerInv, BindingPhases, Live

\* Each binding takes steps of BindingLifecycle only.
LEMMA BindingStep ==
    ASSUME TypeOK, [Next]_vars, NEW g \in Bindings
    PROVE  Lifecycle(g)!Next \/ UNCHANGED Lifecycle(g)!vars
<1> USE DEF Lifecycle!Next, Lifecycle!vars, Lifecycle!Join, Lifecycle!Unjoin, Lifecycle!GoUp,
            Lifecycle!GoDown, Lifecycle!UnjoinCompletes
<1>1. binding \in [Bindings -> BindingStates] /\ current \in Bindings
  BY DEF TypeOK
<1>2. ASSUME JoinBinding
      PROVE  Lifecycle(g)!Next \/ UNCHANGED Lifecycle(g)!vars
  BY <1>1, <1>2 DEF JoinBinding, Joined, BindingStates
<1>3. ASSUME UnjoinBinding
      PROVE  Lifecycle(g)!Next \/ UNCHANGED Lifecycle(g)!vars
  BY <1>1, <1>3 DEF UnjoinBinding, Unjoined, BindingStates
<1>4. ASSUME binding' = binding
      PROVE  Lifecycle(g)!Next \/ UNCHANGED Lifecycle(g)!vars
  BY <1>4
<1>5. ASSUME NEW h \in Bindings, GoUp(h) \/ GoDown(h) \/ ClientError(h) \/ UnjoinCompletes(h)
      PROVE  Lifecycle(g)!Next \/ UNCHANGED Lifecycle(g)!vars
  BY <1>1, <1>5 DEF GoUp, GoDown, ClientError, UnjoinCompletes, BindingStates
<1>6. CASE StopResolved \/ UNCHANGED vars
  BY <1>4, <1>6 DEF StopResolved, vars
<1>7. CASE StartResolved
  BY <1>2, <1>4, <1>7 DEF StartResolved
<1>8. CASE Start \/ StartWithOptions \/ Stop \/ Dispose
  BY <1>2, <1>3, <1>8 DEF Start, StartWithOptions, Stop, Unjoining, Dispose
<1> QED
  BY <1>5, <1>6, <1>7, <1>8 DEF Next

LEMMA ManagerTypeCorrect == Spec => []TypeOK
<1>1. TypeOK /\ [Next]_vars => TypeOK'
  BY ManagerTypes
<1> QED
  BY <1>1, ManagerInitTypes, PTL DEF Spec

\* The manager joins and unjoins each binding once, as CommunicationBinding
\* demands, even if calls overlap (communication-binding.ts:454-472).
THEOREM BindingsAreUsedOnce == Spec => BindingsUsedOnce
<1>1. Init => \A g \in Bindings : Lifecycle(g)!Init
  BY DEF Init, Lifecycle!Init
<1>2. TypeOK /\ [Next]_vars
      => [\A g \in Bindings : Lifecycle(g)!Next \/ UNCHANGED Lifecycle(g)!vars]_vars
  BY BindingStep
<1> QED
  BY <1>1, <1>2, ManagerTypeCorrect, PTL DEF Spec, BindingsUsedOnce

\* The promise of a stop() call that no other call overlaps is resolved only
\* when no earlier binding has a client any more, and no binding is joined
\* twice or after unjoining (communication-manager.ts:191-202).
THEOREM PromisesAreKept ==
    ASSUME Patient
    PROVE  AgentSpec => PromisesKept
<1>1. Spec => StopResolvedUnjoined
  <2>1. ManagerInv /\ [Next]_vars
        => [\A c \in calls \ calls' :
               c.op = "stop" => \A g \in 1 .. c.on : binding[g].link = "none"]_vars
    BY StopResolvedStep
  <2> QED
    BY <2>1, ManagerInvariant, PTL DEF Spec, StopResolvedUnjoined
<1> QED
  BY <1>1, BindingsAreUsedOnce, ContainerRunsManager DEF PromisesKept

------------------------------------------------------------------------------
(* The container                                                           *)

\* The facts on types that the steps rest on.
LEMMA ContainerTypes ==
    ASSUME ContainerTypeOK
    PROVE  /\ Len(entries) \in Nat
           /\ \A i \in 1 .. Len(entries) :
                 /\ entries[i] \in [name : Names, ctrl : Controllers]
                 /\ entries[i].ctrl \in Controllers /\ entries[i].ctrl \in Nat
                 /\ i \in Nat
           /\ created \in Nat /\ dispatch.at \in Nat
           /\ dispatch = [what |-> dispatch.what, at |-> dispatch.at]
           /\ dispatch.what \in Callbacks \cup {"nothing"}
           /\ \A c \in Controllers : told[c] \in Callbacks \cup {"nothing"}
<1>1. entries \in Seq([name : Names, ctrl : Controllers])
  BY DEF ContainerTypeOK
<1>2. Len(entries) \in Nat /\ \A i \in 1 .. Len(entries) : entries[i] \in [name : Names, ctrl : Controllers]
  BY <1>1, LenProperties, ElementOfSeq
<1>3. \A i \in 1 .. Len(entries) : entries[i].ctrl \in Controllers /\ entries[i].ctrl \in Nat /\ i \in Nat
  BY <1>2 DEF Controllers
<1> QED
  BY <1>2, <1>3, ContainerAssumption DEF ContainerTypeOK

LEMMA ContainerInitInvariant == AgentInit => ContainerInv
<1> SUFFICES ASSUME Init, ContainerInit PROVE ContainerInv
  BY DEF AgentInit
<1> USE DEF ContainerInit
<1>1. Len(Components) \in Nat /\ \A i \in 1 .. Len(Components) : Components[i] \in Names
  BY ContainerAssumption, LenProperties, ElementOfSeq
<1>2. \A i \in 1 .. Len(Components) : i \in Controllers
  BY <1>1, ContainerAssumption DEF Controllers
<1>3. entries \in [1 .. Len(Components) -> [name : Names, ctrl : Controllers]]
  BY <1>1, <1>2
<1>4. entries \in Seq([name : Names, ctrl : Controllers])
  BY <1>1, <1>3
<1>5. Len(entries) = Len(Components)
  BY <1>1
<1>6. \A i \in 1 .. Len(entries) : entries[i].name = Components[i] /\ entries[i].ctrl = i
  BY <1>5
<1>7. operatingState \in {"Started", "Stopped"} /\ ~disposed /\ operatingState = "Stopped"
  BY DEF Init
<1>8. ContainerTypeOK
  <2>1. created \in 0 .. MaxControllers
    BY <1>1, ContainerAssumption
  <2>2. told \in [Controllers -> Callbacks \cup {"nothing"}]
    OBVIOUS
  <2>3. dispatch \in [what : Callbacks \cup {"nothing"}, at : Nat]
    BY DEF Callbacks
  <2> QED
    BY <1>4, <2>1, <2>2, <2>3 DEF ContainerTypeOK
<1>9. EntriesDistinct
  BY <1>1, <1>5, <1>6, ContainerAssumption DEF EntriesDistinct
<1>10. NoneForgotten
  BY <1>5, <1>6 DEF NoneForgotten
<1>11. NestedCreated /\ CallbacksAlternate
  BY DEF NestedCreated, CallbacksAlternate
<1>12. DispatchFits
  BY <1>7 DEF DispatchFits
<1>13. ToldSoFar
  <2>1. dispatch.what = "init" /\ \A i \in 1 .. Len(entries) : ~(i < dispatch.at)
    BY <1>1, <1>5
  <2>2. \A i \in 1 .. Len(entries) : told[entries[i].ctrl] = "nothing"
    BY <1>2, <1>5, <1>6
  <2> QED
    BY <2>1, <2>2 DEF ToldSoFar, ToldFits
<1> QED
  BY <1>7, <1>8, <1>9, <1>10, <1>11, <1>12, <1>13 DEF ContainerInv

\* The next controller is told what the others are told.
LEMMA CallControllerInvariant ==
    ASSUME ContainerInv, CallController
    PROVE  ContainerInv'
<1> DEFINE c == entries[dispatch.at].ctrl
           what == dispatch.what
<1> USE DEF CallController
<1>1. /\ UNCHANGED <<entries, created, listening, shutdown, nested, replaced>>
      /\ operatingState' = operatingState /\ disposed' = disposed
      /\ what # "nothing"
      /\ dispatch' = [what |-> what, at |-> dispatch.at + 1]
      /\ told' = [told EXCEPT ![c] = what]
      /\ odd' = IF IsOdd(c, what) THEN odd \cup {c} ELSE odd
  BY ContainerTypes DEF ContainerInv, Tell, vars
<1>2. dispatch.at \in 1 .. Len(entries) /\ c \in Controllers
  BY ContainerTypes DEF ContainerInv, DispatchFits
<1>3. /\ told'[c] = what
      /\ \A d \in Controllers : d # c => told'[d] = told[d]
  BY <1>1, <1>2 DEF ContainerInv, ContainerTypeOK
<1>4. ContainerTypeOK'
  <2>1. dispatch' \in [what : Callbacks \cup {"nothing"}, at : Nat]
    BY <1>1, ContainerTypes DEF ContainerInv
  <2>2. told' \in [Controllers -> Callbacks \cup {"nothing"}]
    BY <1>1, ContainerTypes DEF ContainerInv, ContainerTypeOK
  <2>3. odd' \subseteq Controllers
    BY <1>1, <1>2 DEF ContainerInv, ContainerTypeOK
  <2> QED
    BY <1>1, <2>1, <2>2, <2>3 DEF ContainerInv, ContainerTypeOK
<1>5. (EntriesDistinct /\ NestedCreated)'
  BY <1>1 DEF ContainerInv, EntriesDistinct, NestedCreated
<1>6. NoneForgotten'
  BY <1>1 DEF ContainerInv, NoneForgotten, NoDispatch
<1>7. DispatchFits'
  BY <1>1, ContainerTypes DEF ContainerInv, DispatchFits, NoDispatch
<1>8. ToldFits(c, FALSE)
  <2>1. ToldFits(c, dispatch.at < dispatch.at)
    BY <1>2 DEF ContainerInv, ToldSoFar
  <2>2. (dispatch.at < dispatch.at) = FALSE
    BY <1>2
  <2> QED
    BY <2>1, <2>2 DEF ToldFits
<1>9. ToldSoFar'
  <2> SUFFICES ASSUME NEW i \in 1 .. Len(entries)
               PROVE  ToldFits(entries[i].ctrl, i < dispatch.at)'
    BY <1>1 DEF ToldSoFar
  <2>1. CASE i = dispatch.at
    <3>1. (i < dispatch.at)' /\ entries'[i].ctrl = c
      BY <1>1, <2>1, ContainerTypes DEF ContainerInv
    <3> QED
      BY <1>1, <1>3, <1>8, <3>1 DEF ToldFits, ContainerInv, DispatchFits, Callbacks
  <2>2. CASE i # dispatch.at
    <3>1. (i < dispatch.at)' <=> i < dispatch.at
      BY <1>1, <2>2, ContainerTypes DEF ContainerInv
    <3>2. told'[entries[i].ctrl] = told[entries[i].ctrl]
      BY <1>2, <1>3, <2>2, ContainerTypes DEF ContainerInv, EntriesDistinct
    <3>3. ToldFits(entries[i].ctrl, i < dispatch.at)
      BY DEF ContainerInv, ToldSoFar
    <3> QED
      BY <1>1, <3>1, <3>2, <3>3 DEF ToldFits
  <2> QED
    BY <2>1, <2>2
<1>10. CallbacksAlternate'
  <2>1. c \notin nested => ~IsOdd(c, what)
    BY <1>1, <1>8, ContainerTypes DEF IsOdd, ToldFits, ContainerInv, Callbacks
  <2> QED
    BY <1>1, <2>1 DEF ContainerInv, CallbacksAlternate
<1> QED
  BY <1>1, <1>4, <1>5, <1>6, <1>7, <1>9, <1>10 DEF ContainerInv

\* All controllers have been called.
LEMMA DispatchEndsInvariant ==
    ASSUME ContainerInv, DispatchEnds
    PROVE  ContainerInv'
<1>0. NoDispatch.what = "nothing" /\ NoDispatch \in [what : Callbacks \cup {"nothing"}, at : Nat]
  BY DEF NoDispatch, Callbacks
<1> USE DEF DispatchEnds
<1>1. /\ UNCHANGED <<created, told, shutdown, nested, replaced, odd>>
      /\ operatingState' = operatingState /\ disposed' = disposed
      /\ dispatch.what # "nothing"
  BY DEF vars
<1>2. \A i \in 1 .. Len(entries) : ToldFits(entries[i].ctrl, TRUE)
  <2>1. \A i \in 1 .. Len(entries) : (i < dispatch.at) = TRUE
    BY ContainerTypes DEF ContainerInv
  <2> QED
    BY <2>1 DEF ContainerInv, ToldSoFar
<1>3. operatingState \in {"Started", "Stopped"}
  BY DEF ContainerInv
<1>4. CASE dispatch.what = "dispose"
  <2>1. shutdown /\ shutdown' /\ entries' = << >> /\ dispatch' = NoDispatch /\ operatingState = "Stopped"
    BY <1>1, <1>4 DEF ContainerInv, DispatchFits
  <2>2. Len(entries') = 0 /\ entries' \in Seq([name : Names, ctrl : Controllers])
    BY <2>1, EmptySeq
  <2>3. ContainerTypeOK'
    <3>1. dispatch' \in [what : Callbacks \cup {"nothing"}, at : Nat]
      BY <1>0, <2>1
    <3>2. listening' \in BOOLEAN
      BY <1>4
    <3> QED
      BY <1>1, <2>2, <3>1, <3>2 DEF ContainerInv, ContainerTypeOK
  <2>4. (EntriesDistinct /\ ToldSoFar)'
    BY <2>2 DEF EntriesDistinct, ToldSoFar
  <2>5. NoneForgotten'
    <3>1. \A i \in 1 .. Len(entries) : told[entries[i].ctrl] = "dispose"
      BY <1>2, <1>4 DEF ToldFits
    <3>2. \A c \in 1 .. created : c \in replaced \/ told[c] = "dispose"
      BY <1>4, <3>1 DEF ContainerInv, NoneForgotten
    <3> QED
      BY <1>1, <2>1, <3>2 DEF NoneForgotten
  <2>6. DispatchFits'
    <3>1. dispatch'.what = "nothing"
      BY <1>0, <2>1
    <3>2. (shutdown <=> disposed)'
      BY <1>1 DEF ContainerInv, DispatchFits
    <3> QED
      BY <1>1, <2>1, <3>1, <3>2 DEF DispatchFits
  <2> QED
    BY <1>1, <2>3, <2>4, <2>5, <2>6 DEF ContainerInv, NestedCreated, CallbacksAlternate
<1>5. CASE dispatch.what # "dispose"
  <2>1. /\ entries' = entries
        /\ dispatch' \in {NoDispatch, [what |-> "Started", at |-> 1], [what |-> "dispose", at |-> 1]}
        /\ dispatch' = NoDispatch => (dispatch.what = "init" => operatingState = "Stopped")
                                     /\ (dispatch.what = "Stopped" => ~shutdown)
        /\ dispatch'.what = "Started" => dispatch.what = "init" /\ operatingState = "Started"
        /\ dispatch'.what = "dispose" => dispatch.what = "Stopped" /\ shutdown
    BY <1>3, <1>5 DEF Subscribed, AfterStopped, NoDispatch
  <2>2. ContainerTypeOK'
    <3>1. dispatch' \in [what : Callbacks \cup {"nothing"}, at : Nat]
      BY <2>1 DEF NoDispatch, Callbacks
    <3>2. listening' \in BOOLEAN
      OBVIOUS
    <3> QED
      BY <1>1, <2>1, <3>1, <3>2 DEF ContainerInv, ContainerTypeOK
  <2>3. (EntriesDistinct /\ NestedCreated /\ CallbacksAlternate)'
    BY <1>1, <2>1 DEF ContainerInv, EntriesDistinct, NestedCreated, CallbacksAlternate
  <2>4. NoneForgotten'
    BY <1>1, <2>1 DEF ContainerInv, NoneForgotten, NoDispatch
  <2>5. listening' <=> listening \/ dispatch.what = "init"
    BY <1>5
  <2>6. dispatch.what \in {"init", "Started", "Stopped"}
    BY <1>1, <1>5, ContainerTypes DEF ContainerInv, Callbacks
  <2>7. ~shutdown => listening'
    BY <2>5, <2>6 DEF ContainerInv, DispatchFits
  <2>8. dispatch' = NoDispatch => ~shutdown
    BY <2>1, <2>6 DEF ContainerInv, DispatchFits
  <2>9. DispatchFits'
    BY <1>1, <2>1, <2>7, <2>8 DEF ContainerInv, DispatchFits, NoDispatch
  <2>10. ToldSoFar'
    <3> SUFFICES ASSUME NEW i \in 1 .. Len(entries)
                 PROVE  ToldFits(entries[i].ctrl, i < dispatch.at)'
      BY <2>1 DEF ToldSoFar
    <3>1. ToldFits(entries[i].ctrl, TRUE)
      BY <1>2
    <3>2. dispatch'.at = 1 => (i < dispatch.at)' = FALSE
      BY <2>1, ContainerTypes DEF ContainerInv
    <3>3. CASE dispatch' = NoDispatch
      BY <1>1, <1>3, <2>1, <2>6, <3>1, <3>3 DEF ToldFits, NoDispatch, ContainerInv, DispatchFits
    <3>4. CASE dispatch' = [what |-> "Started", at |-> 1]
      <4>1. dispatch'.what = "Started" /\ dispatch'.at = 1
        BY <3>4
      <4> QED
        BY <1>1, <2>1, <3>1, <3>2, <4>1 DEF ToldFits
    <3>5. CASE dispatch' = [what |-> "dispose", at |-> 1]
      <4>1. dispatch'.what = "dispose" /\ dispatch'.at = 1
        BY <3>5
      <4> QED
        BY <1>1, <2>1, <3>1, <3>2, <4>1 DEF ToldFits
    <3> QED
      BY <2>1, <3>3, <3>4, <3>5
  <2> QED
    BY <1>1, <2>2, <2>3, <2>4, <2>9, <2>10 DEF ContainerInv
<1> QED
  BY <1>4, <1>5

\* A name that is registered again keeps its place, and a new one comes last.
LEMMA EntriesWithProperties ==
    ASSUME ContainerInv, NEW name \in Names, NEW c \in Controllers
    PROVE  /\ EntriesWith(name, c) \in Seq([name : Names, ctrl : Controllers])
           /\ Len(EntriesWith(name, c)) >= Len(entries)
           /\ Len(EntriesWith(name, c)) \in Nat
           /\ \A i \in 1 .. Len(entries) :
                 EntriesWith(name, c)[i] = IF entries[i].name = name THEN [name |-> name, ctrl |-> c]
                                           ELSE entries[i]
           /\ \A i \in 1 .. Len(EntriesWith(name, c)) :
                 i \notin 1 .. Len(entries) =>
                    /\ EntriesWith(name, c)[i] = [name |-> name, ctrl |-> c]
                    /\ i = Len(entries) + 1
                    /\ \A j \in 1 .. Len(entries) : entries[j].name # name
           /\ \E i \in 1 .. Len(EntriesWith(name, c)) : EntriesWith(name, c)[i] = [name |-> name, ctrl |-> c]
<1> DEFINE Entry == [name : Names, ctrl : Controllers]
           new == [name |-> name, ctrl |-> c]
<1>1. entries \in Seq(Entry) /\ DOMAIN entries = 1 .. Len(entries) /\ Len(entries) \in Nat
  BY LenProperties DEF ContainerInv, ContainerTypeOK
<1>2. \A i \in 1 .. Len(entries) : entries[i] \in Entry
  BY <1>1, ElementOfSeq
<1>3. new \in Entry
  OBVIOUS
<1>4. CASE \E i \in DOMAIN entries : entries[i].name = name
  <2> DEFINE replacing == [i \in 1 .. Len(entries) |-> IF entries[i].name = name THEN new ELSE entries[i]]
  <2>1. EntriesWith(name, c) = replacing
    BY <1>1, <1>4 DEF EntriesWith
  <2>2. replacing \in [1 .. Len(entries) -> Entry]
    BY <1>2, <1>3
  <2>3. replacing \in Seq(Entry) /\ Len(replacing) = Len(entries)
    BY <1>1, <2>2
  <2>4. \A i \in 1 .. Len(entries) : replacing[i] = IF entries[i].name = name THEN new ELSE entries[i]
    OBVIOUS
  <2> HIDE DEF replacing
  <2> QED
    BY <1>1, <1>4, <2>1, <2>3, <2>4
<1>5. CASE ~\E i \in DOMAIN entries : entries[i].name = name
  <2>1. EntriesWith(name, c) = Append(entries, new)
    BY <1>5 DEF EntriesWith
  <2>2. /\ Append(entries, new) \in Seq(Entry)
        /\ Len(Append(entries, new)) = Len(entries) + 1
        /\ \A i \in 1 .. Len(entries) : Append(entries, new)[i] = entries[i]
        /\ Append(entries, new)[Len(entries) + 1] = new
    BY <1>1, <1>3, AppendProperties
  <2>3. \A j \in 1 .. Len(entries) : entries[j].name # name
    BY <1>1, <1>5
  <2>4. \A i \in 1 .. Len(entries) + 1 : i \notin 1 .. Len(entries) => i = Len(entries) + 1
    BY <1>1
  <2>5. Len(entries) + 1 \in 1 .. Len(entries) + 1
    BY <1>1
  <2> QED
    BY <1>1, <2>1, <2>2, <2>3, <2>4, <2>5
<1> QED
  BY <1>4, <1>5

\* A new controller has been told what the others have been told.
LEMMA RegisterControllerInvariant ==
    ASSUME ContainerInv, NEW name \in Names, RegisterController(name)
    PROVE  ContainerInv'
<1> DEFINE c == created + 1
<1> USE DEF RegisterController
<1>1. /\ UNCHANGED <<dispatch, listening, shutdown, odd>>
      /\ operatingState' = operatingState /\ disposed' = disposed
      /\ created' = c /\ c \in Controllers /\ c \in Nat /\ created \in Nat /\ c > created
      /\ ~shutdown
  BY ContainerAssumption DEF vars, ContainerInv, ContainerTypeOK, Controllers
<1>2. /\ entries' = EntriesWith(name, c)
      /\ told' = [told EXCEPT ![c] = ToldFirst(operatingState)]
      /\ nested' = IF dispatch.what = "nothing" THEN nested ELSE nested \cup {c}
      /\ replaced' = replaced \cup {entries[i].ctrl : i \in {j \in 1 .. Len(entries) : entries[j].name = name}}
  BY <1>1, LenProperties DEF ContainerInv, ContainerTypeOK
<1>3. /\ Len(entries) \in Nat /\ Len(entries') \in Nat /\ Len(entries') >= Len(entries)
      /\ entries' \in Seq([name : Names, ctrl : Controllers])
      /\ \A i \in 1 .. Len(entries) :
            entries'[i] = IF entries[i].name = name THEN [name |-> name, ctrl |-> c] ELSE entries[i]
      /\ \A i \in 1 .. Len(entries') :
            i \notin 1 .. Len(entries) => /\ entries'[i] = [name |-> name, ctrl |-> c]
                                          /\ i = Len(entries) + 1
                                          /\ \A j \in 1 .. Len(entries) : entries[j].name # name
      /\ \E i \in 1 .. Len(entries') : entries'[i] = [name |-> name, ctrl |-> c]
  <2>1. Len(entries) \in Nat
    BY ContainerTypes DEF ContainerInv
  <2>2. c \in Controllers /\ entries' = EntriesWith(name, c)
    BY <1>1, <1>2
  <2> HIDE DEF c, RegisterController
  <2>3. /\ entries' \in Seq([name : Names, ctrl : Controllers])
        /\ Len(entries') >= Len(entries) /\ Len(entries') \in Nat
    BY <2>2, EntriesWithProperties
  <2>4. \E i \in 1 .. Len(entries') : entries'[i] = [name |-> name, ctrl |-> c]
    BY <2>2, EntriesWithProperties
  <2>5. \A i \in 1 .. Len(entries) :
           entries'[i] = IF entries[i].name = name THEN [name |-> name, ctrl |-> c] ELSE entries[i]
    BY <2>2, EntriesWithProperties
  <2>6. \A i \in 1 .. Len(entries') :
            i \notin 1 .. Len(entries) => /\ entries'[i] = [name |-> name, ctrl |-> c]
                                          /\ i = Len(entries) + 1
                                          /\ \A j \in 1 .. Len(entries) : entries[j].name # name
    BY <2>2, EntriesWithProperties
  <2> QED
    BY <2>1, <2>3, <2>4, <2>5, <2>6
<1>4. \A i \in 1 .. Len(entries) :
         entries[i].ctrl # c /\ entries[i].ctrl <= c /\ entries[i].ctrl \in Controllers
  BY <1>1, ContainerTypes DEF ContainerInv, EntriesDistinct
<1>5. /\ told'[c] = ToldFirst(operatingState)
      /\ \A d \in Controllers : d # c => told'[d] = told[d]
  BY <1>1, <1>2 DEF ContainerInv, ContainerTypeOK
<1>6. ContainerTypeOK'
  <2>1. told' \in [Controllers -> Callbacks \cup {"nothing"}]
    BY <1>1, <1>2 DEF ContainerInv, ContainerTypeOK, ToldFirst, Callbacks
  <2>2. nested' \subseteq Controllers /\ replaced' \subseteq Controllers
    BY <1>1, <1>2, <1>4 DEF ContainerInv, ContainerTypeOK
  <2>3. created' \in 0 .. MaxControllers
    BY <1>1 DEF ContainerInv, ContainerTypeOK, Controllers
  <2> QED
    BY <1>1, <1>3, <2>1, <2>2, <2>3 DEF ContainerInv, ContainerTypeOK
<1>7. \A i \in 1 .. Len(entries') :
         \/ entries'[i] = [name |-> name, ctrl |-> c]
         \/ i \in 1 .. Len(entries) /\ entries'[i] = entries[i] /\ entries[i].name # name
  BY <1>3
<1>8. EntriesDistinct'
  <2>1. ASSUME NEW i \in 1 .. Len(entries'), NEW j \in 1 .. Len(entries'), i # j
        PROVE  entries'[i].name # entries'[j].name /\ entries'[i].ctrl # entries'[j].ctrl
    <3>1. CASE entries'[i] = [name |-> name, ctrl |-> c] /\ entries'[j] = [name |-> name, ctrl |-> c]
      <4>1. ASSUME NEW k \in 1 .. Len(entries'), entries'[k] = [name |-> name, ctrl |-> c],
                   k \in 1 .. Len(entries)
            PROVE  entries[k].name = name
        BY <1>3, <1>4, <4>1
      <4> QED
        BY <1>3, <2>1, <3>1, <4>1 DEF ContainerInv, EntriesDistinct
    <3>2. CASE ~(entries'[i] = [name |-> name, ctrl |-> c] /\ entries'[j] = [name |-> name, ctrl |-> c])
      BY <1>4, <1>7, <2>1, <3>2 DEF ContainerInv, EntriesDistinct
    <3> QED
      BY <3>1, <3>2
  <2>2. \A i \in 1 .. Len(entries') : entries'[i].ctrl <= created'
    BY <1>1, <1>4, <1>7
  <2> QED
    BY <2>1, <2>2 DEF EntriesDistinct
<1>9. NestedCreated'
  <2>1. \A d \in nested : d \in Nat /\ d <= created
    BY DEF ContainerInv, ContainerTypeOK, NestedCreated, Controllers
  <2> QED
    BY <1>1, <1>2, <2>1 DEF NestedCreated
<1>10. NoneForgotten'
  <2> SUFFICES ASSUME NEW d \in 1 .. c
               PROVE  d \in replaced' \/ \E i \in 1 .. Len(entries') : entries'[i].ctrl = d
    BY <1>1 DEF NoneForgotten
  <2>1. CASE d = c
    BY <1>3, <2>1
  <2>2. CASE d # c
    <3>1. d \in replaced \/ \E i \in 1 .. Len(entries) : entries[i].ctrl = d
      BY <1>1, <2>2 DEF ContainerInv, NoneForgotten
    <3>2. ASSUME NEW i \in 1 .. Len(entries), entries[i].ctrl = d, entries[i].name # name
          PROVE  \E k \in 1 .. Len(entries') : entries'[k].ctrl = d
      <4>1. i \in 1 .. Len(entries') /\ entries'[i] = entries[i]
        BY <1>3, <3>2
      <4> QED
        BY <3>2, <4>1
    <3> QED
      BY <1>2, <3>1, <3>2
  <2> QED
    BY <2>1, <2>2
<1>11. DispatchFits'
  BY <1>1 DEF ContainerInv, DispatchFits
<1>12. ToldSoFar'
  <2> SUFFICES ASSUME NEW i \in 1 .. Len(entries')
               PROVE  ToldFits(entries[i].ctrl, i < dispatch.at)'
    BY DEF ToldSoFar
  <2>1. CASE entries'[i] = [name |-> name, ctrl |-> c]
    <3>1. entries'[i].ctrl = c /\ (dispatch.what # "nothing" => c \in nested')
      BY <1>2, <2>1
    <3>2. dispatch.what # "dispose"
      BY <1>1 DEF ContainerInv, DispatchFits
    <3> QED
      BY <1>1, <1>5, <3>1, <3>2 DEF ToldFits, ToldFirst, ContainerInv, DispatchFits
  <2>2. CASE i \in 1 .. Len(entries) /\ entries'[i] = entries[i]
    <3>1. ToldFits(entries[i].ctrl, i < dispatch.at)
      BY <2>2 DEF ContainerInv, ToldSoFar
    <3>2. told'[entries[i].ctrl] = told[entries[i].ctrl]
          /\ (entries[i].ctrl \in nested' <=> entries[i].ctrl \in nested)
      BY <1>2, <1>4, <1>5, <2>2
    <3> QED
      BY <1>1, <2>2, <3>1, <3>2 DEF ToldFits
  <2> QED
    BY <1>7, <2>1, <2>2
<1>13. CallbacksAlternate'
  BY <1>1, <1>2 DEF ContainerInv, CallbacksAlternate
<1> QED
  BY <1>1, <1>6, <1>8, <1>9, <1>10, <1>11, <1>12, <1>13 DEF ContainerInv

\* What the manager does to its operating state: a manager that is disposed
\* stays stopped.
LEMMA OperatingStateStep ==
    ASSUME Start \/ StartWithOptions \/ Stop \/ StopResolved \/ StartResolved
           \/ \E g \in Bindings : GoUp(g) \/ GoDown(g) \/ ClientError(g) \/ UnjoinCompletes(g),
           operatingState \in {"Started", "Stopped"}
    PROVE  /\ operatingState' \in {"Started", "Stopped"}
           /\ disposed' = disposed
           /\ disposed /\ operatingState = "Stopped" => operatingState' = "Stopped"
  BY DEF Start, StartWithOptions, Stop, Unjoining, MayCall, StopResolved, StartResolved, GoUp,
         GoDown, ClientError, UnjoinCompletes, JoinBinding, UnjoinBinding

\* The operating state is dispatched if it changes, or is not observed yet.
LEMMA DispatchedInvariant ==
    ASSUME ContainerInv, Dispatched,
           UNCHANGED <<entries, created, told, listening, shutdown, nested, replaced, odd>>,
           operatingState' \in {"Started", "Stopped"}, disposed' = disposed,
           disposed => operatingState' = "Stopped",
           \/ dispatch = NoDispatch
           \/ dispatch.what = "init" /\ operatingState' = "Started"
           \/ operatingState' = operatingState
    PROVE  ContainerInv'
<1>1. /\ operatingState \in {"Started", "Stopped"}
      /\ shutdown <=> disposed
      /\ shutdown => operatingState = "Stopped"
  BY DEF ContainerInv, DispatchFits
<1>2. CASE operatingState' # operatingState /\ dispatch = NoDispatch
  <2>1. listening /\ ~shutdown /\ dispatch.what = "nothing"
    BY <1>1, <1>2 DEF ContainerInv, DispatchFits, NoDispatch
  <2>2. dispatch' = [what |-> operatingState', at |-> 1]
    BY <1>2, <2>1 DEF Dispatched
  <2>3. ContainerTypeOK'
    <3>1. dispatch' \in [what : Callbacks \cup {"nothing"}, at : Nat]
      BY <2>2 DEF Callbacks
    <3> QED
      BY <3>1 DEF ContainerInv, ContainerTypeOK
  <2>4. (EntriesDistinct /\ NestedCreated /\ CallbacksAlternate)'
    BY DEF ContainerInv, EntriesDistinct, NestedCreated, CallbacksAlternate
  <2>5. NoneForgotten'
    BY <2>1 DEF ContainerInv, NoneForgotten
  <2>6. DispatchFits'
    BY <1>1, <2>1, <2>2 DEF DispatchFits, NoDispatch
  <2>7. ToldSoFar'
    <3> SUFFICES ASSUME NEW i \in 1 .. Len(entries)
                 PROVE  ToldFits(entries[i].ctrl, i < dispatch.at)'
      BY DEF ToldSoFar
    <3>1. ToldFits(entries[i].ctrl, i < dispatch.at)
      BY DEF ContainerInv, ToldSoFar
    <3>2. (i < dispatch.at)' = FALSE
      BY <2>2, ContainerTypes DEF ContainerInv
    <3>3. /\ operatingState' = "Stopped" => told[entries[i].ctrl] = "Started"
          /\ operatingState' = "Started" => told[entries[i].ctrl] \in {"init", "Stopped"}
      BY <1>1, <1>2, <2>1, <3>1 DEF ToldFits
    <3>4. dispatch'.what = operatingState'
      BY <2>2
    <3> QED
      BY <3>2, <3>3, <3>4 DEF ToldFits
  <2> QED
    BY <2>3, <2>4, <2>5, <2>6, <2>7 DEF ContainerInv
<1>3. CASE ~(operatingState' # operatingState /\ dispatch = NoDispatch)
  <2>1. /\ operatingState' = operatingState \/ (dispatch.what = "init" /\ operatingState' = "Started")
        /\ dispatch' = dispatch
    BY <1>3 DEF Dispatched, ContainerInv, DispatchFits
  <2>2. ContainerTypeOK'
    BY <2>1 DEF ContainerInv, ContainerTypeOK
  <2>3. (EntriesDistinct /\ NestedCreated /\ CallbacksAlternate)'
    BY DEF ContainerInv, EntriesDistinct, NestedCreated, CallbacksAlternate
  <2>4. NoneForgotten'
    BY <2>1 DEF ContainerInv, NoneForgotten
  <2>5. DispatchFits'
    BY <1>1, <2>1 DEF ContainerInv, DispatchFits, NoDispatch
  <2>6. ToldSoFar'
    BY <2>1 DEF ContainerInv, ToldSoFar, ToldFits
  <2> QED
    BY <2>2, <2>3, <2>4, <2>5, <2>6 DEF ContainerInv
<1> QED
  BY <1>2, <1>3

\* shutdown() tells controllers to stop, if they are started, and to dispose.
LEMMA ShutdownInvariant ==
    ASSUME ContainerInv, Shutdown
    PROVE  ContainerInv'
<1>1. /\ UNCHANGED <<entries, created, told, listening, nested, replaced, odd>>
      /\ dispatch = NoDispatch /\ dispatch.what = "nothing" /\ ~shutdown /\ shutdown'
      /\ disposed' /\ operatingState' = "Stopped"
      /\ dispatch' = [what |-> FirstOnShutdown(operatingState), at |-> 1]
      /\ operatingState \in {"Started", "Stopped"}
  BY DEF Shutdown, Quiet, Dispose, UnjoinBinding, ContainerInv, NoDispatch
<1>2. /\ dispatch'.at = 1
      /\ operatingState = "Started" => dispatch'.what = "Stopped"
      /\ operatingState = "Stopped" => dispatch'.what = "dispose"
  BY <1>1 DEF FirstOnShutdown
<1>3. ContainerTypeOK'
  <2>1. dispatch' \in [what : Callbacks \cup {"nothing"}, at : Nat]
    BY <1>1 DEF Callbacks, FirstOnShutdown
  <2>2. shutdown' \in BOOLEAN
    BY DEF Shutdown
  <2> QED
    BY <1>1, <2>1, <2>2 DEF ContainerInv, ContainerTypeOK
<1>4. (EntriesDistinct /\ NestedCreated /\ CallbacksAlternate)'
  BY <1>1 DEF ContainerInv, EntriesDistinct, NestedCreated, CallbacksAlternate
<1>5. NoneForgotten'
  BY <1>1 DEF ContainerInv, NoneForgotten
<1>6. DispatchFits'
  BY <1>1, <1>2 DEF DispatchFits
<1>7. ToldSoFar'
  <2> SUFFICES ASSUME NEW i \in 1 .. Len(entries)
               PROVE  ToldFits(entries[i].ctrl, i < dispatch.at)'
    BY <1>1 DEF ToldSoFar
  <2>1. ToldFits(entries[i].ctrl, i < dispatch.at)
    BY DEF ContainerInv, ToldSoFar
  <2>2. (i < dispatch.at)' = FALSE
    BY <1>2, ContainerTypes DEF ContainerInv
  <2> QED
    BY <1>1, <1>2, <2>1, <2>2 DEF ToldFits
<1> QED
  BY <1>1, <1>3, <1>4, <1>5, <1>6, <1>7 DEF ContainerInv

LEMMA ContainerStep ==
    ASSUME ContainerInv, [ContainerNext]_agentVars
    PROVE  ContainerInv'
<1>1. /\ operatingState \in {"Started", "Stopped"}
      /\ disposed => operatingState = "Stopped"
      /\ dispatch = NoDispatch => dispatch.what = "nothing"
  BY DEF ContainerInv, DispatchFits, NoDispatch
<1>2. CASE ManagerCalled
  <2>1. Start \/ StartWithOptions \/ Stop
    BY <1>2 DEF ManagerCalled
  <2>2. /\ operatingState' \in {"Started", "Stopped"} /\ disposed' = disposed
        /\ disposed => operatingState' = "Stopped"
    BY <1>1, <2>1, OperatingStateStep
  <2>3. dispatch = NoDispatch \/ (dispatch.what = "init" /\ operatingState' = "Started")
    BY <1>2 DEF ManagerCalled, Start, JoinBinding, ContainerInv, DispatchFits
  <2> QED
    BY <1>2, <2>2, <2>3, DispatchedInvariant DEF ManagerCalled
<1>3. CASE Continues(StopResolved) \/ Continues(StartResolved) \/ BindingsContinue \/ UnjoinContinues
  <2>1. /\ StopResolved \/ StartResolved \/ \E g \in Bindings : GoUp(g) \/ GoDown(g) \/ ClientError(g) \/ UnjoinCompletes(g)
        /\ dispatch = NoDispatch /\ Dispatched
        /\ UNCHANGED <<entries, created, told, listening, shutdown, nested, replaced, odd>>
    BY <1>3 DEF Continues, BindingsContinue, UnjoinContinues, Quiet
  <2>2. /\ operatingState' \in {"Started", "Stopped"} /\ disposed' = disposed
        /\ disposed => operatingState' = "Stopped"
    BY <1>1, <2>1, OperatingStateStep
  <2> QED
    BY <2>1, <2>2, DispatchedInvariant
<1>4. CASE UNCHANGED agentVars
  <2>1. UNCHANGED containerVars /\ UNCHANGED <<operatingState, disposed>>
    BY <1>4 DEF agentVars, vars
  <2>2. (ContainerTypeOK /\ EntriesDistinct /\ NoneForgotten /\ NestedCreated)'
    BY <2>1 DEF containerVars, ContainerInv, ContainerTypeOK, EntriesDistinct, NoneForgotten, NestedCreated
  <2>3. (DispatchFits /\ ToldSoFar /\ CallbacksAlternate)'
    BY <2>1 DEF containerVars, ContainerInv, DispatchFits, ToldSoFar, ToldFits, CallbacksAlternate
  <2> QED
    BY <2>1, <2>2, <2>3 DEF ContainerInv
<1> QED
  BY <1>2, <1>3, <1>4, CallControllerInvariant, DispatchEndsInvariant, RegisterControllerInvariant,
     ShutdownInvariant DEF ContainerNext

LEMMA ContainerInvariant == AgentSpec => []ContainerInv
<1>1. ContainerInv /\ [ContainerNext]_agentVars => ContainerInv'
  BY ContainerStep
<1> QED
  BY <1>1, ContainerInitInvariant, PTL DEF AgentSpec

------------------------------------------------------------------------------
(* The theorems                                                            *)

\* The types of the state of an agent's manager and container, whether or not
\* callers wait.
THEOREM TypeCorrect == AgentSpec => []AgentTypeOK
<1>1. TypeOK /\ ContainerInv => AgentTypeOK
  BY DEF ContainerInv, AgentTypeOK
<1> QED
  BY <1>1, ManagerTypeCorrect, ContainerInvariant, ContainerRunsManager, PTL

\* An agent's manager reports its operating state, its communication state and
\* its observed items as its bindings are, and no two bindings have a client
\* at the same time, for callers that wait until the promise of start() or
\* stop() is resolved (communication-manager.ts:156-202, 797-870).
THEOREM ManagerIsConsistent ==
    ASSUME Patient
    PROVE  AgentSpec => []ManagerConsistent
<1>1. ManagerInv /\ ContainerInv => ManagerConsistent
  BY OnlyOneLive DEF ManagerInv, ContainerInv, ManagerConsistent, AgentTypeOK
<1> QED
  BY <1>1, ManagerInvariant, ContainerInvariant, ContainerRunsManager, PTL

\* Controllers know the operating state once callbacks have returned, are told
\* to start and to stop in turn, and are disposed with the container, whatever
\* controllers are registered meanwhile and whether or not callers wait
\* (container.ts:113-134, 238-276).
THEOREM ControllersAreTold == AgentSpec => []ControllersTold
<1>1. ContainerInv => ControllersTold
  <2> SUFFICES ASSUME ContainerInv PROVE ControllersTold
    OBVIOUS
  <2>1. ControllersCurrent
    <3> SUFFICES ASSUME Quiet, NEW i \in DOMAIN entries
                 PROVE  IF operatingState = "Started" THEN told[entries[i].ctrl] = "Started"
                        ELSE told[entries[i].ctrl] \in {"init", "Stopped"}
      BY DEF ControllersCurrent, Registered
    <3>1. i \in 1 .. Len(entries) /\ dispatch.what = "nothing"
      BY LenProperties DEF ContainerInv, ContainerTypeOK, Quiet, NoDispatch
    <3>2. ToldFits(entries[i].ctrl, i < dispatch.at)
      BY <3>1 DEF ContainerInv, ToldSoFar
    <3> QED
      BY <3>1, <3>2 DEF ToldFits, ContainerInv
  <2>2. AllDisposed
    <3> SUFFICES ASSUME shutdown, Quiet
                 PROVE  entries = << >> /\ \A c \in 1 .. created : told[c] = "dispose" \/ c \in replaced
      BY DEF AllDisposed
    <3>1. entries = << >>
      BY DEF ContainerInv, DispatchFits, Quiet, NoDispatch
    <3>2. Len(entries) = 0
      BY <3>1, EmptySeq
    <3> QED
      BY <3>1, <3>2 DEF ContainerInv, NoneForgotten
  <2> QED
    BY <2>1, <2>2 DEF ContainerInv, ControllersTold
<1> QED
  BY <1>1, ContainerInvariant, PTL

==============================================================================

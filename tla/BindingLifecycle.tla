--------------------------- MODULE BindingLifecycle ---------------------------
(***************************************************************************)
(* What the abstract base class CommunicationBinding promises to the       *)
(* communication manager (com/communication-binding.ts): a binding is      *)
(* joined at most once, unjoined at most once, and the promise returned    *)
(* by unjoin() is resolved only after the binding has let go of the        *)
(* communication infrastructure for good.                                  *)
(***************************************************************************)

VARIABLES
    state,      \* CommunicationBinding.state
    link,       \* "none": no client; "down" or "up": client without/with session
    promise     \* the promise returned by unjoin()

vars == <<state, link, promise>>

TypeOK ==
    /\ state \in {"Initialized", "Joined", "Unjoined"}
    /\ link \in {"none", "down", "up"}
    /\ promise \in {"none", "pending", "resolved"}

Init ==
    /\ state = "Initialized"
    /\ link = "none"
    /\ promise = "none"

\* join(): ignored when Joined, refused when Unjoined.
Join ==
    /\ state = "Initialized"
    /\ state' = "Joined"
    /\ link' = "down"
    /\ UNCHANGED promise

\* unjoin(): resolved at once unless the binding has been joined.
Unjoin ==
    /\ state # "Unjoined"
    /\ state' = "Unjoined"
    /\ promise' = IF state = "Joined" THEN "pending" ELSE "resolved"
    /\ UNCHANGED link

\* The session is established or lost, also while unjoining.
GoUp ==
    /\ link = "down"
    /\ link' = "up"
    /\ UNCHANGED <<state, promise>>

GoDown ==
    /\ link = "up"
    /\ link' = "down"
    /\ UNCHANGED <<state, promise>>

UnjoinCompletes ==
    /\ promise = "pending"
    /\ promise' = "resolved"
    /\ link' = "none"
    /\ UNCHANGED state

Next == Join \/ Unjoin \/ GoUp \/ GoDown \/ UnjoinCompletes

Spec == Init /\ [][Next]_vars
==============================================================================

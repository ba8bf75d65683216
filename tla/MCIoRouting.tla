----------------------------- MODULE MCIoRouting -----------------------------
(* Small instances of IoRouting for TLC: an agent with an IO source, and   *)
(* an agent with two IO actors.                                            *)
EXTENDS IoRouting, TLC

Source(rate, route) ==
    [valueType |-> "T", raw |-> FALSE, updateRate |-> rate, route |-> route]
Actor(type, rate) ==
    [valueType |-> type, raw |-> FALSE, updateRate |-> rate]

\* When it is restarted, the first agent is configured with an external route
\* for its source, and the second one with other update rates and an actor
\* that is not compatible any more.
SourcesOf(k) == "s1" :> Source(1, IF k = 1 THEN "created" ELSE "external")
ActorsOf(k) ==
    IF k = 1 THEN "a1" :> Actor("T", 2) @@ "a2" :> Actor("T", 3)
             ELSE "a1" :> Actor("T", NoRate) @@ "a2" :> Actor("U", 3)

\* Or the second one is configured without IO points.
WithoutPoints == [id |-> <<"B", 2>>, ioSources |-> <<>>, ioActors |-> <<>>]

MCIoNodes ==
    {[id |-> <<"A", k>>, ioSources |-> SourcesOf(k), ioActors |-> <<>>] : k \in 1 .. MaxRestarts}
    \cup
    {[id |-> <<"B", k>>, ioSources |-> <<>>, ioActors |-> ActorsOf(k)] : k \in 1 .. MaxRestarts}
    \cup {WithoutPoints}

\* A rule for any pair, in all contexts or in one of them.
AllPairs == {"s1"} \X {"a1", "a2"}
Always == "c1" :> AllPairs @@ "c2" :> AllPairs
Sometimes == "c1" :> AllPairs @@ "c2" :> {<<"s1", "a1">>}

\* Rules for any value type, and rules for one that take precedence.
MCRuleSets == {"" :> {Sometimes}, "" :> {Always} @@ "T" :> {Sometimes}}
==============================================================================

---------------------------- MODULE MCMqttBinding ----------------------------
(* Small instances of MqttBinding for TLC.                                 *)
EXTENDS MqttBinding, TLC

\* The identity and an IO node, each advertised on a topic of its own.
MCJoinEvents == <<"advIdentity", "advIoNode">>
MCTopic == "good" :> "t1" @@ "bad" :> "t2" @@ "deadvertise" :> "t3"
           @@ "advIdentity" :> "t4" @@ "advIoNode" :> "t5" @@ "badTopic" :> "t6"
MCEvents == {"good", "bad", "badTopic"}

\* Two IO nodes of one agent: both are advertised on the topic
\* coaty/3/<namespace>/ADV:IoNode/<agentId>.  With these constants the code
\* violates JoinEventsFirst.
MCJoinEventsShared == <<"advIdentity", "advIoNode1", "advIoNode2">>
MCTopicShared == "good" :> "t1" @@ "deadvertise" :> "t3" @@ "advIdentity" :> "t4"
                 @@ "advIoNode1" :> "t5" @@ "advIoNode2" :> "t5"

\* A Raw and an IoValue subscription on the same filter, one Coaty event and
\* one Raw filter that is not a valid topic.
MCSubs == {[type |-> "Raw", filter |-> "f1"], [type |-> "IoValue", filter |-> "f1"],
           [type |-> "Coaty", filter |-> "f2"], [type |-> "Raw", filter |-> "f3"]}
MCBadSubs == {[type |-> "Raw", filter |-> "f3"]}
==============================================================================

----------------------------- MODULE MqttTopics -----------------------------
(* MQTT topics (com/mqtt/mqtt-topic.ts): building topic names and filters  *)
(* of events, parsing topic names, validating and matching topics.         *)
(*                                                                         *)
(* A topic is the sequence of its levels, which are separated by "/", and  *)
(* a level is the sequence of its parts, which are separated by ":".       *)
EXTENDS Integers, Sequences, FiniteSets, SequencesExt

CONSTANTS
  IsNumeral(_),     \* a part that parseInt turns into a number
  MaxTopicBytes     \* 65535

None == <<>>        \* the value undefined in place of a level

OneWayEvents == [ADV |-> "Advertise", DAD |-> "Deadvertise", CHN |-> "Channel", ASC |-> "Associate", IOV |-> "IoValue"]
TwoWayEvents ==
  [DSC |-> "Discover", RSV |-> "Resolve", QRY |-> "Query", RTV |-> "Retrieve", UPD |-> "Update", CPL |-> "Complete",
   CLL |-> "Call", RTN |-> "Return"]
EventTypeTopicLevels == OneWayEvents @@ TwoWayEvents
EventTypes == {EventTypeTopicLevels[l] : l \in DOMAIN EventTypeTopicLevels}

IsOneWayEvent(eventType) == \E l \in DOMAIN OneWayEvents : OneWayEvents[l] = eventType
TopicLevelOf(eventType) == CHOOSE l \in DOMAIN EventTypeTopicLevels : EventTypeTopicLevels[l] = eventType

\* The level of an event type and its filter: none, or a sequence of parts.
EventLevel(eventType, eventTypeFilter) ==
  <<TopicLevelOf(eventType)>> \o (IF eventTypeFilter \in {None, <<"">>} THEN <<>> ELSE eventTypeFilter)

GetTopicName(version, namespace, eventType, eventTypeFilter, sourceId, correlationId) ==
  <<<<"coaty">>, version, namespace, EventLevel(eventType, eventTypeFilter), sourceId>>
    \o (IF IsOneWayEvent(eventType) THEN <<>> ELSE <<correlationId>>)

\* Fault: a response filter is not restricted to one request.
AnyCorrelation(correlationId) == <<"+">>

CorrelationLevel(correlationId) == IF correlationId = None THEN <<"+">> ELSE correlationId

GetTopicFilter(version, namespace, eventType, eventTypeFilter, correlationId) ==
  <<<<"coaty">>, version, IF namespace \in {None, <<"">>} THEN <<"+">> ELSE namespace,
    EventLevel(eventType, eventTypeFilter), <<"+">>>>
    \o (IF IsOneWayEvent(eventType) THEN <<>> ELSE <<CorrelationLevel(correlationId)>>)

IsCoatyTopicLike(topic) == Len(topic) > 1 /\ topic[1] = <<"coaty">>

\* Fault: the type of one-way events is not looked up.
TwoWayTypeOf(code) == IF code \in DOMAIN TwoWayEvents THEN TwoWayEvents[code] ELSE "undefined"

EventTypeOf(code) == IF code \in DOMAIN EventTypeTopicLevels THEN EventTypeTopicLevels[code] ELSE "undefined"

\* The part or level at a position, undefined if there is none.
At(s, i) == IF i <= Len(s) THEN s[i] ELSE None

\* Fault: the filter ends at the next separator.
FilterPart(level) == IF Len(level) = 1 THEN None ELSE <<level[2]>>

\* The filter is what follows the first separator, further ones included.
FilterParts(level) == IF Len(level) = 1 THEN None ELSE Tail(level)

(* The topic of a name: undefined if the name is of a Raw or external IO    *)
(* value event; a name without an event level throws.                       *)
CreateByName(topic) ==
  IF ~IsCoatyTopicLike(topic) THEN [outcome |-> "undefined"]
  ELSE IF Len(topic) < 4 THEN [outcome |-> "throws"]
  ELSE LET level == topic[4]
       IN [outcome |-> "topic",
           version |-> IF IsNumeral(topic[2][1]) THEN topic[2] ELSE <<"NaN">>,
           namespace |-> topic[3],
           eventType |-> EventTypeOf(level[1]),
           eventTypeFilter |-> FilterParts(level),
           sourceId |-> At(topic, 5),
           correlationId |-> IF At(topic, 6) = <<"">> THEN None ELSE At(topic, 6)]

-----------------------------------------------------------------------------

\* The bytes that a UTF-16 code unit counts; both halves of a surrogate pair do.
BytesOf(unit) == CASE unit = "ascii" -> 1 [] unit = "two" -> 2 [] unit = "surrogate" -> 4 [] OTHER -> 3

Utf8BytesCount(units) == FoldLeft(LAMBDA count, unit : count + BytesOf(unit), 0, units)

\* Fault: the length in code units is compared with the limit.
IsTooLongInUnits(units) == Len(units) > MaxTopicBytes

IsTooLong(units) == Len(units) * 4 > MaxTopicBytes /\ Utf8BytesCount(units) > MaxTopicBytes

\* Validity of a topic without the null character, and its code units.
IsValidTopic(topic, units, forSubscription) ==
  /\ units # <<>>
  /\ ~IsTooLong(units)
  /\ forSubscription \/ \A i \in DOMAIN topic : \A j \in DOMAIN topic[i] : topic[i][j] \notin {"+", "#"}

Single == <<"+">>
Multi == <<"#">>

\* Fault: a level that is missing in the topic matches any level of the filter.
MissingMatches(filterLevel) == TRUE

\* A missing or empty level of the topic agrees with an empty level and +.
MissingAgrees(filterLevel) == filterLevel \in {<<"">>, Single}

(* Walk along the levels of the filter, from level i on.                    *)
RECURSIVE MatchesFrom(_, _, _)
MatchesFrom(topic, filter, i) ==
  IF i > Len(filter) THEN Len(filter) = Len(topic)
  ELSE LET isMissing == At(topic, i) \in {None, <<"">>}
       IN \/ isMissing /\ MissingAgrees(filter[i]) /\ MatchesFrom(topic, filter, i + 1)
          \/ filter[i] = Multi /\ i = Len(filter)
          \/ ~isMissing /\ filter[i] \in {Single, topic[i]} /\ filter[i] # Multi /\ MatchesFrom(topic, filter, i + 1)

Matches(topic, filter) == topic # <<<<"">>>> /\ filter # <<<<"">>>> /\ MatchesFrom(topic, filter, 1)

-----------------------------------------------------------------------------
(* Matching as MQTT 3.1.1 defines it.                                       *)

RECURSIVE MqttMatches(_, _)
MqttMatches(topic, filter) ==
  \/ filter = <<Multi>>
  \/ topic = <<>> /\ filter = <<>>
  \/ /\ topic # <<>> /\ filter # <<>>
     /\ Head(filter) \in {Single, Head(topic)}
     /\ MqttMatches(Tail(topic), Tail(filter))

(* A filter whose # follows + or an empty level also matches topics that    *)
(* lack that level: a/+/# matches a.                                        *)
IsLenient(filter) ==
  /\ Len(filter) > 1 /\ filter[Len(filter)] = Multi
  /\ filter[Len(filter) - 1] \in {Single, <<"">>}
-----------------------------------------------------------------------------
(* Events of the MQTT binding (com/mqtt/mqtt-binding.ts) that are published *)
(* and subscribed, and the inbound messages dispatched as events.           *)
(*                                                                          *)
(* An event to publish or subscribe has an event type, a filter, an id of   *)
(* its source and a correlation id, None if undefined.  The filter of Raw   *)
(* and IoValue events is a topic.                                           *)

HasOwnTopic(event) == event.eventType \in {"Raw", "IoValue"}

TopicFor(version, namespace, event) ==
  IF HasOwnTopic(event) THEN event.filter
  ELSE GetTopicName(version, namespace, event.eventType, event.filter, event.sourceId, event.correlationId)

TopicFilterFor(version, namespace, event) ==
  IF HasOwnTopic(event) THEN event.filter
  ELSE GetTopicFilter(version, namespace, event.eventType, event.filter, event.correlationId)

\* The code units of topics are those of their parts, which are short here.
IsValid(topic, forSubscription) == IsValidTopic(topic, <<"ascii">>, forSubscription)

\* Fault: a Raw event is published on any valid topic.
IsPublishedAnywhere(event) == event.eventType = "Raw" => IsValid(event.filter, FALSE)

\* A Raw event on an invalid topic, or on one like those of Coaty, is ignored.
IsPublished(event) ==
  event.eventType = "Raw" => ~IsCoatyTopicLike(event.filter) /\ IsValid(event.filter, FALSE)

\* So are subscriptions for them; an IO route is no pattern, and an external one
\* is not like a Coaty topic.
IsSubscribed(event) ==
  /\ event.eventType = "Raw" => ~IsCoatyTopicLike(event.filter) /\ IsValid(event.filter, TRUE)
  /\ event.eventType = "IoValue" =>
       IsValid(event.filter, FALSE) /\ ~(event.isExternalIoRoute /\ IsCoatyTopicLike(event.filter))

ItemFor(version, namespace, event) ==
  [eventType |-> event.eventType, topicFilter |-> TopicFilterFor(version, namespace, event)]

\* The events that an inbound message is dispatched as: those of the items of Raw and
\* IO value events that match, or one Coaty event.
IsItemMatched(topicName, item) ==
  \/ item.eventType = "Raw" /\ Matches(topicName, item.topicFilter)
  \/ item.eventType = "IoValue" /\ topicName = item.topicFilter

EventLike(eventType, filter, sourceId, correlationId) ==
  [eventType |-> eventType, filter |-> filter, sourceId |-> sourceId, correlationId |-> correlationId]

DispatchMessage(topicName, items) ==
  LET topic == CreateByName(topicName)
      sourceId == IF topic.outcome = "topic" THEN topic.sourceId ELSE None
  IN IF topic.outcome = "throws" THEN {}
     ELSE IF topic.outcome = "undefined" \/ topic.eventType = "IoValue"
     THEN {EventLike(i.eventType, topicName, sourceId, i.topicFilter) : i \in {x \in items : IsItemMatched(topicName, x)}}
     ELSE {EventLike(topic.eventType, topic.eventTypeFilter, topic.sourceId, topic.correlationId)}
=============================================================================

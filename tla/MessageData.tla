----------------------------- MODULE MessageData -----------------------------
(* The pure algorithms on messages, each evaluated for one subject: values *)
(* compared, conditions and patterns matched, topics built, parsed and     *)
(* matched, event data sent and responses checked.                         *)
EXTENDS CommunicationEvents, PostgresFilters

CONSTANTS
  Values,          \* JSON values that are compared
  Scalars,         \* numbers and strings that are compared by order
  Patterns, Texts, \* patterns and the strings they are matched against
  TopicArgs,       \* events to publish, as arguments of GetTopicName
  FilterArgs,      \* events to subscribe to, as arguments of GetTopicFilter
  TopicNames, TopicFilters,
  Published,       \* events to publish
  Subscribed,      \* sets of events to subscribe to
  UnitSequences,   \* topics as sequences of code units
  SortedSources, Items,
  DbConditions,    \* conditions of filters for a database
  DbObjects,       \* objects in a database
  Conditions,      \* pairs of an operator and its operands
  ObjectTypes,     \* object types of objects that are advertised and observed
  Objects,         \* object candidates
  EventData,       \* pairs of an event type and event data candidates
  Discovers,       \* candidates of Discover event data
  Queries,         \* candidates of Query event data
  IsNumeral(_), MaxTopicBytes

Topics == INSTANCE MqttTopics

-----------------------------------------------------------------------------
\* Binary search in sorted arrays (util/binary-search.ts).  Positions are
\* those of JavaScript, from 0 on; a range that is not within the array throws
\* and is left out.

BitwiseNot(n) == -n - 1

\* Fault: the item before the middle is left out.
NextHighTwo(i) == i - 2

NextHigh(i) == i - 1

RECURSIVE SearchWithin(_, _, _, _)
SearchWithin(source, value, low, high) ==
  IF low > high THEN BitwiseNot(low)
  ELSE LET i == low + (high - low) \div 2
       IN IF source[i + 1] = value THEN i
          ELSE IF source[i + 1] < value THEN SearchWithin(source, value, i + 1, high)
               ELSE SearchWithin(source, value, low, NextHigh(i))

BinarySearch(source, value, startIndex, endIndex) == SearchWithin(source, value, startIndex, endIndex)

InsertPosition(pos) == IF pos >= 0 THEN pos ELSE BitwiseNot(pos)

\* Array.splice(pos, 0, item)
BinaryInsert(source, item) ==
  InsertAt(source, InsertPosition(BinarySearch(source, item, 0, Len(source) - 1)) + 1, item)
-----------------------------------------------------------------------------

VARIABLES subject, result

vars == <<subject, result>>

Init ==
  /\ result = [pending |-> TRUE]
  /\ \/ \E a, b \in Values : subject = [container |-> a, contained |-> b]
     \/ \E v, a, b \in Scalars : subject = [value |-> v, operand1 |-> a, operand2 |-> b]
     \/ \E p \in Patterns, t \in Texts : subject = [pattern |-> p, text |-> t]
     \/ \E p \in TopicArgs, s \in FilterArgs : subject = [published |-> p, subscribed |-> s]
     \/ \E t \in TopicNames, f \in TopicFilters : subject = [name |-> t, filter |-> f]
     \/ \E e \in Published, s \in Subscribed : subject = [event |-> e, subscriptions |-> s]
     \/ \E u \in UnitSequences : subject = [units |-> u]
     \/ \E s \in SortedSources, i \in Items : subject = [source |-> s, item |-> i]
     \/ \E v \in Values, c, d \in Conditions : subject = [property |-> v, first |-> c, second |-> d]
     \/ \E c \in DbConditions, o \in DbObjects, supportsJsonpath, embedParams \in BOOLEAN :
          subject = [conditions |-> c, stored |-> o, supportsJsonpath |-> supportsJsonpath, embedParams |-> embedParams]
     \/ \E c \in CoreTypeNames, t, u \in ObjectTypes : subject = [coreType |-> c, objectType |-> t, observed |-> u]
     \/ \E o \in Objects : subject = [object |-> o]
     \/ \E e \in EventData : subject = [type |-> e[1], data |-> e[2]]
     \/ \E d \in Discovers, o \in Objects : subject = [discover |-> d, candidate |-> o]
     \/ \E q \in Queries, o \in Objects : subject = [query |-> q, candidate |-> o]

\* The subject is evaluated by the action for subjects with this property.
Evaluates(property) == "pending" \in DOMAIN result /\ property \in DOMAIN subject /\ UNCHANGED subject

Compare ==
  /\ Evaluates("container")
  /\ result' = [equal |-> DeepEquals(subject.container, subject.contained),
                contains |-> DeepContains(subject.container, subject.contained)]

MatchOrder ==
  /\ Evaluates("operand1")
  /\ result' = [ops |-> [op \in ToSet(SubSeq(Operators, 1, 6)) |->
                          HoldsFor(subject.value, op, subject.operand1, subject.operand2)]]

MatchLike ==
  /\ Evaluates("pattern")
  /\ result' = [like |-> HoldsFor(Str(subject.text), "Like", Str(subject.pattern), Undefined)]

\* The topic an event is published on, parsed again and matched with a subscription.
Route ==
  /\ Evaluates("published")
  /\ LET p == subject.published
         s == subject.subscribed
         name == Topics!GetTopicName(p.version, p.namespace, p.eventType, p.filter, p.sourceId, p.correlationId)
     IN result' = [parsed |-> Topics!CreateByName(name),
                   routed |-> Topics!Matches(name,
                     Topics!GetTopicFilter(s.version, s.namespace, s.eventType, s.filter, s.correlationId))]

MatchTopic ==
  /\ Evaluates("name")
  /\ result' = [matches |-> Topics!Matches(subject.name, subject.filter)]

\* An event published, and the events its message is dispatched as by an agent that has
\* subscribed, if the broker delivers the message.
Version == <<"3">>
Namespace == <<"ns">>
IssuedItems ==
  {Topics!ItemFor(Version, Namespace, s) : s \in {x \in subject.subscriptions : Topics!IsSubscribed(x)}}
SentTopic == Topics!TopicFor(Version, Namespace, subject.event)
IsDelivered(item) == Topics!MqttMatches(SentTopic, item.topicFilter)

Dispatch ==
  /\ Evaluates("subscriptions")
  /\ result' = [dispatched |->
       IF Topics!IsPublished(subject.event) /\ \E i \in IssuedItems : IsDelivered(i)
       THEN Topics!DispatchMessage(SentTopic, IssuedItems) ELSE {}]

ValidateTopic ==
  /\ Evaluates("units")
  /\ result' = [valid |-> Topics!IsValidTopic(<<<<"a">>>>, subject.units, FALSE)]

Search ==
  /\ Evaluates("source")
  /\ LET last == Len(subject.source) - 1
     IN result' = [found |-> [range \in {r \in (0..last) \X (0..last) : r[1] <= r[2] + 1} \cup {<<0, last>>} |->
                               BinarySearch(subject.source, subject.item, range[1], range[2])],
                   inserted |-> BinaryInsert(subject.source, subject.item)]

\* The filter with both conditions, or the opposite of both, on a property.
FilterOf(connective, negate) ==
  LET Condition(c) == Arr(<<Str(<<"k">>), FilterOp(IF negate THEN OppositeOf(c[1]) ELSE c[1], c[2])>>)
  IN Obj("conditions" :> Obj(connective :> Arr(<<Condition(subject.first), Condition(subject.second)>>)))

MatchFilter ==
  /\ Evaluates("property")
  /\ result' = [both |-> MatchesFilter(Obj("k" :> subject.property), FilterOf("and", FALSE)),
                either |-> MatchesFilter(Obj("k" :> subject.property), FilterOf("or", TRUE))]

\* An object selected by the database, and by the same filter in memory.
SelectStored ==
  /\ Evaluates("stored")
  /\ result' = [selected |-> Selects(WhereClauseAndParams(subject.conditions, subject.supportsJsonpath, subject.embedParams),
                                    subject.stored),
                inMemory |-> MatchesFilter(subject.stored, Obj("conditions" :> subject.conditions))]

Observe ==
  /\ Evaluates("observed")
  /\ result' = [byObjectType |-> ReceivedByObjectType(subject.observed, subject.coreType, subject.objectType),
                byCoreType |-> [c \in CoreTypeNames |-> ReceivedByCoreType(c, subject.coreType, subject.objectType)]]

TransferObject ==
  /\ Evaluates("object")
  /\ result' = [sent |-> IsObject(subject.object), received |-> DeepClone(subject.object)]

TransferEvent ==
  /\ Evaluates("type")
  /\ result' = [accepted |-> IsValidEvent(subject.type, subject.data),
                created |-> CreateFrom(subject.type, Sent(subject.type, subject.data))]

AnswerDiscover ==
  /\ Evaluates("discover")
  /\ result' = [resolves |-> MayResolve(subject.discover, Obj("object" :> subject.candidate)),
                matchesDiscover |-> DiscoverMatchesObject(subject.discover, subject.candidate)]

AnswerQuery ==
  /\ Evaluates("query")
  /\ result' = [retrieves |-> MayRetrieve(subject.query, Obj("objects" :> Arr(<<subject.candidate>>))),
                matchesQuery |-> QueryMatchesObject(subject.query, subject.candidate)]

Next ==
  \/ Compare \/ MatchOrder \/ MatchLike \/ Route \/ MatchTopic \/ Dispatch \/ ValidateTopic \/ Search \/ MatchFilter
  \/ SelectStored
  \/ Observe \/ TransferObject \/ TransferEvent \/ AnswerDiscover \/ AnswerQuery

Spec == Init /\ [][Next]_vars

-----------------------------------------------------------------------------

\* The result has been evaluated and has this property.
Has(property) == property \in DOMAIN result

\* equals is structural equality: it neither overlooks a difference on some
\* level nor depends on the side on which a property is missing.
EqualsIsStructural == Has("equal") => result.equal = (subject.container = subject.contained)

\* contains finds what its documentation calls contained, and nothing else,
\* apart from an empty array, which any object contains; it throws only if
\* null is to be found in objects.
ContainsAsDocumented ==
  Has("contains") =>
    LET documented == ContainedAsDocumented(subject.container, subject.contained)
    IN /\ documented => result.contains # "false"
       /\ result.contains = "true" => documented \/ HasEmptyArray(subject.contained)

IsSameKind(a, b) == Kind(a) = Kind(b) /\ Kind(a) \in {"num", "str"}
Rank(v) == IF IsString(v) THEN Collate(v) ELSE v.num

\* For numbers and for strings, Between is the interval between its operands
\* in either order, NotBetween is its complement, and each of the other order
\* conditions is the complement of another one.
OrderConditionsAgree ==
  (Has("ops") /\ IsSameKind(subject.value, subject.operand1) /\ IsSameKind(subject.value, subject.operand2)) =>
    LET ranks == {Rank(subject.operand1), Rank(subject.operand2)}
        rank == Rank(subject.value)
    IN /\ (result.ops["Between"] = "true") <=> (\E r \in ranks : r <= rank) /\ (\E r \in ranks : rank <= r)
       /\ \A p \in OrderOpposites : result.ops[p[1]] = Negated(result.ops[p[2]])

\* A pattern matches as SQL LIKE does, escapes included, except that
\* wildcards do not match line terminators.
LikeIsSqlLike ==
  Has("like") =>
    LET sql == SqlLike(subject.text, subject.pattern)
    IN /\ result.like = "true" => sql
       /\ sql /\ "\n" \notin ToSet(subject.text) => result.like = "true"

\* An object that has the property is selected by both of two conditions
\* exactly if it is not selected by one of their opposites, and if one filter
\* fails on the object, so does the other.
FiltersHaveOpposites ==
  (Has("both") /\ subject.property # Undefined) => result.both = Negated(result.either)

\* With either version of the server, and with parameters embedded or not, a
\* database selects the objects that match the filter in memory, if its
\* conditions are portable.
ConditionsOf(conditions) ==
  CASE Kind(conditions) = "arr" -> {conditions}
    [] Property(conditions, "and") # Undefined -> ToSet(conditions.obj["and"].arr)
    [] OTHER -> ToSet(conditions.obj["or"].arr)
DatabaseAgrees ==
  (Has("selected") /\ \A c \in ConditionsOf(subject.conditions) : IsPortable(subject.stored, c, subject.supportsJsonpath)) =>
    result.selected = (result.inMemory = "true")

\* What is parsed from the topic of an event is what the topic was made of.
TopicsParsed ==
  Has("parsed") =>
    LET p == subject.published
    IN /\ result.parsed.outcome = "topic"
       /\ result.parsed.eventType = p.eventType /\ result.parsed.eventTypeFilter = p.filter
       /\ result.parsed.version = p.version /\ result.parsed.namespace = p.namespace
       /\ result.parsed.sourceId = p.sourceId
       /\ result.parsed.correlationId =
            IF Topics!IsOneWayEvent(p.eventType) THEN Topics!None ELSE p.correlationId

\* A subscription gets exactly the events of its type and filter, in its
\* namespace if it has one, and of its request if it has a correlation id.
FilterSelectsEvents ==
  Has("routed") =>
    LET p == subject.published
        s == subject.subscribed
    IN result.routed <=>
         /\ p.version = s.version /\ p.eventType = s.eventType /\ p.filter = s.filter
         /\ s.namespace \in {Topics!None, p.namespace}
         /\ Topics!IsOneWayEvent(p.eventType) \/ s.correlationId \in {Topics!None, p.correlationId}

\* A Raw or IO value event reaches all who subscribed to a matching filter,
\* and others only if their filter is lenient.
MatchesLikeMqtt ==
  Has("matches") =>
    LET mqtt == Topics!MqttMatches(subject.name, subject.filter)
    IN /\ mqtt => result.matches
       /\ result.matches => mqtt \/ Topics!IsLenient(subject.filter)

\* A message is dispatched as what it was published as.  Coaty events are dispatched
\* once, as they are; Raw events and IO values by each subscription that matches
\* their topic, but never as an event of another kind, apart from Raw observers and
\* IO actors that use the same topic.
MayBeRaw(topic) ==
  ~Topics!IsCoatyTopicLike(topic) /\ \A i \in DOMAIN topic : topic[i] \notin {Topics!Single, Topics!Multi}
DispatchedAsPublished ==
  Has("dispatched") =>
    LET e == subject.event
        own == {Topics!EventLike(i.eventType, SentTopic, e.sourceId, i.topicFilter) :
                  i \in {x \in IssuedItems : IsDelivered(x) /\ Topics!HasOwnTopic(x)}}
        asIs == Topics!EventLike(e.eventType, e.filter, e.sourceId,
                  IF Topics!IsOneWayEvent(e.eventType) THEN Topics!None ELSE e.correlationId)
    IN CASE ~Topics!HasOwnTopic(e) -> result.dispatched \subseteq {asIs}
         [] e.eventType = "Raw" -> result.dispatched = IF MayBeRaw(e.filter) THEN own ELSE {}
         [] OTHER -> result.dispatched = own

\* The UTF-8 size of code units; a surrogate pair has four bytes.
RECURSIVE Utf8Size(_)
Utf8Size(units) ==
  CASE units = <<>> -> 0
    [] units # <<>> /\ Head(units) = "surrogate" -> 4 + Utf8Size(SubSeq(units, 3, Len(units)))
    [] OTHER -> Topics!BytesOf(Head(units)) + Utf8Size(Tail(units))

\* A topic that is too long for MQTT is never valid, whatever its characters.
OversizedRejected == Has("valid") /\ Utf8Size(subject.units) > MaxTopicBytes => ~result.valid

\* A search finds an item if it is there, and else the complement of where it
\* belongs, within each range; an insertion keeps the array sorted.
SearchIsCorrect ==
  Has("found") =>
    LET s == subject.source
    IN /\ \A range \in DOMAIN result.found :
            LET pos == result.found[range]
                place == BitwiseNot(pos)
            IN IF pos >= 0 THEN pos \in range[1]..range[2] /\ s[pos + 1] = subject.item
               ELSE /\ place \in range[1]..(range[2] + 1)
                    /\ \A i \in range[1]..range[2] : IF i < place THEN s[i + 1] < subject.item ELSE s[i + 1] > subject.item
       /\ IsSorted(result.inserted, <=)
       /\ \A i \in ToSet(result.inserted) :
            Cardinality({k \in DOMAIN result.inserted : result.inserted[k] = i}) =
              Cardinality({k \in DOMAIN s : s[k] = i}) + (IF i = subject.item THEN 1 ELSE 0)

\* The object type of core objects is used for objects of its core type only.
IsOwnObjectType == IsCoreObjectType(subject.objectType) => subject.objectType[2] = subject.coreType

\* An advertised or updated object is received once by those who observe its
\* core type or its object type, and not at all by others.
ObserversGetOnce ==
  (Has("byObjectType") /\ IsOwnObjectType) =>
    /\ Cardinality(result.byObjectType) = IF subject.observed = subject.objectType THEN 1 ELSE 0
    /\ \A c \in CoreTypeNames : Cardinality(result.byCoreType[c]) = IF c = subject.coreType THEN 1 ELSE 0

\* An object that its sender takes for valid is valid for the receiver, as an
\* object of the same core type and the same type of Sensor Things.
ObjectsStayValid ==
  Has("sent") /\ result.sent =>
    /\ IsObjectOf(result.received, subject.object.obj["coreType"].str[1])
    /\ \A name \in SensorThingsNames : IsSensorThings(subject.object, name) => IsSensorThings(result.received, name)

\* Event data that is valid for the sender is valid for the receiver, which
\* gets all of it, apart from isExternalRoute.
EventsAccepted ==
  Has("accepted") /\ result.accepted =>
    /\ IsValidEvent(subject.type, result.created)
    /\ \A f \in Fields(subject.type) \ {"isExternalRoute"} :
         Property(result.created, f) = DeepClone(Property(subject.data, f))

HasEmptyId(d) == Str(<<>>) \in {Property(d, "objectId"), Property(d, "externalId")}

\* The check that keeps an agent from resolving a wrong object and the match
\* by which it finds objects to resolve agree, if no id is empty.
ResolveCheckAgrees ==
  Has("resolves") /\ ~HasEmptyId(subject.discover) => result.resolves = result.matchesDiscover

\* An object matches a query only if it may be retrieved.
QueryMatchesRetrievable == Has("retrieves") /\ result.matchesQuery => result.retrieves

\* Results are of their types, and no evaluation of valid input fails.
TypeOK ==
  /\ Has("equal") => result.equal \in BOOLEAN /\ result.contains \in Verdicts
  /\ Has("ops") => \A op \in DOMAIN result.ops : result.ops[op] \in {"true", "false"}
  /\ Has("like") => result.like \in {"true", "false"}
  /\ Has("both") => {result.both, result.either} \subseteq Verdicts
  /\ Has("parsed") => result.parsed.eventType \in Topics!EventTypes
  /\ Has("created") => Kind(result.created) = "obj"

\* Objects are compared, matched and filtered as documented for the operations
\* of object filters.
ConditionsAsDocumented ==
  /\ TypeOK
  /\ EqualsIsStructural
  /\ ContainsAsDocumented
  /\ OrderConditionsAgree
  /\ LikeIsSqlLike
  /\ FiltersHaveOpposites
  /\ DatabaseAgrees

\* Events are received on the topics they are published on, by the observers
\* they are meant for.
TopicsAsPublished ==
  /\ TopicsParsed
  /\ FilterSelectsEvents
  /\ MatchesLikeMqtt
  /\ DispatchedAsPublished
  /\ OversizedRejected

\* What a sender takes for valid is valid for receivers and reaches those that
\* observe it once.
EventsStayValid ==
  /\ ObjectsStayValid
  /\ EventsAccepted
  /\ ObserversGetOnce
  /\ ResolveCheckAgrees

=============================================================================

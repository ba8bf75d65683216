---------------------------- MODULE MCMessageData ----------------------------
\* Values for MessageData: small values, strings, topics and objects.
EXTENDS MessageData

S(s) == Str(<<s>>)

\* Strings in the order of the collator and in that of their code units.
CollatorOrder == <<Str(<<>>), S("a"), S("B"), S("b")>>
CodeUnitOrder == <<Str(<<>>), S("B"), S("a"), S("b")>>
MCCollate(s) == SelectInSeq(CollatorOrder, LAMBDA x : x = s)
MCCodeUnits(s) == SelectInSeq(CodeUnitOrder, LAMBDA x : x = s)
MCIsNumeral(part) == part = "3"

UpTo(set, n) == UNION {[1..m -> set] : m \in 0..n}

Primitives == {Num(1), Num(2), S("a"), Null}
Flat(vs) == {Arr(s) : s \in UpTo(vs, 2)} \cup {Obj(f) : f \in UNION {[K -> vs] : K \in SUBSET {"k", "l"}}}
Few == {Num(1), Null, Arr(<<>>), Arr(<<Num(1)>>), Arr(<<Num(2), Num(1)>>), Obj("k" :> Num(1)), Obj("k" :> Num(1) @@ "l" :> Null)}
MCValues == Primitives \cup {Undefined} \cup Flat({Num(1), Num(2), Null}) \cup Flat(Few)

MCScalars == {Num(n) : n \in 0..3} \cup ToSet(CollatorOrder) \cup {Null, Bool(TRUE)}
MCPatterns == UpTo({"a", "%", "_", "\\"}, 3)
MCTexts == UpTo({"a", "%", "\\", "\n"}, 3)

Filters == {<<>>, <<"f">>, <<"", "f">>, <<"f", "g">>}
Types == {"Advertise", "Associate", "Discover", "Resolve"}
MCTopicArgs ==
  [version : {<<"3">>}, namespace : {<<"-">>, <<"ns">>}, eventType : Types, filter : Filters,
   sourceId : {<<"s">>}, correlationId : {<<"c1">>, <<"c2">>}]
MCFilterArgs ==
  [version : {<<"3">>}, namespace : {<<>>, <<"-">>, <<"ns">>}, eventType : Types, filter : Filters,
   correlationId : {<<>>, <<"c1">>, <<"c2">>}]
Levels == {<<"a">>, <<"b">>, <<"">>}
MCTopicNames == UpTo(Levels, 3) \ {<<>>, <<<<"">>>>}
MCTopicFilters ==
  LET plain == UpTo(Levels \cup {<<"+">>}, 3)
  IN (plain \cup {Append(f, <<"#">>) : f \in plain}) \ {<<>>, <<<<"">>>>}
\* Raw events and external IO values on topics of up to three levels, some of them like
\* those of Coaty, an internal IO value, and two Coaty events; up to two subscriptions.
Event(type, filter, sourceId, correlationId, isExternal) ==
  [eventType |-> type, filter |-> filter, sourceId |-> sourceId, correlationId |-> correlationId,
   isExternalIoRoute |-> isExternal]
OwnTopics == {<<<<"a">>>>, <<<<"a">>, <<"b">>>>, <<<<"coaty">>>>, <<<<"coaty">>, <<"b">>>>}
CoatyTopic == <<<<"coaty">>, <<"3">>, <<"ns">>, <<"CHN", "f">>, <<"s">>>>
InternalRoute == <<<<"coaty">>, <<"3">>, <<"ns">>, <<"IOV">>, <<"s">>>>
Patterned == {<<<<"+">>>>, <<<<"+">>, <<"b">>>>, <<<<"#">>>>, <<<<"a">>, <<"#">>>>, <<<<"coaty">>, <<"#">>>>}
InternalValue == Event("IoValue", InternalRoute, <<"s">>, <<>>, FALSE)
ChannelEvent == Event("Channel", <<"f">>, <<"s">>, <<>>, FALSE)
DiscoverEvent == Event("Discover", <<>>, <<"s">>, <<"c">>, FALSE)
MCPublished ==
  {Event("Raw", t, <<>>, <<>>, FALSE) : t \in OwnTopics \cup Patterned \cup {CoatyTopic, InternalRoute}}
  \cup {Event("IoValue", t, <<>>, <<>>, TRUE) : t \in {u \in OwnTopics : u[1] # <<"coaty">>}}
  \cup {InternalValue, ChannelEvent, DiscoverEvent}
Observing ==
  {Event("Raw", t, <<>>, <<>>, FALSE) : t \in OwnTopics \cup Patterned \cup {CoatyTopic}}
  \cup {Event("IoValue", t, <<>>, <<>>, TRUE) : t \in OwnTopics}
  \cup {InternalValue, ChannelEvent, [DiscoverEvent EXCEPT !.correlationId = <<>>]}
MCSubscribed == {{s, t} : s, t \in Observing}
MCUnitSequences ==
  {FlattenSeq(s) : s \in UpTo({<<"ascii">>, <<"two">>, <<"three">>, <<"surrogate", "surrogate">>}, 4)}

MCSortedSources == {s \in UpTo(0..3, 5) : IsSorted(s, <=)}
MCItems == -1..4

MCConditions ==
  {<<op, <<v>>>> : op \in {"Equals", "NotEquals", "Contains", "NotContains", "In", "NotIn"},
                  v \in {Null, Num(1), Arr(<<>>), Arr(<<Num(1)>>), Obj("k" :> Num(1))}}
  \cup {<<op, <<>>>> : op \in {"Exists", "NotExists", "In", "NotIn"}}

\* Conditions on property k, and on l within k, of stored objects, one or two in a filter.
DbValues == {Null, Num(0), Num(1), Num(2), S("a"), S("B"), Str(<<>>), Arr(<<>>), Arr(<<Num(1)>>), Arr(<<Num(2), Num(1)>>),
             Obj("l" :> Num(1)), Obj("l" :> Arr(<<S("a")>>)), Arr(<<Obj("l" :> Num(1))>>)}
DbOperands == DbValues \ {Arr(<<Num(2), Num(1)>>), Num(0)}
DbOrdered == {Num(0), Num(1), Num(2), S("a"), S("B")}
On(prop, op, operands) == Arr(<<Str(prop), FilterOp(op, operands)>>)
DbExpressions ==
  ({"Equals", "NotEquals", "Contains", "NotContains"} \X {<<v>> : v \in DbOperands})
  \cup ({"Equals", "NotEquals"} \X {<<Undefined>>}) \cup ({"Exists", "NotExists"} \X {<<>>})
  \cup ({"In", "NotIn"} \X {<<Arr(<<>>)>>, <<Arr(<<Num(1), Null>>)>>, <<Arr(<<Arr(<<Num(1)>>), S("a")>>)>>})
  \cup ({"Like"} \X {<<Str(<<"a">>)>>, <<Str(<<"%">>)>>, <<Str(<<"_">>)>>, <<Str(<<"\\", "_">>)>>})
  \cup ({"LessThan", "LessThanOrEqual", "GreaterThan", "GreaterThanOrEqual"} \X {<<v>> : v \in DbOrdered})
  \cup ({"Between", "NotBetween"} \X {<<v, w>> : v, w \in DbOrdered})
DbPairs ==
  {On(prop, e[1], e[2]) : prop \in {<<"k">>, <<"m">>},
     e \in ({"Equals", "NotContains"} \X {<<Num(1)>>, <<Obj("l" :> Num(1))>>})
           \cup {<<"Between", <<Num(2), Num(1)>>>>, <<"In", <<Arr(<<Num(1), Null>>)>>>>, <<"LessThan", <<S("B")>>>>, <<"NotExists", <<>>>>}}
MCDbConditions ==
  {On(prop, e[1], e[2]) : prop \in {<<"k">>, <<"k", "l">>, <<"k", "a">>}, e \in DbExpressions}
  \cup {Obj(f :> Arr(<<c, d>>)) : f \in {"and", "or"}, c, d \in DbPairs}
MCDbObjects ==
  {Obj([p \in {} |-> Null])} \cup {Obj("k" :> v) : v \in DbValues} \cup {Obj("k" :> Num(1) @@ "m" :> v) : v \in {Num(2), Obj("l" :> Num(1))}}

MCObjectTypes == {GetObjectTypeFor(c) : c \in CoreTypeNames} \cup {<<"t">>, <<"Task">>, <<"coaty.">>, <<"coaty.", "t">>}

-----------------------------------------------------------------------------
\* Objects: for each core type one with its mandatory properties only and one
\* with all of them, each also with one property spoiled or undefined.

RECURSIVE Sample(_)
Sample(check) ==
  LET Made(type) == Obj([p \in DOMAIN type.must |-> Sample(type.must[p])])
      Full(type) == Obj([p \in DOMAIN type.must |-> Sample(type.must[p])] @@ [p \in DOMAIN type.may |-> Sample(type.may[p])])
      Of(coreType) ==
        Obj([p \in DOMAIN Checks(coreType).must |-> Sample(Checks(coreType).must[p])]
            @@ ("coreType" :> S(coreType)) @@ [p \in DOMAIN Base.must |-> S("t")])
  IN CASE check \in {"string", "text"} -> S("t")
       [] check = "any" -> Null
       [] check = "texts" -> Arr(<<S("t")>>)
       [] check \in {"number", "timestamp", "natural"} -> Num(1)
       [] check \in {"annotationType", "annotationStatus", "taskStatus", "updateStrategy"} -> Num(0)
       [] check = "logLevel" -> Num(20)
       [] check = "boolean" -> Bool(FALSE)
       [] check = "plain" -> Obj("k" :> Undefined)
       [] check = "array" -> Arr(<<Undefined>>)
       [] check = "coreType" -> S("Identity")
       [] check = "object" -> Of("Task")
       [] check = "names" -> Obj("familyName" :> S("t") @@ "givenName" :> S("t"))
       [] check = "attributes" -> Arr(<<Full(ScimAttribute)>>)
       [] check = "addresses" -> Arr(<<Full(ScimAddress)>>)
       [] check = "variants" -> Arr(<<Made(AnnotationVariant)>>)
       [] check = "ioSources" -> Arr(<<Of("IoSource")>>)
       [] check = "ioActors" -> Arr(<<Of("IoActor")>>)
       [] check = "logHost" -> Full(LogHost)
       [] check = "agentInfo" -> Full(AgentInfo)
       [] check = "packageInfo" -> Full(PackageInfo)
       [] check = "buildInfo" -> Full(BuildInfo)
       [] check = "configInfo" -> Full(ConfigInfo)
       [] check = "geoLocation" -> Full(GeoLocation)
       [] check = "coords" -> Full(Coords)
       [] check = "unitOfMeasurement" -> Full(UnitOfMeasurement)
       [] check = "observedProperty" -> Made(ObservedProperty)
       [] check = "interval" -> Obj("duration" :> Num(1) @@ "end" :> Num(2))

Object(coreType, objectType, full) ==
  LET type == Checks(coreType)
      must == type.must @@ Base.must
      may == IF full THEN type.may @@ Base.may ELSE NoProps
      own == "coreType" :> S(coreType) @@ "objectType" :> S(objectType)
  IN Obj(own @@ [p \in DOMAIN must |-> Sample(must[p])] @@ [p \in DOMAIN may |-> Sample(may[p])])

\* Sensor Things objects: of core type CoatyObject, with an object type each.
ThingObject(name, full) ==
  LET type == SensorThingsChecks(name)
      base == Object("CoatyObject", name, FALSE)
  IN Obj([p \in DOMAIN type.must |-> Sample(type.must[p])]
         @@ [p \in IF full THEN DOMAIN type.may ELSE {} |-> Sample(type.may[p])] @@ base.obj)

Spoiled(o) == {Obj([o.obj EXCEPT ![p] = v]) : p \in DOMAIN o.obj \ {"coreType"}, v \in {Undefined, Null, Str(<<>>)}}

MCObjects ==
  LET base == {Object(c, "t", full) : c \in CoreTypeNames, full \in BOOLEAN}
              \cup {ThingObject(n, full) : n \in SensorThingsNames, full \in BOOLEAN}
  IN base \cup UNION {Spoiled(o) : o \in base} \cup {Object("Task", "u", FALSE), Object("toString", "t", FALSE)}

Few_Objects ==
  {Undefined, Object("Task", "u", FALSE), Object("Log", "t", TRUE), Object("Task", "+", FALSE), Obj("name" :> S("t"))}
Arrays == {Undefined, Arr(<<>>)} \cup {Arr(<<o>>) : o \in Few_Objects}
PrivateData == {Undefined, Null, Obj("k" :> Undefined @@ "l" :> Arr(<<Undefined>>))}
TypeLists(t) == {Undefined, Arr(<<>>), Arr(<<S(t)>>), Arr(<<S("toString"), S(t)>>), Arr(<<Str(<<>>)>>)}
Ids == {Undefined, Str(<<>>), S("t"), S("v")}

MCDiscovers ==
  {Obj("externalId" :> e @@ "objectId" :> i @@ "objectTypes" :> o @@ "coreTypes" :> c) :
     e \in Ids, i \in Ids, o \in TypeLists("t"), c \in TypeLists("Task")}
MCObjectFilters ==
  LET cond == Arr(<<Str(<<"name">>), FilterOp("Equals", <<S("t")>>)>>)
      other == Arr(<<Arr(<<S("k"), S("l")>>), FilterOp("In", <<Arr(<<Num(1)>>)>>)>>)
      bad == Arr(<<Str(<<>>), FilterOp("Exists", <<>>)>>)
      Conds == {cond, other, bad, Obj("and" :> Arr(<<cond, other>>)), Obj("or" :> Arr(<<cond, other>>)),
                Obj("or" :> Arr(<<bad>>)), Obj("and" :> Arr(<<cond>>) @@ "or" :> Arr(<<cond>>))}
  IN {Undefined, Null} \cup {Obj("conditions" :> c) : c \in Conds}
     \cup {Obj("conditions" :> cond @@ "take" :> t @@ "orderByProperties" :>
                Arr(<<Arr(<<S("name"), d>>)>>)) : t \in {Num(1), S("t")}, d \in {S("Asc"), S("t")}}
Joins == {Undefined, Null, Obj("localProperty" :> S("t") @@ "asProperty" :> S("t")), Arr(<<Obj("asProperty" :> S("t"))>>)}
MCQueries ==
  {Obj("objectTypes" :> o @@ "coreTypes" :> c @@ "objectFilter" :> f @@ "objectJoinConditions" :> j) :
     o \in TypeLists("t"), c \in TypeLists("Task"), f \in MCObjectFilters, j \in Joins}

MCValidDiscovers == {d \in MCDiscovers : IsValidDiscover(d)}
MCValidQueries == {q \in MCQueries : IsValidQuery(q) /\ Property(q, "objectJoinConditions") = Undefined}

With1(f, vs) == {Obj(f :> v) : v \in vs}
With2(f, vs, g, ws) == {Obj(f :> v @@ g :> w) : v \in vs, w \in ws}
With3(f, vs, g, ws, h, xs) == {Obj(f :> v @@ g :> w @@ h :> x) : v \in vs, w \in ws, x \in xs}

MCEventData ==
  ({"Discover"} \X MCDiscovers) \cup ({"Query"} \X MCQueries)
  \cup ({"Resolve"} \X With3("object", Few_Objects, "relatedObjects", Arrays, "privateData", PrivateData))
  \cup ({"Channel"} \X With3("object", Few_Objects, "objects", Arrays, "privateData", PrivateData))
  \cup ({"Retrieve"} \X With2("objects", Arrays, "privateData", PrivateData))
  \cup ({"Complete", "Advertise"} \X With2("object", Few_Objects, "privateData", PrivateData))
  \cup ({"Update"} \X With1("object", Few_Objects))
  \cup ({"Call"} \X With2("parameters", PrivateData \cup {Arr(<<Num(1), Undefined>>)}, "filter", MCObjectFilters))
  \cup ({"Return"} \X With3("result", PrivateData, "error", PrivateData \cup {Obj("code" :> Num(1) @@ "message" :> S("t"))},
                            "executionInfo", PrivateData))
  \cup ({"Deadvertise"} \X With1("objectIds", TypeLists("t")))
  \cup ({"Associate"} \X {Obj("ioSourceId" :> s @@ "ioActorId" :> a @@ "associatingRoute" :> r @@ "isExternalRoute" :> x @@ "updateRate" :> u) :
          s \in Ids, a \in Ids, r \in Ids, x \in {Undefined, Bool(TRUE)}, u \in {Undefined, Num(0), S("t")}})
=============================================================================

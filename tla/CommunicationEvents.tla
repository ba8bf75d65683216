------------------------- MODULE CommunicationEvents -------------------------
(* The data of communication events (com/*.ts): validation by both ends,   *)
(* conversion to and from JSON, and the checks that relate a response to   *)
(* its request.  Event data is an object value with the properties of its  *)
(* class; its type is the name of the class without EventData.             *)
EXTENDS CoreTypes, ObjectMatcher

IllegalFilterParts == {"+", "#", "/"}
IsValidEventFilter(v) == IsNonEmptyString(v) /\ \A i \in DOMAIN v.str : v.str[i] \notin IllegalFilterParts

IsValidPrivateData(v) == v = Undefined \/ IsPlainObject(v)

AreExclusiveTypes(objectTypes, coreTypes) ==
  \/ objectTypes = Undefined /\ IsCoreTypeArray(coreTypes)
  \/ coreTypes = Undefined /\ IsStringArray(objectTypes)

IsValidDiscover(d) ==
  LET externalId == Property(d, "externalId")
      objectId == Property(d, "objectId")
      objectTypes == Property(d, "objectTypes")
      coreTypes == Property(d, "coreTypes")
  IN \/ /\ IsString(objectId) /\ (externalId = Undefined \/ IsString(externalId))
        /\ objectTypes = Undefined /\ coreTypes = Undefined
     \/ /\ IsString(externalId) /\ objectId = Undefined
        /\ objectTypes = Undefined \/ IsStringArray(objectTypes)
        /\ coreTypes = Undefined \/ IsCoreTypeArray(coreTypes)
     \/ objectId = Undefined /\ externalId = Undefined /\ AreExclusiveTypes(objectTypes, coreTypes)

IsValidResolve(d) ==
  LET object == Property(d, "object")
      relatedObjects == Property(d, "relatedObjects")
  IN /\ IsValidPrivateData(Property(d, "privateData"))
     /\ \/ relatedObjects = Undefined /\ IsObject(object)
        \/ (object = Undefined \/ IsObject(object)) /\ IsObjectArray(relatedObjects)

IsValidQuery(d) ==
  /\ IsObjectFilterValid(Property(d, "objectFilter"))
  /\ AreObjectJoinConditionsValid(Property(d, "objectJoinConditions"))
  /\ AreExclusiveTypes(Property(d, "objectTypes"), Property(d, "coreTypes"))

IsValidRetrieve(d) == IsValidPrivateData(Property(d, "privateData")) /\ IsObjectArray(Property(d, "objects"))

IsValidUpdate(d) == IsObject(Property(d, "object"))

\* Complete and Advertise event data.
IsValidComplete(d) == IsObject(Property(d, "object")) /\ IsValidPrivateData(Property(d, "privateData"))

IsValidCall(d) ==
  /\ Kind(Property(d, "parameters")) \in {"undef", "arr", "obj"}
  /\ IsContextFilterValid(Property(d, "filter"))

IsValidReturn(d) ==
  LET error == Property(d, "error")
  IN /\ (Property(d, "result") = Undefined) # (error = Undefined)
     /\ error # Undefined =>
          IsPlainObject(error) /\ Property(error, "code") # Undefined /\ Property(error, "message") # Undefined

IsValidDeadvertise(d) == IsStringArray(Property(d, "objectIds"))

IsValidChannel(d) ==
  LET object == Property(d, "object")
      objects == Property(d, "objects")
  IN /\ IsValidPrivateData(Property(d, "privateData"))
     /\ (objects = Undefined /\ IsObject(object)) \/ (object = Undefined /\ IsObjectArray(objects))

IsValidAssociate(d) ==
  /\ IsNonEmptyString(Property(d, "ioSourceId")) /\ IsNonEmptyString(Property(d, "ioActorId"))
  /\ Property(d, "associatingRoute") = Undefined \/ IsNonEmptyString(Property(d, "associatingRoute"))
  /\ Kind(Property(d, "updateRate")) \in {"undef", "num"}

HasValidParameters(type, d) ==
  CASE type = "Discover" -> IsValidDiscover(d) [] type = "Resolve" -> IsValidResolve(d)
    [] type = "Query" -> IsValidQuery(d) [] type = "Retrieve" -> IsValidRetrieve(d)
    [] type = "Update" -> IsValidUpdate(d) [] type = "Complete" -> IsValidComplete(d)
    [] type = "Call" -> IsValidCall(d) [] type = "Return" -> IsValidReturn(d)
    [] type = "Advertise" -> IsValidComplete(d) [] type = "Deadvertise" -> IsValidDeadvertise(d)
    [] type = "Channel" -> IsValidChannel(d) [] type = "Associate" -> IsValidAssociate(d)

\* Events on a topic named by the type of their object check it as a filter.
HasValidEventFilter(type, d) ==
  type \in {"Advertise", "Update"} => IsValidEventFilter(Property(Property(d, "object"), "objectType"))

IsValidEvent(type, d) == HasValidParameters(type, d) /\ HasValidEventFilter(type, d)

\* IO values are raw exactly if their source says so.
IsValidIoValue(isRaw, ioSource) == isRaw = (Property(ioSource, "useRawIoValues") = Bool(TRUE))

-----------------------------------------------------------------------------
(* Conversion.                                                              *)

DiscoverFields == {"externalId", "objectId", "objectTypes", "coreTypes"}
ResolveFields == {"object", "relatedObjects", "privateData"}
QueryFields == {"objectTypes", "coreTypes", "objectFilter", "objectJoinConditions"}
RetrieveFields == {"objects", "privateData"}
UpdateFields == {"object"}
CompleteFields == {"object", "privateData"}
AdvertiseFields == CompleteFields
CallFields == {"parameters", "filter"}
ReturnFields == {"result", "error", "executionInfo"}
DeadvertiseFields == {"objectIds"}
ChannelFields == {"object", "objects", "privateData"}
AssociateFields == {"ioSourceId", "ioActorId", "associatingRoute", "isExternalRoute", "updateRate"}

Fields(type) ==
  CASE type = "Discover" -> DiscoverFields [] type = "Resolve" -> ResolveFields
    [] type = "Query" -> QueryFields [] type = "Retrieve" -> RetrieveFields
    [] type = "Update" -> UpdateFields [] type = "Complete" -> CompleteFields
    [] type = "Call" -> CallFields [] type = "Return" -> ReturnFields
    [] type = "Advertise" -> AdvertiseFields [] type = "Deadvertise" -> DeadvertiseFields
    [] type = "Channel" -> ChannelFields [] type = "Associate" -> AssociateFields

\* Fault: objects to be resolved by type are asked for without the types.
JsonFieldsUntyped(type) == Fields(type) \ {"isExternalRoute", "objectTypes"}

\* Associate events do not tell whether their route is external.
JsonFields(type) == Fields(type) \ {"isExternalRoute"}

\* What arrives of event data that is sent as JSON.
Sent(type, d) == DeepClone(Obj([f \in JsonFields(type) |-> Property(d, f)]))

CreateFrom(type, json) == Obj([f \in Fields(type) |-> Property(json, f)])

-----------------------------------------------------------------------------
(* Event filters of Advertise and Update events: a core type, or an object  *)
(* type after a separator, by which other types are distinguished.  The     *)
(* object type of core objects is a string of two chunks.                   *)

GetObjectTypeFor(coreType) == <<"coaty.", coreType>>
IsCoreObjectType(objectType) == Len(objectType) = 2 /\ objectType[1] = "coaty." /\ objectType[2] \in CoreTypeNames
ObjectTypeFilter(objectType) == <<"">> \o objectType

\* publishAdvertise, publishUpdate: one event for each filter.
PublicationFilters(coreType, objectType) ==
  {<<coreType>>} \cup (IF GetObjectTypeFor(coreType) = objectType THEN {} ELSE {ObjectTypeFilter(objectType)})

\* Fault: core objects are observed by their object type like others.
ObservedByObjectType(objectType) == ObjectTypeFilter(objectType)

\* The filter subscribed to observe an object type: core objects are observed
\* by their core type.
ObservedFilter(objectType) == IF IsCoreObjectType(objectType) THEN <<objectType[2]>> ELSE ObjectTypeFilter(objectType)

\* The events that an observer of an object type gets of an object.
ReceivedByObjectType(observed, coreType, objectType) ==
  {f \in PublicationFilters(coreType, objectType) :
     f = ObservedFilter(observed) /\ (IsCoreObjectType(observed) => objectType = observed)}

ReceivedByCoreType(observed, coreType, objectType) == PublicationFilters(coreType, objectType) \cap {<<observed>>}

-----------------------------------------------------------------------------
(* Requests and responses.                                                  *)

IsOneOf(types, v) == Kind(types) = "arr" /\ v \in ToSet(types.arr)

\* Fault: an object is accepted if it is of a requested core or object type.
AcceptsTypesEither(d, object) ==
  \/ IsOneOf(Property(d, "coreTypes"), Property(object, "coreType"))
  \/ IsOneOf(Property(d, "objectTypes"), Property(object, "objectType"))

AcceptsTypes(d, object) ==
  /\ Property(d, "coreTypes") = Undefined \/ IsOneOf(Property(d, "coreTypes"), Property(object, "coreType"))
  /\ Property(d, "objectTypes") = Undefined \/ IsOneOf(Property(d, "objectTypes"), Property(object, "objectType"))

\* An id that is asked for; the empty string counts as none.
AcceptsId(d, object, id) == ~IsNonEmptyString(Property(d, id)) \/ Property(object, id) = Property(d, id)

MayResolve(d, response) ==
  LET object == Property(response, "object")
  IN object # Undefined =>
       AcceptsTypes(d, object) /\ AcceptsId(d, object, "objectId") /\ AcceptsId(d, object, "externalId")
MayRetrieve(d, response) == \A i \in DOMAIN response.obj["objects"].arr : AcceptsTypes(d, response.obj["objects"].arr[i])
MayComplete(d, response) ==
  Property(Property(d, "object"), "objectId") = Property(Property(response, "object"), "objectId")

DiscoverMatchesObject(d, object) ==
  /\ \A id \in {"objectId", "externalId"} : Property(d, id) = Undefined \/ Property(object, id) = Property(d, id)
  /\ \A t \in {<<"coreTypes", "coreType">>, <<"objectTypes", "objectType">>} :
       Property(d, t[1]) = Undefined \/ IsOneOf(Property(d, t[1]), Property(object, t[2]))

\* The result of matching the filter, for one that does not throw.
QueryMatchesObject(d, object) ==
  \/ Property(d, "coreTypes") = Undefined \/ IsOneOf(Property(d, "coreTypes"), Property(object, "coreType"))
  \/ Property(d, "objectTypes") = Undefined \/ IsOneOf(Property(d, "objectTypes"), Property(object, "objectType"))
  \/ MatchesFilter(object, Property(d, "objectFilter")) = "true"

\* Whether a call is answered in the given context: an object, or undefined.
CallMatchesFilter(d, context) ==
  IF context = Undefined THEN "true"
  ELSE IF Property(d, "filter") = Undefined THEN "false" ELSE MatchesFilter(context, Property(d, "filter"))

GetParameterByIndex(d, index) ==
  LET p == Property(d, "parameters")
  IN IF Kind(p) = "arr" /\ index \in DOMAIN p.arr THEN p.arr[index] ELSE Undefined
GetParameterByName(d, name) ==
  LET p == Property(d, "parameters")
  IN IF IsPlainObject(p) THEN Property(p, name) ELSE Undefined
=============================================================================

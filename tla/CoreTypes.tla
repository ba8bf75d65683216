------------------------------ MODULE CoreTypes ------------------------------
(* Type checks of Coaty objects (model/types.ts), of Sensor Things objects *)
(* (sensor-things/types.ts) and of time intervals (util/date.ts), which    *)
(* every event runs on the objects it is made of, on both ends.            *)
(*                                                                         *)
(* A type is described by the checks of its mandatory and of its optional  *)
(* properties; a check is named by what it accepts.                        *)
EXTENDS JsonValues

CoreTypeNames ==
  {"CoatyObject", "User", "Annotation", "Task", "IoContext", "IoNode", "IoSource", "IoActor", "Identity", "Log",
   "Location", "Snapshot"}

\* Names that a JavaScript object literal inherits: a lookup finds them as well.
InheritedNames == {"constructor", "toString", "valueOf"}

IsCoreType(s) == Len(s) = 1 /\ s[1] \in CoreTypeNames \cup InheritedNames

IsStringArray(v) == Kind(v) = "arr" /\ \A i \in DOMAIN v.arr : IsNonEmptyString(v.arr[i])
IsCoreTypeArray(v) == IsStringArray(v) /\ \A i \in DOMAIN v.arr : IsCoreType(v.arr[i].str)

IsNatural(v) == Kind(v) = "num" /\ v.num >= 0

IsValidTimeInterval(v) ==
  LET start == Property(v, "start")
      end == Property(v, "end")
      duration == Property(v, "duration")
  IN IF duration = Undefined THEN IsNatural(start) /\ IsNatural(end)
     ELSE /\ IsNatural(duration)
          /\ IF start = Undefined THEN end = Undefined \/ IsNatural(end) ELSE end = Undefined /\ IsNatural(start)

\* Arrays are objects without these properties.
IsTimeInterval(v) == Kind(v) = "obj" /\ IsValidTimeInterval(v)

-----------------------------------------------------------------------------

NoProps == [p \in {} |-> "string"]
All(props, check) == [p \in props |-> check]

ScimNames ==
  [must |-> NoProps,
   may |-> "formatted" :> "text" @@ All({"familyName", "givenName", "middleName", "honorificPrefix", "honorificSuffix"}, "string")]
ScimAttribute == [must |-> All({"type", "value"}, "string"), may |-> "primary" :> "boolean" @@ "display" :> "string"]
ScimAddress ==
  [must |-> ScimAttribute.must,
   may |-> ScimAttribute.may @@ All({"formatted", "streetAddress", "locality", "region", "postalCode", "country"}, "string")]
AnnotationVariant == [must |-> "variant" :> "text" @@ "downloadUrl" :> "string", may |-> NoProps]
LogHost ==
  [must |-> NoProps, may |-> "agentInfo" :> "agentInfo" @@ "pid" :> "number" @@ All({"hostname", "userAgent"}, "string")]
AgentInfo == [must |-> "packageInfo" :> "packageInfo" @@ "buildInfo" :> "buildInfo" @@ "configInfo" :> "configInfo", may |-> NoProps]
PackageInfo == [must |-> All({"name", "version"}, "string"), may |-> NoProps]
BuildInfo == [must |-> All({"buildDate", "buildMode"}, "string"), may |-> NoProps]
ConfigInfo == [must |-> "serviceHost" :> "string", may |-> NoProps]
GeoLocation == [must |-> "timestamp" :> "number" @@ "coords" :> "coords", may |-> NoProps]
Coords ==
  [must |-> All({"latitude", "longitude", "accuracy"}, "number"),
   may |-> All({"altitude", "altitudeAccuracy", "heading", "speed"}, "number")]
UnitOfMeasurement == [must |-> NoProps, may |-> All({"name", "symbol", "definition"}, "string")]
ObservedProperty == [must |-> "name" :> "text" @@ All({"definition", "description"}, "string"), may |-> NoProps]

Base ==
  [must |-> "name" :> "string" @@ "objectType" :> "text" @@ "coreType" :> "coreType" @@ "objectId" :> "text",
   may |-> All({"parentObjectId", "externalId", "locationId"}, "text") @@ "isDeactivated" :> "boolean"]

User ==
  [must |-> "names" :> "names",
   may |-> All({"displayName", "nickName", "title", "userType", "preferredLanguage", "locale", "timezone", "password"}, "string")
     @@ "active" :> "boolean"
     @@ All({"emails", "phoneNumbers", "ims", "photos", "groups"}, "attributes")
     @@ "addresses" :> "addresses" @@ "entitlements" :> "array" @@ All({"roles", "x509Certificates"}, "texts")]
IoNode == [must |-> NoProps, may |-> "ioSources" :> "ioSources" @@ "ioActors" :> "ioActors" @@ "characteristics" :> "plain"]
Annotation ==
  [must |-> "type" :> "annotationType" @@ "creatorId" :> "text" @@ "creationTimestamp" :> "number" @@ "status" :> "annotationStatus",
   may |-> "variants" :> "variants"]
Task ==
  [must |-> "creatorId" :> "text" @@ "creationTimestamp" :> "number" @@ "status" :> "taskStatus",
   may |-> All({"startTimestamp", "duration"}, "number") @@ "requirements" :> "plain" @@ "description" :> "string"
     @@ "assigneeObjectId" :> "text"]
IoActor ==
  [must |-> "valueType" :> "text",
   may |-> "externalRoute" :> "string" @@ "updateRate" :> "natural" @@ "useRawIoValues" :> "boolean"]
IoSource == [must |-> IoActor.must, may |-> IoActor.may @@ "updateStrategy" :> "updateStrategy"]
Log ==
  [must |-> "logLevel" :> "logLevel" @@ "logMessage" :> "string" @@ "logDate" :> "string",
   may |-> "logTags" :> "texts" @@ "logLabels" :> "plain" @@ "logHost" :> "logHost"]
Location == [must |-> "geoLocation" :> "geoLocation", may |-> NoProps]
Snapshot ==
  [must |-> "parentObjectId" :> "text" @@ "creationTimestamp" :> "timestamp" @@ "creatorId" :> "text" @@ "object" :> "object",
   may |-> "tags" :> "texts"]
Plain == [must |-> NoProps, may |-> NoProps]

Sensor ==
  [must |-> All({"description", "encodingType", "observationType"}, "string") @@ "metadata" :> "any"
     @@ "unitOfMeasurement" :> "unitOfMeasurement" @@ "observedProperty" :> "observedProperty",
   may |-> "observedArea" :> "plain" @@ All({"phenomenonTime", "resultTime"}, "interval")]
FeatureOfInterest == [must |-> All({"description", "encodingType"}, "string") @@ "metadata" :> "any", may |-> NoProps]
Observation ==
  [must |-> All({"phenomenonTime", "resultTime"}, "natural") @@ "result" :> "any",
   may |-> "resultQuality" :> "texts" @@ "validTime" :> "interval" @@ "parameters" :> "plain" @@ "featureOfInterestId" :> "text"]
Thing == [must |-> "description" :> "string", may |-> "properties" :> "plain" @@ "locations" :> "texts"]

\* What a core type demands beyond Base.
Checks(coreType) ==
  CASE coreType = "User" -> User [] coreType = "Annotation" -> Annotation [] coreType = "Task" -> Task
    [] coreType = "IoNode" -> IoNode [] coreType = "IoSource" -> IoSource [] coreType = "IoActor" -> IoActor
    [] coreType = "Log" -> Log [] coreType = "Location" -> Location [] coreType = "Snapshot" -> Snapshot
    [] OTHER -> Plain

-----------------------------------------------------------------------------

RECURSIVE Accepts(_, _)
RECURSIVE Conforms(_, _)
RECURSIVE IsAssignable(_, _)

Conforms(v, type) ==
  /\ IsPlainObject(v)
  /\ \A p \in DOMAIN type.must : Accepts(type.must[p], Property(v, p))
  /\ \A p \in DOMAIN type.may : Property(v, p) = Undefined \/ Accepts(type.may[p], Property(v, p))

Elements(v, type) == Kind(v) = "arr" /\ \A i \in DOMAIN v.arr : Conforms(v.arr[i], type)
Numbered(v, numbers) == Kind(v) = "num" /\ v.num \in numbers

IsObject(v) ==
  /\ IsPlainObject(v)
  /\ IsString(Property(v, "coreType")) /\ Len(v.obj["coreType"].str) = 1
  /\ IsAssignable(v, v.obj["coreType"].str[1])
IsObjectOf(v, coreType) == IsPlainObject(v) /\ IsAssignable(v, coreType)
IsObjectArray(v) == Kind(v) = "arr" /\ \A i \in DOMAIN v.arr : IsObject(v.arr[i])
IsObjectArrayOf(v, coreType) == Kind(v) = "arr" /\ \A i \in DOMAIN v.arr : IsObjectOf(v.arr[i], coreType)

IsScimNames(v) ==
  /\ Conforms(v, ScimNames)
  /\ (Property(v, "familyName") = Undefined) = (Property(v, "givenName") = Undefined)
  /\ \E p \in {"formatted", "familyName"} : Property(v, p) # Undefined

Accepts(check, v) ==
  CASE check = "any" -> v # Undefined
    [] check = "string" -> IsString(v)
    [] check = "text" -> IsNonEmptyString(v)
    [] check = "texts" -> IsStringArray(v)
    [] check = "number" -> Kind(v) = "num"
    [] check = "natural" -> IsNatural(v)
    [] check = "timestamp" -> Kind(v) = "num" /\ v.num # 0
    [] check = "boolean" -> Kind(v) = "bool"
    [] check = "plain" -> IsPlainObject(v)
    [] check = "array" -> Kind(v) = "arr"
    [] check = "interval" -> IsTimeInterval(v)
    [] check = "coreType" -> IsString(v) /\ IsCoreType(v.str)
    [] check = "object" -> IsObject(v)
    [] check = "annotationType" -> Numbered(v, 0..7)
    [] check = "annotationStatus" -> Numbered(v, 0..3)
    [] check = "taskStatus" -> Numbered(v, 0..6)
    [] check = "updateStrategy" -> Numbered(v, 0..3)
    [] check = "logLevel" -> Numbered(v, {10, 20, 30, 40, 50})
    [] check = "names" -> IsScimNames(v)
    [] check = "attributes" -> Elements(v, ScimAttribute)
    [] check = "addresses" -> Elements(v, ScimAddress)
    [] check = "variants" -> Elements(v, AnnotationVariant)
    [] check = "ioSources" -> IsObjectArrayOf(v, "IoSource")
    [] check = "ioActors" -> IsObjectArrayOf(v, "IoActor")
    [] check = "logHost" -> Conforms(v, LogHost)
    [] check = "agentInfo" -> Conforms(v, AgentInfo)
    [] check = "packageInfo" -> Conforms(v, PackageInfo)
    [] check = "buildInfo" -> Conforms(v, BuildInfo)
    [] check = "configInfo" -> Conforms(v, ConfigInfo)
    [] check = "geoLocation" -> Conforms(v, GeoLocation)
    [] check = "coords" -> Conforms(v, Coords)
    [] check = "unitOfMeasurement" -> Conforms(v, UnitOfMeasurement)
    [] check = "observedProperty" -> Conforms(v, ObservedProperty)

IsAssignable(v, coreType) ==
  /\ coreType \in CoreTypeNames
  /\ Conforms(v, Base)
  /\ coreType # "CoatyObject" => v.obj["coreType"] = Str(<<coreType>>)
  /\ Conforms(v, Checks(coreType))

AsObject(v) == IF IsObject(v) THEN v ELSE Undefined

SensorThingsNames == {"Sensor", "FeatureOfInterest", "Observation", "Thing"}
SensorThingsChecks(name) ==
  CASE name = "Sensor" -> Sensor [] name = "FeatureOfInterest" -> FeatureOfInterest
    [] name = "Observation" -> Observation [] name = "Thing" -> Thing

\* The parent (thing or sensor) is checked by a condition that always holds.
IsSensorThings(v, name) ==
  /\ IsObjectOf(v, "CoatyObject") /\ v.obj["objectType"] = Str(<<name>>)
  /\ Conforms(v, SensorThingsChecks(name))

\* CoreTypes.clone with validation.
CloneObject(v) == IF v # Undefined /\ ~IsObject(v) THEN [throws |-> TRUE] ELSE DeepClone(v)
=============================================================================

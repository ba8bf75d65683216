---------------------------- MODULE InMemoryAdapter ----------------------------
(***************************************************************************)
(* What the operations of the in-memory database adapter compute.          *)
(*                                                                         *)
(* A collection is a JavaScript Map from object ids to objects; a Map      *)
(* keeps the order of insertion, so a collection is a sequence of objects  *)
(* with distinct ids.  An object is a record; a property it does not have  *)
(* is Undefined.  A filter condition is abstracted to the values it        *)
(* accepts of one property (ObjectMatcher has the conditions themselves).  *)
(***************************************************************************)
EXTENDS Integers, SequencesExt

CONSTANTS
  Undefined,     \* the value of a missing property
  NaN,           \* the number that an operation on Undefined yields
  NoConditions   \* a filter without conditions

HasId(coll, id) == \E i \in DOMAIN coll : coll[i].objectId = id
PositionOf(coll, id) == CHOOSE i \in DOMAIN coll : coll[i].objectId = id

\* Map.set(): an object that is there keeps its position
Put(coll, o) ==
  IF HasId(coll, o.objectId)
  THEN [coll EXCEPT ![PositionOf(coll, o.objectId)] = o]
  ELSE Append(coll, o)

(* insertObjects, updateObjects: what is stored, and the ids reported *)

MayInsert(coll, o, shouldReplaceExisting) == ~HasId(coll, o.objectId) \/ shouldReplaceExisting

\* Fault: an object that is skipped is reported, too
StoredReportingAll(acc, o, does) ==
  [coll |-> IF does THEN Put(acc.coll, o) ELSE acc.coll, ids |-> Append(acc.ids, o.objectId)]
Stored(acc, o, does) ==
  IF does
  THEN [coll |-> Put(acc.coll, o), ids |-> Append(acc.ids, o.objectId)]
  ELSE acc

InsertObjects(coll, objects, shouldReplaceExisting) ==
  FoldLeft(LAMBDA acc, o : Stored(acc, o, MayInsert(acc.coll, o, shouldReplaceExisting)),
           [coll |-> coll, ids |-> <<>>], objects)

UpdateObjects(coll, objects) ==
  FoldLeft(LAMBDA acc, o : Stored(acc, o, HasId(acc.coll, o.objectId)),
           [coll |-> coll, ids |-> <<>>], objects)

\* updateObjectProperty: an undefined value deletes the property
WithProperty(o, property, value, shouldCreateMissing) ==
  IF value = Undefined \/ o[property] # Undefined \/ shouldCreateMissing
  THEN [o EXCEPT ![property] = value]
  ELSE o

UpdateObjectProperty(coll, ids, property, value, shouldCreateMissing) ==
  [i \in DOMAIN coll |-> IF coll[i].objectId \in ids
                         THEN WithProperty(coll[i], property, value, shouldCreateMissing)
                         ELSE coll[i]]

(* _getFilterMatcher *)
IsMatch(filter, o) ==
  \/ filter.conditions = NoConditions
  \/ o[filter.conditions.property] \in filter.conditions.values

\* deleteObjectsById
DeleteObjectsById(coll, ids) ==
  [coll |-> SelectSeq(coll, LAMBDA o : o.objectId \notin ids),
   ids  |-> SelectSeq(SetToSeq(ids), LAMBDA id : HasId(coll, id))]

\* deleteObjects
DeleteObjects(coll, filter) == SelectSeq(coll, LAMBDA o : ~IsMatch(filter, o))

\* countObjects
CountObjects(coll, filter) == Len(SelectSeq(coll, LAMBDA o : IsMatch(filter, o)))

\* findObjectById: with an external id, the first object that has it
FindObjectById(coll, id, isExternalId) ==
  LET found == {i \in DOMAIN coll : id = IF isExternalId THEN coll[i].peer ELSE coll[i].objectId}
  IN IF found = {} THEN Undefined ELSE coll[Min(found)]

(* _getFilterComparer.  Strings are compared by a collator, numbers by      *)
(* their difference; a missing property comes first.                        *)

BaseCompare(x, y) ==
  CASE x = y                    -> 0
    [] x # y /\ x = Undefined   -> -1
    [] x # y /\ y = Undefined   -> 1
    [] OTHER                    -> IF x < y THEN -1 ELSE 1

\* Fault: the last property by which two objects differ decides
Deciding(differing) == Max(differing)
FirstOf(differing) == Min(differing)

Compare(orderBy, a, b) ==
  LET result(i) == LET p == orderBy[i].property
                   IN IF orderBy[i].order = "Asc" THEN BaseCompare(a[p], b[p])
                                                  ELSE BaseCompare(b[p], a[p])
      differing == {i \in DOMAIN orderBy : result(i) # 0}
  IN IF differing = {} THEN 0 ELSE result(FirstOf(differing))

\* Array.sort() is stable.
Sort(objects, orderBy) ==
  LET before(i, j) == LET c == Compare(orderBy, objects[i], objects[j])
                      IN c < 0 \/ (c = 0 /\ i < j)
      rank(i) == Cardinality({j \in DOMAIN objects : before(j, i)}) + 1
  IN [k \in DOMAIN objects |-> objects[CHOOSE i \in DOMAIN objects : rank(i) = k]]

(* _joinObjectProperties, for a join condition jc, the values of the local  *)
(* property and the collection from: the objects to be joined.              *)

\* Fault: a missing local property is joined with the objects that lack the property
RelatedMissing(jc, from, value) == SelectSeq(from, LAMBDA o : o[jc.fromProperty] = value)
Related(jc, from, value) ==
  LET related == SelectSeq(from, LAMBDA o : o[jc.fromProperty] = value)
  IN CASE value = Undefined -> <<>>
       [] value # Undefined /\ jc.isOneToOneRelation /\ related # <<>> -> <<related[1]>>
       [] OTHER -> related
JoinedObjects(jc, from, localValues) ==
  FoldLeft(LAMBDA acc, value : acc \o Related(jc, from, value), <<>>, localValues)

\* The extra property: a single object (or none) for a one to one relation of
\* a single value, otherwise an array
ExtraProperty(jc, from, localValues) ==
  LET joined == JoinedObjects(jc, from, localValues)
  IN IF jc.isOneToOneRelation /\ ~jc.isLocalPropertyArray
     THEN IF joined = <<>> THEN Undefined ELSE joined[1]
     ELSE joined

(* aggregateObjects over the values of a property of the matching objects. *)

Number(f(_, _), av, cv) == IF av = NaN \/ cv \in {NaN, Undefined} THEN NaN ELSE f(av, cv)

Aggregator(op, av, cv) ==
  IF av = Undefined THEN cv
  ELSE CASE op \in {"Avg", "Sum"} -> Number(LAMBDA a, c : a + c, av, cv)
         [] op = "Max"           -> Number(LAMBDA a, c : IF a < c THEN c ELSE a, av, cv)
         [] op = "Min"           -> Number(LAMBDA a, c : IF a < c THEN a ELSE c, av, cv)
         [] op = "Every"         -> av /\ cv
         [] op = "Some"          -> av \/ cv

\* The average is a pair of a sum and what it is divided by.
\* Fault: the first value is not counted
DivisorAfterFirst(values) == IF Len(values) > 2 THEN Len(values) - 1 ELSE 1
Divisor(values) == IF Len(values) > 1 THEN Len(values) ELSE 1

AggregateObjects(op, values) ==
  LET aggregated == FoldLeft(LAMBDA av, cv : Aggregator(op, av, cv), Undefined, values)
  IN IF op = "Avg" THEN <<aggregated, Divisor(values)>> ELSE aggregated

==============================================================================

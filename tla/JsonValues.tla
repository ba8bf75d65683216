----------------------------- MODULE JsonValues -----------------------------
(* The JavaScript values that coaty-js exchanges, and util/deep.ts:        *)
(* equality, containment, inclusion and copies of such values.             *)
(*                                                                         *)
(* A value is a record with one field, which names its type, so that       *)
(* values of different types can be compared.  A string is a sequence of   *)
(* chunks, split as finely as an operation needs it.  Dates and regular    *)
(* expressions do not occur in messages and are left out, and so are       *)
(* objects that share parts (cloneDeep rejects these).                     *)
EXTENDS Integers, Sequences, FiniteSets, SequencesExt

Undefined == [undef |-> TRUE]
Null == [null |-> TRUE]
Num(n) == [num |-> n]
Bool(b) == [bool |-> b]
Str(s) == [str |-> s]
Arr(s) == [arr |-> s]
Obj(f) == [obj |-> f]

\* The type of a value.
Kind(v) == CHOOSE k \in {"undef", "null", "num", "bool", "str", "arr", "obj"} : k \in DOMAIN v

IsPrimitive(v) == Kind(v) \notin {"arr", "obj"}
IsPlainObject(v) == Kind(v) = "obj"
IsString(v) == Kind(v) = "str"
IsNonEmptyString(v) == IsString(v) /\ v.str # <<>>

\* obj[prop], for an object.
Property(o, p) == IF p \in DOMAIN o.obj THEN o.obj[p] ELSE Undefined

-----------------------------------------------------------------------------
(* The result of an operation that may throw, and of Array.every and       *)
(* Array.some over a callback with such a result.                          *)

Verdicts == {"true", "false", "throws"}
Verdict(b) == IF b THEN "true" ELSE "false"
Negated(w) == CASE w = "true" -> "false" [] w = "false" -> "true" [] OTHER -> w
EveryOf(ws) == LET i == SelectInSeq(ws, LAMBDA w : w # "true") IN IF i = 0 THEN "true" ELSE ws[i]
SomeOf(ws) == LET i == SelectInSeq(ws, LAMBDA w : w # "false") IN IF i = 0 THEN "false" ELSE ws[i]

-----------------------------------------------------------------------------

\* Fault: properties of the second object that the first one lacks are ignored.
SameKeysOneSided(f, g) == DOMAIN f \subseteq DOMAIN g

SameKeys(f, g) == Cardinality(DOMAIN f) = Cardinality(DOMAIN g) /\ DOMAIN f \subseteq DOMAIN g

RECURSIVE DeepEquals(_, _)
DeepEquals(a, b) ==
  \/ IsPrimitive(a) /\ a = b
  \/ /\ Kind(a) = "arr" /\ Kind(b) = "arr"
     /\ Len(a.arr) = Len(b.arr)
     /\ \A i \in DOMAIN a.arr : DeepEquals(a.arr[i], b.arr[i])
  \/ /\ Kind(a) = "obj" /\ Kind(b) = "obj"
     /\ SameKeys(a.obj, b.obj)
     /\ \A k \in DOMAIN a.obj : DeepEquals(a.obj[k], b.obj[k])

\* Fault: an array contains a primitive element on any level.
HoldsPrimitiveAnywhere(x, y, isToplevel) == IsPrimitive(y) /\ \E i \in DOMAIN x.arr : x.arr[i] = y

\* On top level only, an array contains its primitive elements.
HoldsPrimitive(x, y, isToplevel) == isToplevel /\ IsPrimitive(y) /\ \E i \in DOMAIN x.arr : x.arr[i] = y

(* An object x is compared with the own keys of y: there are none in an    *)
(* empty array, the keys of other arrays are numerals, which are not used  *)
(* as property names here, and null, which is of type "object", throws.    *)
RECURSIVE ContainsInternal(_, _, _)
ContainsInternal(x, y, isToplevel) ==
  CASE Kind(x) = "arr" /\ Kind(y) = "arr" ->
         EveryOf([j \in DOMAIN y.arr |->
           SomeOf([i \in DOMAIN x.arr |-> ContainsInternal(x.arr[i], y.arr[j], FALSE)])])
    [] Kind(x) = "arr" /\ Kind(y) # "arr" -> Verdict(HoldsPrimitive(x, y, isToplevel))
    [] Kind(x) = "obj" /\ Kind(y) = "obj" ->
         LET keys == SetToSeq(DOMAIN y.obj)
         IN EveryOf([k \in DOMAIN keys |->
              IF keys[k] \in DOMAIN x.obj
              THEN ContainsInternal(x.obj[keys[k]], y.obj[keys[k]], FALSE) ELSE "false"])
    [] Kind(x) = "obj" /\ Kind(y) = "arr" -> Verdict(y.arr = <<>>)
    [] Kind(x) = "obj" /\ Kind(y) = "null" -> "throws"
    [] OTHER -> Verdict(x = y)

DeepContains(a, b) == ContainsInternal(a, b, TRUE)

DeepIncludes(a, b) ==
  IF Kind(a) # "arr" THEN "throws" ELSE Verdict(\E i \in DOMAIN a.arr : DeepEquals(a.arr[i], b))

\* Fault: falsy values are taken for missing ones.
FalsyAsNull(v) == IF v \in {Num(0), Bool(FALSE), Str(<<>>)} THEN Null ELSE v

ClonedPrimitive(v) == v

\* Also JSON.parse(JSON.stringify(v)), what a value is after it was sent.
RECURSIVE DeepClone(_)
DeepClone(v) ==
  CASE Kind(v) = "arr" ->
         Arr([i \in DOMAIN v.arr |-> IF v.arr[i] = Undefined THEN Null ELSE DeepClone(v.arr[i])])
    [] Kind(v) = "obj" ->
         Obj([k \in {p \in DOMAIN v.obj : v.obj[p] # Undefined} |-> DeepClone(v.obj[k])])
    [] OTHER -> ClonedPrimitive(v)

-----------------------------------------------------------------------------
(* Containment as documented: the contained value is what is left of the   *)
(* containing one after discarding elements and properties, up to order    *)
(* and repetition of elements.                                             *)

RECURSIVE Normal(_)
Normal(v) ==
  CASE Kind(v) = "arr" -> [set |-> {Normal(v.arr[i]) : i \in DOMAIN v.arr}]
    [] Kind(v) = "obj" -> [map |-> {<<k, Normal(v.obj[k])>> : k \in DOMAIN v.obj}]
    [] OTHER -> v

RECURSIVE Reducts(_)
Reducts(v) ==
  CASE Kind(v) = "arr" -> {[set |-> S] : S \in SUBSET UNION {Reducts(v.arr[i]) : i \in DOMAIN v.arr}}
    [] Kind(v) = "obj" ->
         UNION {{[map |-> {<<k, f[k]>> : k \in K}] :
                  f \in {g \in [K -> UNION {Reducts(v.obj[k]) : k \in K}] :
                          \A k \in K : g[k] \in Reducts(v.obj[k])}} : K \in SUBSET DOMAIN v.obj}
    [] OTHER -> {v}

ContainedAsDocumented(a, b) ==
  \/ Normal(b) \in Reducts(a)
  \/ Kind(a) = "arr" /\ IsPrimitive(b) /\ b \in ToSet(a.arr)

\* An empty array somewhere in v.
RECURSIVE HasEmptyArray(_)
HasEmptyArray(v) ==
  CASE Kind(v) = "arr" -> v.arr = <<>> \/ \E i \in DOMAIN v.arr : HasEmptyArray(v.arr[i])
    [] Kind(v) = "obj" -> \E k \in DOMAIN v.obj : HasEmptyArray(v.obj[k])
    [] OTHER -> FALSE
=============================================================================

---------------------------- MODULE ObjectMatcher ----------------------------
(* Filters and joins as they are sent with Query and Call events: their    *)
(* operators and validation (model/object-filter.ts, model/object-join.ts) *)
(* and the matching of objects (model/object-matcher.ts).                  *)
(*                                                                         *)
(* Property names contain neither dots nor numerals.  A string of property *)
(* names in dot notation has one chunk per name.  Order operators apply to *)
(* primitive values.                                                       *)
EXTENDS JsonValues

CONSTANTS
  Collate(_),     \* rank of a string by Intl.Collator
  CodeUnits(_)    \* rank of a string by the operator < of JavaScript

Operators ==
  <<"LessThan", "LessThanOrEqual", "GreaterThan", "GreaterThanOrEqual", "Between", "NotBetween",
    "Like", "Equals", "NotEquals", "Exists", "NotExists", "Contains", "NotContains", "In", "NotIn">>

\* filterOp: the filter expression of an operator and its operands.
FilterOp(op, operands) == Arr(<<Num(SelectInSeq(Operators, LAMBDA o : o = op) - 1)>> \o operands)

-----------------------------------------------------------------------------
(* Comparison in JavaScript.                                               *)

\* Whether a value is converted to NaN; strings are not numerals.
IsNaN(v) == ~(Kind(v) \in {"num", "bool", "null"} \/ v = Str(<<>>))
ToNumber(v) ==
  CASE Kind(v) = "num" -> v.num
    [] Kind(v) = "bool" -> IF v.bool THEN 1 ELSE 0
    [] OTHER -> 0

Compares(a, b, Order(_, _)) ==
  IF IsString(a) /\ IsString(b) THEN Order(CodeUnits(a), CodeUnits(b))
  ELSE ~IsNaN(a) /\ ~IsNaN(b) /\ Order(ToNumber(a), ToNumber(b))

\* < and <=, by the collator for operands that are all strings.
Less(a, b, byCollator) == IF byCollator THEN Collate(a) < Collate(b) ELSE Compares(a, b, <)
LessOrEqual(a, b, byCollator) == IF byCollator THEN Collate(a) <= Collate(b) ELSE Compares(a, b, <=)

IsLess(a, b) == Less(a, b, IsString(a) /\ IsString(b))
IsLessOrEqual(a, b) == LessOrEqual(a, b, IsString(a) /\ IsString(b))

\* Fault: operands in descending order are not swapped.
WithinUnswapped(v, a, b, byCollator) == LessOrEqual(a, v, byCollator) /\ LessOrEqual(v, b, byCollator)

Within(v, a, b, byCollator) ==
  IF Less(b, a, byCollator) THEN LessOrEqual(b, v, byCollator) /\ LessOrEqual(v, a, byCollator)
  ELSE LessOrEqual(a, v, byCollator) /\ LessOrEqual(v, b, byCollator)

Outside(v, a, b, byCollator) ==
  IF Less(b, a, byCollator) THEN Less(v, b, byCollator) \/ Less(a, v, byCollator)
  ELSE Less(v, a, byCollator) \/ Less(b, v, byCollator)

AllStrings(v, a, b) == IsString(v) /\ IsString(a) /\ IsString(b)
IsBetween(v, a, b) == Within(v, a, b, AllStrings(v, a, b))
IsNotBetween(v, a, b) == Outside(v, a, b, AllStrings(v, a, b))

-----------------------------------------------------------------------------
(* SQL LIKE patterns as regular expressions.                               *)

Literal(c) == [lit |-> c]
Dot == [any |-> "one"]
DotStar == [any |-> "many"]

\* Fault: the escape also holds for the characters after the next one.
EscapeKept(acc, c) == [acc EXCEPT !.regex = @ \o <<Literal(c)>>]

\* A literal character, which ends an escape.
EscapeEnds(acc, c) == [regex |-> acc.regex \o <<Literal(c)>>, isEscaped |-> FALSE]

CreateLikeRegexp(pattern) ==
  LET Step(acc, c) ==
        CASE c = "\\" /\ ~acc.isEscaped -> [acc EXCEPT !.isEscaped = TRUE]
          [] c = "_" /\ ~acc.isEscaped -> [acc EXCEPT !.regex = @ \o <<Dot>>]
          [] c = "%" /\ ~acc.isEscaped -> [acc EXCEPT !.regex = @ \o <<DotStar>>]
          [] OTHER -> EscapeEnds(acc, c)
  IN FoldLeft(Step, [regex |-> <<>>, isEscaped |-> FALSE], pattern).regex

\* RegExp.test; the dot does not match a line terminator.
RECURSIVE RegexTest(_, _)
RegexTest(regex, s) ==
  IF regex = <<>> THEN s = <<>>
  ELSE CASE Head(regex) = DotStar ->
              \/ RegexTest(Tail(regex), s)
              \/ s # <<>> /\ Head(s) # "\n" /\ RegexTest(regex, Tail(s))
         [] Head(regex) = Dot -> s # <<>> /\ Head(s) # "\n" /\ RegexTest(Tail(regex), Tail(s))
         [] OTHER -> s # <<>> /\ Head(regex) = Literal(Head(s)) /\ RegexTest(Tail(regex), Tail(s))

-----------------------------------------------------------------------------
(* Matching.                                                               *)

FilterProperties(props) == IF IsString(props) THEN [i \in DOMAIN props.str |-> Str(<<props.str[i]>>)] ELSE props.arr

FilterPropertyValue(props, obj) ==
  FoldLeft(LAMBDA p, c : IF IsPlainObject(p) /\ Len(c.str) = 1 THEN Property(p, c.str[1]) ELSE Undefined,
           obj, FilterProperties(props))

Operand(expr, i) == IF i <= Len(expr) THEN expr[i] ELSE Undefined

\* Fault: the negated test for inclusion takes a missing operand for an empty array.
NotIncludes(a, b) == IF Kind(a) # "arr" THEN "true" ELSE Negated(DeepIncludes(a, b))

Excludes(a, b) == Negated(DeepIncludes(a, b))

\* The outcome for a value that exists.
HoldsFor(value, op, value1, value2) ==
  CASE op = "LessThan" -> Verdict(IsLess(value, value1))
    [] op = "LessThanOrEqual" -> Verdict(IsLessOrEqual(value, value1))
    [] op = "GreaterThan" -> Verdict(IsLess(value1, value))
    [] op = "GreaterThanOrEqual" -> Verdict(IsLessOrEqual(value1, value))
    [] op = "Between" -> Verdict(IsBetween(value, value1, value2))
    [] op = "NotBetween" -> Verdict(IsNotBetween(value, value1, value2))
    [] op = "Like" ->
         Verdict(IsString(value) /\ IsString(value1) /\ RegexTest(CreateLikeRegexp(value1.str), value.str))
    [] op = "Equals" -> Verdict(DeepEquals(value, value1))
    [] op = "NotEquals" -> Verdict(~DeepEquals(value, value1))
    [] op = "Exists" -> "true"
    [] op = "Contains" -> DeepContains(value, value1)
    [] op = "NotContains" -> Negated(DeepContains(value, value1))
    [] op = "In" -> DeepIncludes(value1, value)
    [] op = "NotIn" -> Excludes(value1, value)

MatchesCondition(obj, condition) ==
  LET value == FilterPropertyValue(condition.arr[1], obj)
      expr == condition.arr[2].arr
      op == Operators[expr[1].num + 1]
  IN IF op = "NotExists" THEN Verdict(value = Undefined)
     ELSE IF value = Undefined THEN "false" ELSE HoldsFor(value, op, Operand(expr, 2), Operand(expr, 3))

MatchesEach(obj, conds) == [i \in DOMAIN conds.arr |-> MatchesCondition(obj, conds.arr[i])]

MatchesFilter(obj, filter) ==
  LET conds == IF filter = Undefined THEN Undefined ELSE Property(filter, "conditions")
  IN CASE obj = Undefined -> "false"
       [] obj # Undefined /\ conds = Undefined -> "true"
       [] obj # Undefined /\ Kind(conds) = "arr" -> MatchesCondition(obj, conds)
       [] obj # Undefined /\ Kind(conds) = "obj" ->
            IF Property(conds, "and") # Undefined THEN EveryOf(MatchesEach(obj, conds.obj["and"]))
            ELSE IF Property(conds, "or") # Undefined THEN SomeOf(MatchesEach(obj, conds.obj["or"]))
            ELSE "true"

-----------------------------------------------------------------------------
(* Validation.                                                             *)

AreProperties(props) ==
  \/ IsString(props)
  \/ Kind(props) = "arr" /\ \A i \in DOMAIN props.arr : IsString(props.arr[i])

IsFilterConditionValid(cond) ==
  /\ Kind(cond) = "arr" /\ Len(cond.arr) = 2
  /\ AreProperties(cond.arr[1]) /\ cond.arr[1] # Str(<<>>)
  /\ Kind(cond.arr[2]) = "arr" /\ Len(cond.arr[2].arr) >= 1
  /\ Kind(cond.arr[2].arr[1]) = "num" /\ cond.arr[2].arr[1].num + 1 \in DOMAIN Operators

IsFilterConditionArrayValid(acond) == Kind(acond) = "arr" /\ \A i \in DOMAIN acond.arr : IsFilterConditionValid(acond.arr[i])

AreFilterConditionsValid(conds) ==
  \/ conds = Undefined
  \/ IsFilterConditionValid(conds)
  \/ /\ IsPlainObject(conds)
     /\ Undefined \in {Property(conds, "and"), Property(conds, "or")}
     /\ \A p \in {"and", "or"} :
          Property(conds, p) = Undefined \/ IsFilterConditionArrayValid(Property(conds, p))

IsContextFilterValid(filter) ==
  filter = Undefined \/ (IsPlainObject(filter) /\ AreFilterConditionsValid(Property(filter, "conditions")))

AreOrderByPropertiesValid(orderProps) ==
  /\ Kind(orderProps) = "arr"
  /\ \A i \in DOMAIN orderProps.arr :
       LET o == orderProps.arr[i]
       IN /\ Kind(o) = "arr" /\ Len(o.arr) = 2
          /\ AreProperties(o.arr[1]) /\ o.arr[2] \in {Str(<<"Asc">>), Str(<<"Desc">>)}

IsObjectFilterValid(filter) ==
  /\ IsContextFilterValid(filter)
  /\ filter # Undefined =>
       /\ \A p \in {"skip", "take"} : Kind(Property(filter, p)) \in {"undef", "num"}
       /\ \/ Property(filter, "orderByProperties") = Undefined
          \/ AreOrderByPropertiesValid(Property(filter, "orderByProperties"))

IsJoinConditionValid(joinCond) ==
  /\ IsPlainObject(joinCond)
  /\ \A p \in {"localProperty", "asProperty"} : IsString(Property(joinCond, p))
  /\ \A p \in {"isLocalPropertyArray", "isOneToOneRelation"} : Kind(Property(joinCond, p)) \in {"undef", "bool"}

AreObjectJoinConditionsValid(joinConds) ==
  \/ joinConds = Undefined
  \/ IF Kind(joinConds) = "arr" THEN \A i \in DOMAIN joinConds.arr : IsJoinConditionValid(joinConds.arr[i])
     ELSE IsJoinConditionValid(joinConds)

-----------------------------------------------------------------------------
(* Reference definitions.                                                  *)

\* SQL LIKE, by the characters of the pattern.
RECURSIVE SqlLike(_, _)
SqlLike(s, pattern) ==
  CASE pattern = <<>> -> s = <<>>
    [] pattern = <<"\\">> -> s = <<>>
    [] Len(pattern) > 1 /\ Head(pattern) = "\\" ->
         s # <<>> /\ Head(s) = pattern[2] /\ SqlLike(Tail(s), SubSeq(pattern, 3, Len(pattern)))
    [] pattern # <<>> /\ Head(pattern) = "_" -> s # <<>> /\ SqlLike(Tail(s), Tail(pattern))
    [] pattern # <<>> /\ Head(pattern) = "%" ->
         \E n \in 0..Len(s) : SqlLike(SubSeq(s, n + 1, Len(s)), Tail(pattern))
    [] pattern # <<>> /\ Head(pattern) \notin {"\\", "_", "%"} ->
         s # <<>> /\ Head(s) = Head(pattern) /\ SqlLike(Tail(s), Tail(pattern))

\* Pairs of operators of which exactly one holds for an existing property;
\* those of the first set for numbers and for strings only.
OrderOpposites == {<<"LessThan", "GreaterThanOrEqual">>, <<"GreaterThan", "LessThanOrEqual">>, <<"Between", "NotBetween">>}
Opposites == {<<"Equals", "NotEquals">>, <<"Exists", "NotExists">>, <<"Contains", "NotContains">>, <<"In", "NotIn">>}
OppositeOf(op) == CHOOSE other \in ToSet(Operators) : \E p \in Opposites : p \in {<<op, other>>, <<other, op>>}
=============================================================================

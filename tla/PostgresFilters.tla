--------------------------- MODULE PostgresFilters ---------------------------
(* The WHERE clause that the PostgreSQL adapter builds from the conditions *)
(* of an object filter, and the objects the server selects by it.          *)
(*                                                                         *)
(* A clause is kept as a term: what evaluates it (the jsonpath engine, or  *)
(* the operators of jsonb: path access or containment), the operator, the  *)
(* properties and the operands, each embedded as a literal or passed as a  *)
(* query parameter.  Literals are quoted correctly.  Objects are stored as *)
(* JSON, so no value is undefined; there is at least one property name in  *)
(* a condition, and operands are those of the operator's documentation.    *)
EXTENDS ObjectMatcher

NamesOf(path) == [i \in DOMAIN path |-> path[i].str[1]]

Ranges == {"Between", "NotBetween"}
Equalities == {"Equals", "NotEquals"}
Existence == {"Exists", "NotExists"}
Memberships == {"In", "NotIn"}

\* equals and notEquals with an undefined operand are checks of existence.
EffectiveOp(op, operand) ==
  CASE op = "Equals" /\ operand = Undefined -> "NotExists"
    [] op = "NotEquals" /\ operand = Undefined -> "Exists"
    [] OTHER -> op

EvaluatedBy(op, operand, supportsJsonpath) ==
  CASE op \in {"Contains", "NotContains"} -> "containment"
    [] op \in Memberships -> "jsonb"
    [] op \in Equalities /\ ~IsPrimitive(operand) -> "jsonb"
    [] op \in Equalities /\ IsPrimitive(operand) /\ ~supportsJsonpath -> "containment"
    [] OTHER -> IF supportsJsonpath THEN "jsonpath" ELSE "jsonb"

\* The object that has the operand at the end of a path.
Nested(path, operand) == FoldRight(LAMBDA name, inner : Obj(name :> inner), NamesOf(path), operand)

\* like2PosixRegex yields the same expression as the in-memory matching.
Like2PosixRegex(likePattern) == CreateLikeRegexp(likePattern)

\* The operands of a range are in order; jsonpath has no symmetric range.
InOrder(a, b) == IF HoldsFor(a, "GreaterThan", b, Undefined) = "true" THEN <<b, a>> ELSE <<a, b>>

ClauseOperands(by, op, path, expr) ==
  CASE op \in Existence -> <<>>
    [] by = "containment" -> <<Nested(path, expr[2])>>
    [] op \in Ranges -> IF by = "jsonpath" THEN InOrder(expr[2], expr[3]) ELSE <<expr[2], expr[3]>>
    [] op = "Like" /\ by = "jsonpath" -> <<Like2PosixRegex(expr[2].str)>>
    [] OTHER -> <<expr[2]>>

ClauseOf(condition, supportsJsonpath) ==
  LET expr == condition.arr[2].arr
      path == FilterProperties(condition.arr[1])
      op == EffectiveOp(Operators[expr[1].num + 1], Operand(expr, 2))
      by == EvaluatedBy(op, Operand(expr, 2), supportsJsonpath)
  IN [by |-> by, op |-> op, path |-> path, operands |-> ClauseOperands(by, op, path, expr)]

\* para: jsonpath expressions cannot refer to query parameters.
Para(operand, index, isEmbedded) == IF isEmbedded THEN [literal |-> operand] ELSE [parameter |-> index]

\* Fault: the index of a parameter is not advanced within a clause.
WithClauseSameIndex(query, clause, embedParams) ==
  LET isEmbedded == embedParams \/ clause.by = "jsonpath"
      operands == [i \in DOMAIN clause.operands |-> Para(clause.operands[i], Len(query.params) + 1, isEmbedded)]
  IN [clauses |-> Append(query.clauses, [clause EXCEPT !.operands = operands]),
      params |-> IF clause.by = "jsonpath" THEN query.params ELSE query.params \o clause.operands]

\* The clause is added to the query, its operands to the parameters.
WithClause(query, clause, embedParams) ==
  LET isEmbedded == embedParams \/ clause.by = "jsonpath"
      operands == [i \in DOMAIN clause.operands |-> Para(clause.operands[i], Len(query.params) + i, isEmbedded)]
  IN [clauses |-> Append(query.clauses, [clause EXCEPT !.operands = operands]),
      params |-> IF clause.by = "jsonpath" THEN query.params ELSE query.params \o clause.operands]

Positive == {"Equals", "Contains"}

\* A single condition is turned into a conjunction; containments come last.
WhereClauseAndParams(conditions, supportsJsonpath, embedParams) ==
  LET combineAnd == Kind(conditions) = "arr" \/ Property(conditions, "or") = Undefined
      conds == IF Kind(conditions) = "arr" THEN <<conditions>>
               ELSE Property(conditions, IF combineAnd THEN "and" ELSE "or").arr
      clauses == [i \in DOMAIN conds |-> ClauseOf(conds[i], supportsJsonpath)]
      direct == SelectSeq(clauses, LAMBDA c : c.by # "containment")
      notContains == SelectSeq(clauses, LAMBDA c : c.by = "containment" /\ c.op \notin Positive)
      contains == SelectSeq(clauses, LAMBDA c : c.by = "containment" /\ c.op \in Positive)
      query == FoldLeft(LAMBDA q, c : WithClause(q, c, embedParams),
                        [clauses |-> <<>>, params |-> <<>>], direct \o notContains \o contains)
  IN [combineAnd |-> combineAnd, clauses |-> query.clauses, params |-> query.params]

-----------------------------------------------------------------------------
(* The server: three-valued logic, the operators of jsonb, and jsonpath in *)
(* lax mode, which looks into arrays.                                      *)

SqlOr(ws) == IF "true" \in ws THEN "true" ELSE IF "null" \in ws THEN "null" ELSE "false"
SqlAnd(ws) == IF "false" \in ws THEN "false" ELSE IF "null" \in ws THEN "null" ELSE "true"
SqlNot(w) == IF w = "null" THEN w ELSE Negated(w)

ScalarRank(v, byCollation) ==
  CASE Kind(v) = "num" -> v.num
    [] Kind(v) = "bool" -> IF v.bool THEN 1 ELSE 0
    [] Kind(v) = "str" -> IF byCollation THEN Collate(v) ELSE CodeUnits(v)
    [] OTHER -> 0
Related(op, x, y) ==
  CASE op = "LessThan" -> x < y
    [] op = "LessThanOrEqual" -> x <= y
    [] op = "GreaterThan" -> x > y
    [] op = "GreaterThanOrEqual" -> x >= y
    [] op = "Equals" -> x = y
    [] op = "NotEquals" -> x # y

\* The order of jsonb values of different types.
TypeOrder == <<"null", "str", "num", "bool", "arr", "obj">>
TypeRank(v) == SelectInSeq(TypeOrder, LAMBDA k : k = Kind(v))
JsonbRelated(op, v, w) ==
  IF Kind(v) = Kind(w) THEN Related(op, ScalarRank(v, TRUE), ScalarRank(w, TRUE))
  ELSE Related(op, TypeRank(v), TypeRank(w))
JsonbWithin(v, a, b) ==
  \E r \in {<<a, b>>, <<b, a>>} : JsonbRelated("LessThanOrEqual", r[1], v) /\ JsonbRelated("LessThanOrEqual", v, r[2])

\* The operator ? for a name, which also finds strings.
HasName(v, name) ==
  CASE v = Undefined -> "null"
    [] IsPlainObject(v) -> Verdict(name \in DOMAIN v.obj)
    [] Kind(v) = "arr" -> Verdict(Str(<<name>>) \in ToSet(v.arr))
    [] OTHER -> Verdict(v = Str(<<name>>))
ExistsByNames(object, path) ==
  SqlAnd({HasName(FilterPropertyValue(Arr(SubSeq(path, 1, i - 1)), object), NamesOf(path)[i]) : i \in DOMAIN path})

\* The text of a value that is not a string is one character that is no letter.
AsText(v) == IF IsString(v) THEN v.str ELSE <<"?">>

JsonbHolds(object, op, path, operands) ==
  LET value == FilterPropertyValue(Arr(path), object)
      IsMember == \E i \in DOMAIN operands[1].arr : DeepEquals(value, operands[1].arr[i])
  IN IF op \in Existence
     THEN LET exists == ExistsByNames(object, path) IN IF op = "Exists" THEN exists ELSE SqlNot(exists)
     ELSE IF op \in Memberships /\ operands[1].arr = <<>> THEN Verdict(op = "NotIn")
     ELSE IF value = Undefined THEN "null"
     ELSE
       CASE op = "Like" -> IF value = Null THEN "null" ELSE Verdict(SqlLike(AsText(value), operands[1].str))
       [] op = "Between" -> Verdict(JsonbWithin(value, operands[1], operands[2]))
       [] op = "NotBetween" -> Verdict(~JsonbWithin(value, operands[1], operands[2]))
       [] op = "In" -> Verdict(IsMember)
       [] op = "NotIn" -> Verdict(~IsMember)
       [] op = "Equals" -> Verdict(DeepEquals(value, operands[1]))
       [] op = "NotEquals" -> Verdict(~DeepEquals(value, operands[1]))
       [] OTHER -> Verdict(JsonbRelated(op, value, operands[1]))

\* The operator @>: an array holds a primitive value on the top level only,
\* which is that of the object.
JsonbContains(object, part) == Normal(part) \in Reducts(object)

\* The items a jsonpath yields.
Unwrapped(vs) == UNION {IF Kind(v) = "arr" THEN ToSet(v.arr) ELSE {v} : v \in vs}
PathItems(object, path) ==
  FoldLeft(LAMBDA vs, name : {Property(v, name) : v \in {o \in Unwrapped(vs) : IsPlainObject(o) /\ name \in DOMAIN o.obj}},
           {object}, NamesOf(path))

PathRelated(op, v, w) ==
  CASE (v = Null) # (w = Null) -> Verdict(op = "NotEquals")
    [] v # Null /\ w # Null /\ (~IsPrimitive(v) \/ Kind(v) # Kind(w)) -> "null"
    [] OTHER -> Verdict(Related(op, ScalarRank(v, FALSE), ScalarRank(w, FALSE)))
PathWithin(v, a, b) == SqlAnd({PathRelated("GreaterThanOrEqual", v, a), PathRelated("LessThanOrEqual", v, b)})
PathOutside(v, a, b) == SqlOr({PathRelated("LessThan", v, a), PathRelated("GreaterThan", v, b)})

PathHolds(object, op, path, operands) ==
  LET items == PathItems(object, path)
      values == Unwrapped(items)
  IN CASE op = "Exists" -> Verdict(items # {})
       [] op = "NotExists" -> Verdict(items = {})
       [] op = "Like" -> SqlOr({IF IsString(v) THEN Verdict(RegexTest(operands[1], v.str)) ELSE "null" : v \in values})
       [] op = "Between" -> Verdict(\E v \in values : PathWithin(v, operands[1], operands[2]) = "true")
       [] op = "NotBetween" -> Verdict(\E v \in values : PathOutside(v, operands[1], operands[2]) = "true")
       [] OTHER -> SqlOr({PathRelated(op, v, operands[1]) : v \in values})

ClauseHolds(object, clause, params) ==
  LET Value(o) == IF "literal" \in DOMAIN o THEN o.literal ELSE params[o.parameter]
      operands == [i \in DOMAIN clause.operands |-> Value(clause.operands[i])]
  IN CASE clause.by = "jsonpath" -> PathHolds(object, clause.op, clause.path, operands)
       [] clause.by = "jsonb" -> JsonbHolds(object, clause.op, clause.path, operands)
       [] OTHER -> Verdict(JsonbContains(object, operands[1]) = (clause.op \in Positive))

\* Without clauses, all objects are selected.
Selects(where, object) ==
  LET ws == {ClauseHolds(object, where.clauses[i], where.params) : i \in DOMAIN where.clauses}
  IN where.clauses = <<>> \/ "true" = IF where.combineAnd THEN SqlAnd(ws) ELSE SqlOr(ws)

-----------------------------------------------------------------------------

(* Whether the database is meant to agree with ObjectMatcher on a          *)
(* condition: the places where it does not are listed by operator.  Values *)
(* of different types are not ordered; jsonpath looks into arrays, orders  *)
(* strings by code units and knows no newline; containment does not know   *)
(* the documented exception for primitive values; and a property that is   *)
(* missing satisfies negated containments.                                 *)
IsOrdered(v, w) ==
  \/ Kind(v) = "num" /\ Kind(w) = "num"
  \/ IsString(v) /\ IsString(w) /\ (Collate(v) < Collate(w)) = (CodeUnits(v) < CodeUnits(w))

IsPortable(object, condition, supportsJsonpath) ==
  LET expr == condition.arr[2].arr
      op == Operators[expr[1].num + 1]
      path == FilterProperties(condition.arr[1])
      value == FilterPropertyValue(condition.arr[1], object)
      a == Operand(expr, 2)
      b == Operand(expr, 3)
      SameType == Null \in {value, a} \/ Kind(value) = Kind(a)
  IN /\ \A i \in 1..Len(path) - 1 : Kind(FilterPropertyValue(Arr(SubSeq(path, 1, i)), object)) \notin {"arr", "str"}
     /\ CASE op \in Existence -> TRUE
          [] op \in Ranges -> value = Undefined \/ (IsOrdered(value, a) /\ IsOrdered(value, b))
          [] op = "Like" -> value = Undefined \/ (IsString(value) /\ (supportsJsonpath \/ "\n" \notin ToSet(value.str)))
          [] op = "Equals" -> a # Undefined /\ (supportsJsonpath /\ IsPrimitive(a) => Kind(value) # "arr")
          [] op = "NotEquals" /\ ~IsPrimitive(a) -> TRUE
          [] op = "NotEquals" /\ IsPrimitive(a) ->
               /\ a # Undefined
               /\ IF supportsJsonpath THEN value = Undefined \/ (SameType /\ Kind(value) # "arr") ELSE value # Undefined
          [] op \in {"Contains", "NotContains"} ->
               /\ value = Undefined => op = "Contains"
               /\ value # Undefined => /\ DeepContains(value, a) # "throws"
                                       /\ ~HasEmptyArray(a)
                                       /\ ~(Kind(value) = "arr" /\ IsPrimitive(a))
          [] op = "In" -> TRUE
          [] op = "NotIn" -> value # Undefined \/ a # Arr(<<>>)
          [] OTHER -> value = Undefined \/ IsOrdered(value, a)
=============================================================================

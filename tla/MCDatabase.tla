------------------------------ MODULE MCDatabase ------------------------------
(* Small instances of Historian for TLC.                                   *)
EXTENDS Historian

Object(id, rank, peer) == [objectId |-> id, rank |-> rank, peer |-> peer]

o1 == Object(1, 2, Undefined)
o1new == Object(1, 1, 2)
o2 == Object(2, 1, 1)
o3 == Object(3, Undefined, 1)
malformed == Object(Undefined, 1, 1)

StoredContents == {<<>>, <<o1>>, <<o2, o1new, o3>>, <<o1, o2, Object(3, 2, 1), Object(4, 1, 1)>>}
WrittenObjects == {<<o1>>, <<o2, o1new>>, <<o1, o1new>>, <<o3, malformed>>}

By(property, order) == [property |-> property, order |-> order]
Query(conditions, orderBy, skip, take) ==
  [conditions |-> conditions, orderBy |-> orderBy, skip |-> skip, take |-> take]
RankIn(values) == [property |-> "rank", values |-> values]

QueryFilters ==
  {NoFilter,
   Query(RankIn({1}), <<>>, 1, 0),
   Query(NoConditions, <<By("rank", "Desc"), By("peer", "Asc")>>, 1, 2)}

Join(name, property, isArray, isOneToOne) ==
  [fromCollection |-> name, fromProperty |-> property, isLocalPropertyArray |-> isArray,
   isOneToOneRelation |-> isOneToOne]

JoinConditions ==
  {Join("a", "peer", FALSE, FALSE), Join("a", "objectId", FALSE, TRUE),
   Join("a", "peer", TRUE, TRUE), Join("a", "objectId", TRUE, FALSE)}

OneJoin == {Join("a", "peer", FALSE, FALSE)}

AllOperations == {"insert", "update", "updateProperty", "deleteById", "delete", "find"}

UntilOne == {<<0, 1>>}

\* The application alone, and together with the historian
ApplicationOrHistorian ==
  {[contents |-> StoredContents, calls |-> 2, ops |-> AllOperations, maps |-> 2, depth |-> 2, jobs |-> 0, changes |-> 0],
   [contents |-> {<<o2, o1new>>}, calls |-> 1, ops |-> {"delete"}, maps |-> 2, depth |-> 1, jobs |-> 2, changes |-> 1]}
==============================================================================

--------------------------- MODULE MCSqlTransactions ---------------------------
(* Small instances of SqlAdapters for TLC.                                 *)
EXTENDS SqlAdapters

Option(skip, take, mode, size) == [skip |-> skip, take |-> take, mode |-> mode, size |-> size]

QueryOptions == {Option(0, -1, "each", 0), Option(1, 2, "batch", 2), Option(0, 0, "batch", 0)}
TwoCallers == 1..2
RowNumbers == {0, 3}
NoRows == {0}
==============================================================================

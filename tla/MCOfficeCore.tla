---------------------------- MODULE MCOfficeCore ----------------------------
(* A small instance of OfficeCore.                                          *)
EXTENDS OfficeCore, FiniteSetsExt

CONSTANT MaxAdded   \* bound: rows all requests together may add

\* Bounds: the ids each table may hand out, seed rows included.  Three roles for
\* two names, so that two can come to share one.
OfficeLimits == [t \in TableName |-> IF t = "Role" THEN 3 ELSE 2]

Added(tables) ==
  MapThenSumSet(LAMBDA t : db.sequence[t] - (IF t = "Role" THEN 2 ELSE 1), tables)

\* Bound: two rows of accounts and sales, so that two orders can come to have two
\* lines, or one of the tables sales refer to.
FewAdded ==
  Added(TableName) + Added({"Contact", "Employee", "Supplier", "ProductType"}) <= MaxAdded
=============================================================================

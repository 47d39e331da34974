---------------------------- MODULE MCWorkspace ----------------------------
(* Small instances of Workspace.                                            *)
EXTENDS Workspace

Desk(tabs, changes, openings, lost) ==
  [tabs |-> tabs, changes |-> changes, openings |-> openings, lost |-> lost]

\* Every tab, those that share a model or a list two by two. The tabs of four
\* and five lists have smaller bounds.
SmallDesks ==
  {Desk({"users", "roles"}, 2, 2, 1), Desk({"products", "stocks"}, 2, 2, 1),
   Desk({"offers"}, 1, 2, 1), Desk({"management"}, 1, 2, 1), Desk({"logs"}, 2, 2, 1),
   Desk({"analytics"}, 1, 1, 1), Desk({"purchase"}, 1, 1, 1), Desk({"sales"}, 1, 1, 1)}
=============================================================================

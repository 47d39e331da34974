---------------------------- MODULE MCOrderDesk ----------------------------
(* Small instances of OrderDesk: two orders with a line each.               *)
EXTENDS OrderDesk

Orders == {"o1", "o2"}
MoreOrders == {"o1", "o2", "o3"}
Lines == {"l1", "l2", "l3"}
TwoLines == [l \in {"l1", "l2"} |-> IF l = "l1" THEN "o1" ELSE "o2"]
BothViews == {"sales", "purchase"}
TheSalesView == {"sales"}
=============================================================================

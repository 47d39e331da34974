---------------------------- MODULE StockLedger ----------------------------
(***************************************************************************)
(* What the server promises about stock and receipts, with no database, no *)
(* transaction and no crash: an order adds the quantities of its lines to  *)
(* the stock in one step, at most once, and is frozen from then on; apart  *)
(* from that a stock changes only when somebody edits the stock itself.    *)
(***************************************************************************)
EXTENDS Integers

VARIABLES
  demand,   \* for each order, the quantity of each product its lines ask for
  received, \* the orders that have been received
  onHand    \* for each product that has a stock, the quantity on hand

vars == <<demand, received, onHand>>

OnHandOf(p) == IF p \in DOMAIN onHand THEN onHand[p] ELSE 0

Init ==
  /\ received = {}
  /\ \A p \in DOMAIN onHand : onHand[p] = 0

Receive(o) ==
  /\ o \in DOMAIN demand
  /\ o \notin received
  /\ DOMAIN demand[o] # {}
  /\ received' = received \cup {o}
  /\ onHand' = [p \in DOMAIN onHand \cup DOMAIN demand[o] |->
                  OnHandOf(p) + (IF p \in DOMAIN demand[o] THEN demand[o][p] ELSE 0)]
  /\ UNCHANGED demand

\* Orders come, change and go; a received one does none of that.
AmendOrders ==
  /\ \A o \in received : o \in DOMAIN demand' /\ demand'[o] = demand[o]
  /\ UNCHANGED <<received, onHand>>

\* A stock row is written by hand: it may move from one product to another.
EditStock(p, q) ==
  /\ \A x \in (DOMAIN onHand \cup DOMAIN onHand') \ {p, q} :
       x \in DOMAIN onHand /\ x \in DOMAIN onHand' /\ onHand'[x] = onHand[x]
  /\ UNCHANGED <<demand, received>>

EditAnyStock ==
  \E p, q \in DOMAIN onHand \cup DOMAIN onHand' : EditStock(p, q)

Next == (\E o \in DOMAIN demand : Receive(o)) \/ AmendOrders \/ EditAnyStock

Spec == Init /\ [][Next]_vars
=============================================================================

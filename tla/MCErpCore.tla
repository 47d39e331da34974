----------------------------- MODULE MCErpCore -----------------------------
(* Small instances of ErpCore.                                              *)
EXTENDS ErpCore, TLC

CONSTANTS c1, c2

OneProduct == <<c1>>
TwoProducts == <<c1, c2>>

\* Bounds: the ids each table may hand out, seed rows included.
Limits(products, stocks, offers, orders, lines) ==
  [t \in TableName |->
     CASE t = "ProductType" -> products
       [] t = "Inventory" -> stocks
       [] t = "SuppliersProductInfo" -> offers
       [] t = "PurchaseOrder" -> orders
       [] t = "PurchaseOrderRecord" -> lines]

\* Two orders, three lines, two products: an order with two lines of one
\* product, a receipt that updates one stock and creates another.
ReceiptLimits == Limits(2, 2, 0, 2, 3)

\* Three product ids for two codes, two stocks, an offer and an order's line to
\* refer to them, and a receipt to be cut short.
CatalogueLimits == Limits(3, 2, 1, 1, 1)
=============================================================================

--------------------------- MODULE PurchaseModule ---------------------------
(***************************************************************************)
(* BusinessLogic/PurchaseModule.cpp: purchase orders, their lines, and the *)
(* posting of receipts.  A request whose handler throws before its first   *)
(* writing statement changes nothing and is no step of the model.          *)
(***************************************************************************)
EXTENDS ErpStore, FiniteSets

RecordsOf(d, o) ==
  {r \in DOMAIN d.PurchaseOrderRecord : d.PurchaseOrderRecord[r].orderId = o}

\* getOrderById followed by ensureOrderIsNotReceived.
OrderIsOpen(o) ==
  /\ o \in DOMAIN db.PurchaseOrder
  /\ db.PurchaseOrder[o].status # "Received"

\* ensureOrderStatusCanBeSetManually.
CanBeSetManually(status) == status # "Received"

-----------------------------------------------------------------------------
(* Orders.                                                                  *)

AddOrder(u, s, status) ==
  /\ task = Idle
  /\ CanBeSetManually(status)
  /\ u \in db.User /\ s \in db.Supplier
  /\ RoomFor("PurchaseOrder", 1)
  /\ db' = Insert(db, "PurchaseOrder", [userId |-> u, supplierId |-> s, status |-> status])
  /\ UNCHANGED <<journal, task, faults>>

EditOrder(o, u, s, status) ==
  /\ task = Idle
  /\ OrderIsOpen(o)
  /\ CanBeSetManually(status)
  /\ u \in db.User /\ s \in db.Supplier
  /\ db' = Update(db, "PurchaseOrder", o, [userId |-> u, supplierId |-> s, status |-> status])
  /\ UNCHANGED <<journal, task, faults>>

\* Mutant: deleteOrder without ensureOrderIsNotReceived.
DeleteAnyOrder(o) ==
  /\ task = Idle
  /\ o \in DOMAIN db.PurchaseOrder
  /\ task' = [op |-> "deleteOrder", order |-> o, records |-> RecordsOf(db, o)]
  /\ UNCHANGED <<db, journal, faults>>

\* Mutant: deleteOrder that does not delete the lines first.
DeleteOrderNotItsLines(o) ==
  /\ task = Idle
  /\ OrderIsOpen(o)
  /\ task' = [op |-> "deleteOrder", order |-> o, records |-> {}]
  /\ UNCHANGED <<db, journal, faults>>

\* deleteOrder reads the ids of the order's lines, deletes them one statement
\* at a time in the order the query returned them (any order here), and then
\* deletes the order.  No transaction surrounds the loop.
DeleteOrder(o) ==
  /\ task = Idle
  /\ OrderIsOpen(o)
  /\ task' = [op |-> "deleteOrder", order |-> o, records |-> RecordsOf(db, o)]
  /\ UNCHANGED <<db, journal, faults>>

DeleteNextRecord(r) ==
  /\ task.op = "deleteOrder"
  /\ r \in task.records
  /\ db' = Delete(db, "PurchaseOrderRecord", r)
  /\ task' = [task EXCEPT !.records = @ \ {r}]
  /\ UNCHANGED <<journal, faults>>

DeleteOrderRow ==
  /\ task.op = "deleteOrder"
  /\ task.records = {}
  /\ ~PurchaseOrderReferenced(db, task.order)
  /\ db' = Delete(db, "PurchaseOrder", task.order)
  /\ task' = Idle
  /\ UNCHANGED <<journal, faults>>

-----------------------------------------------------------------------------
(* Order lines.                                                             *)

AddOrderRecord(o, p, q) ==
  /\ task = Idle
  /\ OrderIsOpen(o)
  /\ p \in DOMAIN db.ProductType
  /\ RoomFor("PurchaseOrderRecord", 1)
  /\ db' = Insert(db, "PurchaseOrderRecord",
                  [orderId |-> o, productTypeId |-> p, quantity |-> q])
  /\ UNCHANGED <<journal, task, faults>>

\* Mutant: editOrderRecord that checks the order the line is in, not the one it
\* moves to.
EditOrderRecordUncheckedTarget(r, o, p, q) ==
  /\ task = Idle
  /\ r \in DOMAIN db.PurchaseOrderRecord
  /\ OrderIsOpen(db.PurchaseOrderRecord[r].orderId)
  /\ o \in DOMAIN db.PurchaseOrder
  /\ p \in DOMAIN db.ProductType
  /\ db' = Update(db, "PurchaseOrderRecord", r,
                  [orderId |-> o, productTypeId |-> p, quantity |-> q])
  /\ UNCHANGED <<journal, task, faults>>

\* The line may move to another order: both orders must be open.
EditOrderRecord(r, o, p, q) ==
  /\ task = Idle
  /\ r \in DOMAIN db.PurchaseOrderRecord
  /\ OrderIsOpen(db.PurchaseOrderRecord[r].orderId)
  /\ OrderIsOpen(o)
  /\ p \in DOMAIN db.ProductType
  /\ db' = Update(db, "PurchaseOrderRecord", r,
                  [orderId |-> o, productTypeId |-> p, quantity |-> q])
  /\ UNCHANGED <<journal, task, faults>>

\* Mutant: deleteOrderRecord that does not look at the parent order.
DeleteAnyOrderRecord(r) ==
  /\ task = Idle
  /\ r \in DOMAIN db.PurchaseOrderRecord
  /\ db' = Delete(db, "PurchaseOrderRecord", r)
  /\ UNCHANGED <<journal, task, faults>>

DeleteOrderRecord(r) ==
  /\ task = Idle
  /\ r \in DOMAIN db.PurchaseOrderRecord
  /\ OrderIsOpen(db.PurchaseOrderRecord[r].orderId)
  /\ db' = Delete(db, "PurchaseOrderRecord", r)
  /\ UNCHANGED <<journal, task, faults>>

-----------------------------------------------------------------------------
(* Receipts.                                                                *)

ProductsOf(d, o) == {d.PurchaseOrderRecord[r].productTypeId : r \in RecordsOf(d, o)}

StocksOf(d, p) == {s \in DOMAIN d.Inventory : d.Inventory[s].productTypeId = p}

OnHand(d, p) ==
  IF StocksOf(d, p) = {} THEN 0
  ELSE d.Inventory[CHOOSE s \in StocksOf(d, p) : TRUE].quantityAvailable

\* The quantities of the lines of order o for product p, by line.
LineQuantities(d, o, p) ==
  [r \in {x \in RecordsOf(d, o) : d.PurchaseOrderRecord[x].productTypeId = p} |->
     d.PurchaseOrderRecord[r].quantity]

OrderedQuantity(d, o, p) == SumFunction(LineQuantities(d, o, p))

\* Mutant: each line starts again from the stock that was read, so of several
\* lines for a product only one counts.
PlannedStocksOneLine(d, o) ==
  [p \in ProductsOf(d, o) |->
     [id |-> IF StocksOf(d, p) = {} THEN 0 ELSE CHOOSE s \in StocksOf(d, p) : TRUE,
      quantityAvailable |->
        LET lines == LineQuantities(d, o, p)
        IN  OnHand(d, p) + lines[CHOOSE r \in DOMAIN lines : TRUE]]]

\* The stock mutations receiveOrder computes before it opens a transaction,
\* one for each product of the order however many lines name it.  Id 0 stands
\* for a row to be created.
PlannedStocks(d, o) ==
  [p \in ProductsOf(d, o) |->
     [id |-> IF StocksOf(d, p) = {} THEN 0 ELSE CHOOSE s \in StocksOf(d, p) : TRUE,
      quantityAvailable |-> OnHand(d, p) + OrderedQuantity(d, o, p)]]

Created(plan) == {p \in DOMAIN plan : plan[p].id = 0}

\* Mutant: receiveOrder without the overflow check of addQuantities.
ReceiveOrderUnbounded(o, e) ==
  /\ task = Idle
  /\ e \in db.Employee
  /\ OrderIsOpen(o)
  /\ RecordsOf(db, o) # {}
  /\ LET plan == PlannedStocks(db, o)
     IN  task' = [op |-> "receiveOrder", order |-> o, employee |-> e, plan |-> plan,
                  row |-> db.PurchaseOrder[o], pending |-> DOMAIN plan,
                  phase |-> "planned"]
  /\ UNCHANGED <<db, journal, faults>>

\* The reading part of receiveOrder: every check, and the plan.  addQuantities
\* refuses a sum beyond MaxQuantity; quantities are never negative, so the
\* total of the lines stays in range exactly when every partial sum does.
ReceiveOrder(o, e) ==
  /\ task = Idle
  /\ e \in db.Employee
  /\ OrderIsOpen(o)
  /\ RecordsOf(db, o) # {}
  /\ ProductsOf(db, o) \subseteq DOMAIN db.ProductType
  /\ LET plan == PlannedStocks(db, o)
     IN  /\ \A p \in DOMAIN plan : plan[p].quantityAvailable \in Quantity
         /\ RoomFor("Inventory", Cardinality(Created(plan)))
         /\ task' = [op |-> "receiveOrder", order |-> o, employee |-> e, plan |-> plan,
                     row |-> db.PurchaseOrder[o], pending |-> DOMAIN plan,
                     phase |-> "planned"]
  /\ UNCHANGED <<db, journal, faults>>

\* Mutant: the writes of a receipt are not put in a transaction.
BeginNothing ==
  /\ task.op = "receiveOrder" /\ task.phase = "planned"
  /\ ~journal.open
  /\ task' = [task EXCEPT !.phase = "writing"]
  /\ UNCHANGED <<db, journal, faults>>

\* runInTransaction: BEGIN, the planned writes, the order's row as read at the
\* start with its status set, COMMIT.
BeginReceipt ==
  /\ task.op = "receiveOrder" /\ task.phase = "planned"
  /\ Begin
  /\ task' = [task EXCEPT !.phase = "writing"]
  /\ UNCHANGED <<db, faults>>

BeginFails ==
  /\ task.op = "receiveOrder" /\ task.phase = "planned"
  /\ journal.open
  /\ task' = Idle
  /\ UNCHANGED <<db, journal, faults>>

WriteStock(p) ==
  LET stock == [productTypeId     |-> p,
                quantityAvailable |-> task.plan[p].quantityAvailable,
                employeeId        |-> task.employee]
  IN  IF task.plan[p].id = 0
      THEN Insert(db, "Inventory", stock)
      ELSE Update(db, "Inventory", task.plan[p].id, stock)

PostStock(p) ==
  /\ task.op = "receiveOrder" /\ task.phase = "writing"
  /\ p \in task.pending
  /\ task.plan[p].id = 0 => RoomFor("Inventory", 1)
  /\ db' = WriteStock(p)
  /\ task' = [task EXCEPT !.pending = @ \ {p}]
  /\ UNCHANGED <<journal, faults>>

MarkReceived ==
  /\ task.op = "receiveOrder" /\ task.phase = "writing"
  /\ task.pending = {}
  /\ db' = Update(db, "PurchaseOrder", task.order, [task.row EXCEPT !.status = "Received"])
  /\ task' = [task EXCEPT !.phase = "written"]
  /\ UNCHANGED <<journal, faults>>

\* Mutant: runInTransaction that never reaches its COMMIT.
CommitForgotten ==
  /\ task.op = "receiveOrder" /\ task.phase = "written"
  /\ Rollback
  /\ task' = Idle
  /\ UNCHANGED faults

CommitReceipt ==
  /\ task.op = "receiveOrder" /\ task.phase = "written"
  /\ Commit
  /\ task' = Idle
  /\ UNCHANGED faults

-----------------------------------------------------------------------------
(* A statement of a running task fails: full disk, I/O error, lock.         *)

InTransaction == task.op = "receiveOrder" /\ task.phase \in {"writing", "written"}

\* Mutant: runInTransaction that rethrows without rolling back.
StatementFailsInTransaction ==
  /\ task # Idle
  /\ Fault
  /\ UNCHANGED <<db, journal>>
  /\ task' = Idle

\* Outside a transaction, and when BEGIN itself fails, the exception just ends
\* the task; inside one runInTransaction rolls back and rethrows.
StatementFails ==
  /\ task # Idle
  /\ Fault
  /\ IF InTransaction THEN Rollback ELSE UNCHANGED <<db, journal>>
  /\ task' = Idle

\* The ROLLBACK throws as well; the exception is swallowed and the connection
\* stays in the transaction.
RollbackFails ==
  /\ RollbackMayFail
  /\ InTransaction
  /\ Fault
  /\ task' = Idle
  /\ UNCHANGED <<db, journal>>

-----------------------------------------------------------------------------
PurchaseRequest ==
  \/ \E u \in Users, s \in Suppliers, status \in Status :
       \/ AddOrder(u, s, status)
       \/ \E o \in Id("PurchaseOrder") : EditOrder(o, u, s, status)
  \/ \E o \in Id("PurchaseOrder") :
       \/ DeleteOrder(o)
       \/ \E e \in Employees : ReceiveOrder(o, e)
       \/ \E p \in Id("ProductType"), q \in RequestQuantities :
            \/ AddOrderRecord(o, p, q)
            \/ \E r \in Id("PurchaseOrderRecord") : EditOrderRecord(r, o, p, q)
  \/ \E r \in Id("PurchaseOrderRecord") : DeleteOrderRecord(r)

\* The server thread going on with the handler it is in.
PurchaseStep ==
  \/ \E r \in Id("PurchaseOrderRecord") : DeleteNextRecord(r)
  \/ DeleteOrderRow
  \/ BeginReceipt
  \/ BeginFails
  \/ \E p \in Id("ProductType") : PostStock(p)
  \/ MarkReceived
  \/ CommitReceipt

PurchaseFault == StatementFails \/ RollbackFails \/ Crash
=============================================================================

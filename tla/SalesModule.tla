---------------------------- MODULE SalesModule ----------------------------
(***************************************************************************)
(* BusinessLogic/SalesModule.cpp: sale orders and their lines.  Unlike     *)
(* purchase orders they have no receipt and no status a guard reads.       *)
(***************************************************************************)
EXTENDS OfficeStore

RecordsOf(d, o) ==
  {r \in DOMAIN d.SalesOrderRecord : d.SalesOrderRecord[r].orderId = o}

\* ensureEntityExists for the user, the contact and the employee of an order.
PartiesExist(u, c, e) ==
  /\ u \in DOMAIN db.User
  /\ c \in DOMAIN db.Contact
  /\ e \in DOMAIN db.Employee

\* buildOrder: the columns of a request that are kept.
OrderRow(u, c, e) == [userId |-> u, contactId |-> c, employeeId |-> e]

RecordRow(o, p) == [orderId |-> o, productTypeId |-> p]

AddOrder(u, c, e) ==
  /\ task = Idle
  /\ PartiesExist(u, c, e)
  /\ RoomFor("SaleOrder")
  /\ db' = Insert(db, "SaleOrder", OrderRow(u, c, e))
  /\ UNCHANGED <<task, faults, renamed>>

EditOrder(o, u, c, e) ==
  /\ task = Idle
  /\ o \in DOMAIN db.SaleOrder
  /\ PartiesExist(u, c, e)
  /\ db' = Update(db, "SaleOrder", o, OrderRow(u, c, e))
  /\ UNCHANGED <<task, faults, renamed>>

\* Mutant: deleteOrder that leaves out a line of the order.
DeleteOrderMissesALine(o) ==
  /\ task = Idle
  /\ o \in DOMAIN db.SaleOrder
  /\ task' = [op |-> "deleteOrder", order |-> o,
              records |-> RecordsOf(db, o) \ {CHOOSE r \in Id("SalesOrderRecord") : TRUE}]
  /\ UNCHANGED <<db, faults, renamed>>

\* Reads the lines of the order; each is then deleted by a statement that
\* commits by itself, and the order after the last of them.
DeleteOrder(o) ==
  /\ task = Idle
  /\ o \in DOMAIN db.SaleOrder
  /\ task' = [op |-> "deleteOrder", order |-> o, records |-> RecordsOf(db, o)]
  /\ UNCHANGED <<db, faults, renamed>>

\* Mutant: deleteOrder that returns from the loop over the lines.
DeleteNextRecordReturns(r) ==
  /\ task.op = "deleteOrder"
  /\ r \in task.records
  /\ db' = Delete(db, "SalesOrderRecord", r)
  /\ task' = Idle
  /\ UNCHANGED <<faults, renamed>>

DeleteNextRecord(r) ==
  /\ task.op = "deleteOrder"
  /\ r \in task.records
  /\ db' = Delete(db, "SalesOrderRecord", r)
  /\ task' = [task EXCEPT !.records = @ \ {r}]
  /\ UNCHANGED <<faults, renamed>>

\* Mutant: an order row that is looked for in the wrong table and never goes.
DeleteOrderRowKeepsIt ==
  /\ task.op = "deleteOrder"
  /\ task.records = {}
  /\ task' = Idle
  /\ UNCHANGED <<db, faults, renamed>>

DeleteOrderRow ==
  /\ task.op = "deleteOrder"
  /\ task.records = {}
  /\ ~Referenced(db, "SaleOrder", task.order)
  /\ db' = Delete(db, "SaleOrder", task.order)
  /\ task' = Idle
  /\ UNCHANGED <<faults, renamed>>

AddOrderRecord(o, p) ==
  /\ task = Idle
  /\ o \in DOMAIN db.SaleOrder
  /\ p \in DOMAIN db.ProductType
  /\ RoomFor("SalesOrderRecord")
  /\ db' = Insert(db, "SalesOrderRecord", RecordRow(o, p))
  /\ UNCHANGED <<task, faults, renamed>>

\* The line may move to another order.
EditOrderRecord(r, o, p) ==
  /\ task = Idle
  /\ r \in DOMAIN db.SalesOrderRecord
  /\ o \in DOMAIN db.SaleOrder
  /\ p \in DOMAIN db.ProductType
  /\ db' = Update(db, "SalesOrderRecord", r, RecordRow(o, p))
  /\ UNCHANGED <<task, faults, renamed>>

DeleteOrderRecord(r) ==
  /\ task = Idle
  /\ r \in DOMAIN db.SalesOrderRecord
  /\ db' = Delete(db, "SalesOrderRecord", r)
  /\ UNCHANGED <<task, faults, renamed>>

\* A statement throws, or the process dies: what was deleted stays deleted.
StatementFails ==
  /\ task # Idle
  /\ Fault
  /\ task' = Idle
  /\ UNCHANGED <<db, renamed>>

-----------------------------------------------------------------------------
SalesRequest ==
  \/ \E u \in Id("User"), c \in Id("Contact"), e \in Id("Employee") :
       \/ AddOrder(u, c, e)
       \/ \E o \in Id("SaleOrder") : EditOrder(o, u, c, e)
  \/ \E o \in Id("SaleOrder") :
       \/ DeleteOrder(o)
       \/ \E p \in Id("ProductType") :
            \/ AddOrderRecord(o, p)
            \/ \E r \in Id("SalesOrderRecord") : EditOrderRecord(r, o, p)
  \/ \E r \in Id("SalesOrderRecord") : DeleteOrderRecord(r)

SalesStep ==
  \/ \E r \in Id("SalesOrderRecord") : DeleteNextRecord(r)
  \/ DeleteOrderRow
=============================================================================

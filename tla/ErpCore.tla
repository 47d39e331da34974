------------------------------ MODULE ErpCore ------------------------------
(***************************************************************************)
(* The purchase and inventory modules and the people they refer to,        *)
(* working on one database in one server thread.                           *)
(***************************************************************************)
EXTENDS PurchaseModule, InventoryModule, People

AnyRequest == PurchaseRequest \/ InventoryRequest \/ PeopleRequest

Next == AnyRequest \/ PurchaseStep \/ PurchaseFault

Spec == Init /\ [][Next]_vars

\* The thread stays in a handler until it returns, and a statement returns or
\* throws: a task that can go on goes on.  Nothing obliges a client to send a
\* request, and faults are never due.
FairSpec == Spec /\ WF_vars(PurchaseStep)

-----------------------------------------------------------------------------
(* Types.                                                                   *)

Plan == Table(Id("ProductType"), [id : {0} \cup Id("Inventory"), quantityAvailable : Quantity])

Task ==
  {Idle}
    \cup [op : {"deleteOrder"}, order : Id("PurchaseOrder"),
          records : SUBSET Id("PurchaseOrderRecord")]
    \cup [op : {"receiveOrder"}, order : Id("PurchaseOrder"), employee : Employees,
          plan : Plan, row : PurchaseOrderRow, pending : SUBSET Id("ProductType"),
          phase : {"planned", "writing", "written"}]

PendingIsPlanned == task.op = "receiveOrder" => task.pending \subseteq DOMAIN task.plan

\* The tables hold rows of their columns' types, a saved copy of them is kept
\* exactly while a transaction is open, and the locals of the running handler
\* are ids and quantities that fit their columns: no receipt plans a quantity
\* beyond the 64-bit maximum.
TypeOK ==
  /\ db \in Database
  /\ journal \in Journal
  /\ task \in Task /\ PendingIsPlanned
  /\ faults \in 0 .. MaxFaults

-----------------------------------------------------------------------------
(* Invariants of a database value.                                          *)

\* AUTOINCREMENT never hands out an id that a row already has.
IdsWereHandedOut(d) == \A t \in TableName : DOMAIN d[t] \subseteq 1 .. d.sequence[t]

LinesHaveParents(d) ==
  \A r \in DOMAIN d.PurchaseOrderRecord :
    /\ d.PurchaseOrderRecord[r].orderId \in DOMAIN d.PurchaseOrder
    /\ d.PurchaseOrderRecord[r].productTypeId \in DOMAIN d.ProductType

StocksHaveParents(d) ==
  \A s \in DOMAIN d.Inventory :
    /\ d.Inventory[s].productTypeId \in DOMAIN d.ProductType
    /\ d.Inventory[s].employeeId \in d.Employee

OrdersHaveParents(d) ==
  \A o \in DOMAIN d.PurchaseOrder :
    /\ d.PurchaseOrder[o].userId \in d.User
    /\ d.PurchaseOrder[o].supplierId \in d.Supplier

OffersHaveParents(d) ==
  \A i \in DOMAIN d.SuppliersProductInfo :
    /\ d.SuppliersProductInfo[i].supplierID \in d.Supplier
    /\ d.SuppliersProductInfo[i].productTypeId \in DOMAIN d.ProductType

ForeignKeysHold(d) ==
  LinesHaveParents(d) /\ StocksHaveParents(d) /\ OrdersHaveParents(d) /\ OffersHaveParents(d)

StocksAreUnique(d) ==
  \A s1, s2 \in DOMAIN d.Inventory :
    d.Inventory[s1].productTypeId = d.Inventory[s2].productTypeId => s1 = s2

CodesAreUnique(d) ==
  \A p1, p2 \in DOMAIN d.ProductType : d.ProductType[p1] = d.ProductType[p2] => p1 = p2

Received(d) == {o \in DOMAIN d.PurchaseOrder : d.PurchaseOrder[o].status = "Received"}

ReceivedHaveLines(d) == \A o \in Received(d) : RecordsOf(d, o) # {}

-----------------------------------------------------------------------------
(* Safety.                                                                  *)

\* No statement the handlers issue leaves a dangling reference: neither in what
\* the connection reads, in the middle of a task included, nor in the file a
\* crash leaves behind.
ReferentialIntegrity == ForeignKeysHold(db) /\ ForeignKeysHold(Committed)

\* A product has at most one stock row, through manual edits that move a row to
\* another product and receipts that create one: the handlers' own checks
\* suffice, UNIQUE (productTypeId) never has to stop them.
OneStockPerProduct == StocksAreUnique(db) /\ StocksAreUnique(Committed)

\* Two product types never share a code, which only the handlers see to.
ProductCodesUnique == CodesAreUnique(db) /\ CodesAreUnique(Committed)

\* A received order keeps the lines its stock came from: neither deleting nor
\* moving lines, nor a delete of the order that was cut short, empties it.
ReceivedOrdersHaveLines == ReceivedHaveLines(db) /\ ReceivedHaveLines(Committed)

\* The stock rows and the order receiveOrder read before BEGIN are still what
\* the transaction builds on when it writes: no receipt overwrites a change made
\* since, and the rows it means to create do not exist.
PlanIsFresh ==
  task.op = "receiveOrder" =>
    LET read == IF InTransaction THEN Committed ELSE db
    IN  /\ task.plan = PlannedStocks(read, task.order)
        /\ task.row = read.PurchaseOrder[task.order]
        /\ task.row.status # "Received"

\* No request is answered while its writes are still in an open transaction.
IdleMeansCommitted == task = Idle => ~journal.open

Final(d, e) ==
  \A o \in Received(d) :
    /\ o \in DOMAIN e.PurchaseOrder
    /\ e.PurchaseOrder[o] = d.PurchaseOrder[o]
    /\ RecordsOf(e, o) = RecordsOf(d, o)
    /\ \A r \in RecordsOf(d, o) : e.PurchaseOrderRecord[r] = d.PurchaseOrderRecord[r]

\* Once the file says an order is received, its row and its lines never change
\* again, whatever requests, faults and restarts follow.
ReceivedIsFinal == [][Final(Committed, Committed')]_vars

Demand(d) ==
  [o \in DOMAIN d.PurchaseOrder |-> [p \in ProductsOf(d, o) |-> OrderedQuantity(d, o, p)]]

Stock(d) ==
  [p \in {d.Inventory[s].productTypeId : s \in DOMAIN d.Inventory} |-> OnHand(d, p)]

\* The abstract ledger, seen in the database file: a receipt is one step that
\* adds exactly the quantities of the lines, whatever statement fails and
\* wherever the process dies.
Ledger ==
  INSTANCE StockLedger WITH
    demand <- Demand(Committed), received <- Received(Committed), onHand <- Stock(Committed)

ImplementsLedger == Ledger!Spec

-----------------------------------------------------------------------------
(* The inductive invariant.                                                 *)

Consistent(d) ==
  /\ IdsWereHandedOut(d)
  /\ ForeignKeysHold(d)
  /\ StocksAreUnique(d)
  /\ CodesAreUnique(d)
  /\ ReceivedHaveLines(d)

\* What deleteOrder found at its start still holds between its statements.
DeleteUnderWay ==
  task.op = "deleteOrder" =>
    OrderIsOpen(task.order) /\ task.records \subseteq RecordsOf(db, task.order)

\* What receiveOrder found: its references exist, and the stocks it has yet to
\* write are the ones it planned for.
ReceiptUnderWay ==
  task.op = "receiveOrder" =>
    /\ task.order \in DOMAIN db.PurchaseOrder
    /\ RecordsOf(db, task.order) # {}
    /\ task.row.userId \in db.User /\ task.row.supplierId \in db.Supplier
    /\ task.employee \in db.Employee
    /\ DOMAIN task.plan \subseteq DOMAIN db.ProductType
    /\ task.phase = "planned" => task.pending = DOMAIN task.plan
    /\ \A p \in task.pending :
         IF task.plan[p].id = 0 THEN StocksOf(db, p) = {} ELSE task.plan[p].id \in StocksOf(db, p)

SameStock(d1, d2, p) ==
  (StocksOf(d1, p) = {} <=> StocksOf(d2, p) = {}) /\ OnHand(d1, p) = OnHand(d2, p)

Posted == DOMAIN task.plan \ task.pending

\* How far an open receipt is ahead of the file: the stocks it posted, and at
\* the end the status of its order.
WrittenSoFar ==
  InTransaction =>
    /\ journal.open
    /\ task.phase = "written" => task.pending = {}
    /\ db.PurchaseOrderRecord = Committed.PurchaseOrderRecord
    /\ db.PurchaseOrder =
         IF task.phase = "writing" THEN Committed.PurchaseOrder
         ELSE [Committed.PurchaseOrder EXCEPT ![task.order] = [task.row EXCEPT !.status = "Received"]]
    /\ \A p \in Id("ProductType") :
         IF p \in Posted
         THEN StocksOf(db, p) # {} /\ OnHand(db, p) = task.plan[p].quantityAvailable
         ELSE SameStock(db, Committed, p)

IInv ==
  /\ TypeOK
  /\ Consistent(db) /\ Consistent(Committed)
  /\ DeleteUnderWay /\ ReceiptUnderWay
  /\ PlanIsFresh
  /\ WrittenSoFar

-----------------------------------------------------------------------------
(* What liveness rests on: a handler under way is never refused its next    *)
(* statement, has fewer and fewer of them left, and ends with its work done.*)

\* The rows a receipt has yet to create.
StillToCreate == {p \in task.pending : task.plan[p].id = 0}

\* Nobody adds a line to an order whose deletion is under way, and the ids a
\* receipt was promised are still to be had when it comes to its inserts.
NothingStandsInTheWay ==
  /\ task.op = "deleteOrder" /\ task.records = {} => ~PurchaseOrderReferenced(db, task.order)
  /\ task.op = "receiveOrder" /\ task.phase = "writing" /\ StillToCreate # {} =>
       RoomFor("Inventory", 1)

WayIsClear ==
  /\ task.op = "deleteOrder" => RecordsOf(db, task.order) \subseteq task.records
  /\ task.op = "receiveOrder" => RoomFor("Inventory", Cardinality(StillToCreate))

\* How many statements the handler under way issues yet.
StatementsLeft ==
  CASE task.op = "deleteOrder" -> Cardinality(task.records) + 1
    [] task.op = "receiveOrder" /\ task.phase = "planned" -> Cardinality(task.pending) + 3
    [] task.op = "receiveOrder" /\ task.phase = "writing" -> Cardinality(task.pending) + 2
    [] task.op = "receiveOrder" /\ task.phase = "written" -> 1
    [] OTHER -> 0

\* Each step of a handler brings it nearer to its end, and nothing but another
\* request puts statements before it.
HandlersDescend ==
  [][/\ PurchaseStep => StatementsLeft' < StatementsLeft
     /\ task # Idle => StatementsLeft' <= StatementsLeft]_vars

\* A handler that ends without a fault has done what was asked for, in the file:
\* the order with all its lines is gone, or it is received.
FinishedMeansDone ==
  [][task # Idle /\ task' = Idle /\ faults' = faults =>
       \/ /\ task.op = "deleteOrder"
          /\ task.order \notin DOMAIN Committed'.PurchaseOrder
          /\ RecordsOf(Committed', task.order) = {}
       \/ task.op = "receiveOrder" /\ task.order \in Received(Committed')]_vars

-----------------------------------------------------------------------------
(* Liveness.                                                                *)

\* A delete that no fault cuts short takes the order and all its lines.
DeleteCompletes ==
  \A o \in Id("PurchaseOrder"), n \in 0 .. MaxFaults :
    (task.op = "deleteOrder" /\ task.order = o /\ faults = n)
      ~> \/ faults > n
         \/ o \notin DOMAIN Committed.PurchaseOrder /\ RecordsOf(Committed, o) = {}

\* A receipt that passed its checks is posted, unless a fault cuts it short.
ReceiptCompletes ==
  \A o \in Id("PurchaseOrder"), n \in 0 .. MaxFaults :
    (task.op = "receiveOrder" /\ task.order = o /\ faults = n)
      ~> (faults > n \/ o \in Received(Committed))
=============================================================================

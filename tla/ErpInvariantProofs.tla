------------------------- MODULE ErpInvariantProofs -------------------------
(***************************************************************************)
(* IInv is inductive, and what follows from it; received orders are final, *)
(* and ErpCore implements StockLedger.                                     *)
(***************************************************************************)
EXTENDS ErpCoreProofs, FiniteSetTheorems

-----------------------------------------------------------------------------
(* Requests.                                                                *)

\* A request that is one statement: with the thread idle the locals say
\* nothing, and the file is db itself or the copy kept since a BEGIN.
LEMMA OneStatement ==
  ASSUME IInv, task = Idle, Consistent(db'), TypeOK', UNCHANGED <<journal, task, faults>>
  PROVE  IInv'
<1>1. Consistent(Committed')
  BY DEF IInv, Committed
<1> QED
  BY <1>1 DEF IInv, Idle, DeleteUnderWay, ReceiptUnderWay, PlanIsFresh, WrittenSoFar, InTransaction

LEMMA PurchaseWrites ==
  ASSUME IInv, task = Idle
  PROVE  /\ \A u \in Users, s \in Suppliers, status \in Status :
              AddOrder(u, s, status) => Consistent(db')
         /\ \A o \in Id("PurchaseOrder"), u \in Users, s \in Suppliers, status \in Status :
              EditOrder(o, u, s, status) => Consistent(db')
         /\ \A o \in Id("PurchaseOrder"), p \in Id("ProductType"), q \in RequestQuantities :
              AddOrderRecord(o, p, q) => Consistent(db')
         /\ \A r \in Id("PurchaseOrderRecord"), o \in Id("PurchaseOrder"),
               p \in Id("ProductType"), q \in RequestQuantities :
              EditOrderRecord(r, o, p, q) => Consistent(db')
         /\ \A r \in Id("PurchaseOrderRecord") : DeleteOrderRecord(r) => Consistent(db')
<1>1. db \in Database /\ Consistent(db)
  BY DEF IInv, TypeOK
<1>2. \A u \in Users, s \in Suppliers, status \in Status :
        AddOrder(u, s, status) => Consistent(db')
  BY <1>1, OrderAdded DEF AddOrder, CanBeSetManually
<1>3. \A o \in Id("PurchaseOrder"), u \in Users, s \in Suppliers, status \in Status :
        EditOrder(o, u, s, status) => Consistent(db')
  BY <1>1, OrderUpdated DEF EditOrder, CanBeSetManually, OrderIsOpen
<1>4. \A o \in Id("PurchaseOrder"), p \in Id("ProductType"), q \in RequestQuantities :
        AddOrderRecord(o, p, q) => Consistent(db')
  BY <1>1, LineAdded DEF AddOrderRecord, OrderIsOpen
<1>5. \A r \in Id("PurchaseOrderRecord"), o \in Id("PurchaseOrder"),
         p \in Id("ProductType"), q \in RequestQuantities :
        EditOrderRecord(r, o, p, q) => Consistent(db')
  BY <1>1, LineUpdated DEF EditOrderRecord, OrderIsOpen
<1>6. \A r \in Id("PurchaseOrderRecord") : DeleteOrderRecord(r) => Consistent(db')
  BY <1>1, LineDeleted DEF DeleteOrderRecord, OrderIsOpen
<1> QED
  BY <1>2, <1>3, <1>4, <1>5, <1>6

LEMMA InventoryWrites ==
  ASSUME IInv, InventoryRequest
  PROVE  Consistent(db')
<1>1. db \in Database /\ Consistent(db)
  BY DEF IInv, TypeOK
<1>2. CASE ProductTypeRequest
  <2>1. ASSUME NEW c \in Codes, AddProductType(c)
        PROVE  Consistent(db')
    BY <1>1, <2>1, ProductTypeAdded DEF AddProductType, HoldersOfCode, Request
  <2>2. ASSUME NEW c \in Codes, NEW p \in Id("ProductType"), EditProductType(p, c)
        PROVE  Consistent(db')
    BY <1>1, <2>2, ProductTypeUpdated DEF EditProductType, HoldersOfCode, Request
  <2>3. ASSUME NEW p \in Id("ProductType"), DeleteProductType(p)
        PROVE  Consistent(db')
    BY <1>1, <2>3, ProductTypeDeleted DEF DeleteProductType, Request
  <2> QED
    BY <1>2, <2>1, <2>2, <2>3 DEF ProductTypeRequest
<1>3. CASE StockRequest
  <2>1. ASSUME NEW p \in Id("ProductType"), NEW q \in RequestQuantities, NEW e \in Employees,
               AddStock(p, q, e)
        PROVE  Consistent(db')
    BY <1>1, <2>1, StockAdded DEF AddStock, StocksByProduct, StocksOf, Request
  <2>2. ASSUME NEW p \in Id("ProductType"), NEW q \in RequestQuantities, NEW e \in Employees,
               NEW s \in Id("Inventory"), EditStock(s, p, q, e)
        PROVE  Consistent(db')
    BY <1>1, <2>2, StockUpdated DEF EditStock, StocksByProduct, StocksOf, Request
  <2>3. ASSUME NEW s \in Id("Inventory"), DeleteStock(s)
        PROVE  Consistent(db')
    BY <1>1, <2>3, StockDeleted DEF DeleteStock, Request
  <2> QED
    BY <1>3, <2>1, <2>2, <2>3 DEF StockRequest
<1>4. CASE SupplierProductRequest
  <2>1. ASSUME NEW s \in Suppliers, NEW p \in Id("ProductType"), AddSupplierProduct(s, p)
        PROVE  Consistent(db')
    BY <1>1, <2>1, OfferAdded DEF AddSupplierProduct, Request
  <2>2. ASSUME NEW s \in Suppliers, NEW p \in Id("ProductType"),
               NEW i \in Id("SuppliersProductInfo"), EditSupplierProduct(i, s, p)
        PROVE  Consistent(db')
    BY <1>1, <2>2, OfferUpdated DEF EditSupplierProduct, Request
  <2>3. ASSUME NEW i \in Id("SuppliersProductInfo"), DeleteSupplierProduct(i)
        PROVE  Consistent(db')
    BY <1>1, <2>3, OfferDeleted DEF DeleteSupplierProduct, Request
  <2> QED
    BY <1>4, <2>1, <2>2, <2>3 DEF SupplierProductRequest
<1> QED
  BY <1>2, <1>3, <1>4 DEF InventoryRequest

LEMMA PeopleWrites ==
  ASSUME IInv, PeopleRequest
  PROVE  Consistent(db')
<1>1. db \in Database /\ Consistent(db)
  BY DEF IInv, TypeOK
<1> QED
  BY <1>1, UserDeleted, SupplierDeleted, EmployeeDeleted
  DEF PeopleRequest, DeleteUser, DeleteSupplier, DeleteEmployee

LEMMA RequestIInv ==
  ASSUME IInv, PurchaseRequest \/ InventoryRequest \/ PeopleRequest
  PROVE  IInv'
<1>1. TypeOK' /\ TypeOK /\ db \in Database
  BY RequestTypeOK DEF IInv, TypeOK
<1>2. CASE InventoryRequest
  BY <1>1, <1>2, InventoryWrites, OneStatement
  DEF InventoryRequest, ProductTypeRequest, StockRequest, SupplierProductRequest,
      AddProductType, EditProductType, DeleteProductType, AddStock, EditStock, DeleteStock,
      AddSupplierProduct, EditSupplierProduct, DeleteSupplierProduct, Request
<1>3. CASE PeopleRequest
  BY <1>1, <1>3, PeopleWrites, OneStatement
  DEF PeopleRequest, DeleteUser, DeleteSupplier, DeleteEmployee
<1>4. ASSUME NEW u \in Users, NEW s \in Suppliers, NEW status \in Status,
             AddOrder(u, s, status)
      PROVE  IInv'
  BY <1>1, <1>4, PurchaseWrites, OneStatement DEF AddOrder
<1>5. ASSUME NEW u \in Users, NEW s \in Suppliers, NEW status \in Status,
             NEW o \in Id("PurchaseOrder"), EditOrder(o, u, s, status)
      PROVE  IInv'
  BY <1>1, <1>5, PurchaseWrites, OneStatement DEF EditOrder
<1>6. ASSUME NEW o \in Id("PurchaseOrder"), NEW p \in Id("ProductType"),
             NEW q \in RequestQuantities, AddOrderRecord(o, p, q)
      PROVE  IInv'
  BY <1>1, <1>6, PurchaseWrites, OneStatement DEF AddOrderRecord
<1>7. ASSUME NEW o \in Id("PurchaseOrder"), NEW p \in Id("ProductType"),
             NEW q \in RequestQuantities, NEW r \in Id("PurchaseOrderRecord"),
             EditOrderRecord(r, o, p, q)
      PROVE  IInv'
  BY <1>1, <1>7, PurchaseWrites, OneStatement DEF EditOrderRecord
<1>8. ASSUME NEW r \in Id("PurchaseOrderRecord"), DeleteOrderRecord(r)
      PROVE  IInv'
  BY <1>1, <1>8, PurchaseWrites, OneStatement DEF DeleteOrderRecord
<1>9. ASSUME NEW o \in Id("PurchaseOrder"), DeleteOrder(o)
      PROVE  IInv'
  <2>1. Consistent(db') /\ Consistent(Committed')
    BY <1>9 DEF IInv, DeleteOrder, Committed
  <2>2. DeleteUnderWay'
    BY <1>9 DEF DeleteOrder, DeleteUnderWay, OrderIsOpen, RecordsOf
  <2>3. ReceiptUnderWay' /\ PlanIsFresh' /\ WrittenSoFar'
    BY <1>9 DEF DeleteOrder, ReceiptUnderWay, PlanIsFresh, WrittenSoFar, InTransaction
  <2> QED
    BY <1>1, <2>1, <2>2, <2>3 DEF IInv
<1>10. ASSUME NEW o \in Id("PurchaseOrder"), NEW e \in Employees, ReceiveOrder(o, e)
       PROVE  IInv'
  <2> DEFINE plan == PlannedStocks(db, o)
  <2>1. /\ task' = [op |-> "receiveOrder", order |-> o, employee |-> e, plan |-> plan,
                    row |-> db.PurchaseOrder[o], pending |-> DOMAIN plan,
                    phase |-> "planned"]
        /\ UNCHANGED <<db, journal, faults>>
        /\ e \in db.Employee /\ OrderIsOpen(o) /\ RecordsOf(db, o) # {}
        /\ ProductsOf(db, o) \subseteq DOMAIN db.ProductType
    BY <1>10 DEF ReceiveOrder
  <2>2. Consistent(db') /\ Consistent(Committed')
    BY <2>1 DEF IInv, Committed
  <2>3. /\ DOMAIN plan = ProductsOf(db, o)
        /\ \A p \in DOMAIN plan :
             IF plan[p].id = 0 THEN StocksOf(db, p) = {} ELSE plan[p].id \in StocksOf(db, p)
    <3>1. 0 \notin DOMAIN db.Inventory
      BY <1>1, ColumnsTyped DEF Id
    <3> QED
      BY <3>1 DEF PlannedStocks, StocksOf
  <2>4. db.PurchaseOrder[o].userId \in db.User /\ db.PurchaseOrder[o].supplierId \in db.Supplier
    BY <2>1 DEF IInv, Consistent, ForeignKeysHold, OrdersHaveParents, OrderIsOpen
  <2>5. PlanIsFresh'
    BY <2>1 DEF PlanIsFresh, InTransaction, OrderIsOpen
  <2> HIDE DEF plan
  <2>6. ReceiptUnderWay'
    BY <2>1, <2>3, <2>4 DEF ReceiptUnderWay, OrderIsOpen
  <2>7. DeleteUnderWay' /\ WrittenSoFar'
    BY <2>1 DEF DeleteUnderWay, WrittenSoFar, InTransaction
  <2> QED
    BY <1>1, <2>2, <2>5, <2>6, <2>7 DEF IInv
<1> QED
  BY <1>2, <1>3, <1>4, <1>5, <1>6, <1>7, <1>8, <1>9, <1>10 DEF PurchaseRequest

-----------------------------------------------------------------------------
(* The steps of a running handler.                                          *)

\* The locals of a receipt, with their types.
LEMMA ReceiptLocals ==
  ASSUME TypeOK, task.op = "receiveOrder"
  PROVE  /\ task.order \in Id("PurchaseOrder")
         /\ task.employee \in Employees
         /\ task.row \in PurchaseOrderRow
         /\ task.phase \in {"planned", "writing", "written"}
         /\ task.plan \in [DOMAIN task.plan -> [id : {0} \cup Id("Inventory"),
                                                quantityAvailable : Quantity]]
         /\ DOMAIN task.plan \subseteq Id("ProductType")
         /\ task.pending \subseteq DOMAIN task.plan
<1>1. task \in [op : {"receiveOrder"}, order : Id("PurchaseOrder"), employee : Employees,
                plan : Plan, row : PurchaseOrderRow, pending : SUBSET Id("ProductType"),
                phase : {"planned", "writing", "written"}]
  BY DEF TypeOK, Task, Idle
<1>2. task.plan \in Plan
  BY <1>1
<1>3. /\ task.plan \in [DOMAIN task.plan -> [id : {0} \cup Id("Inventory"),
                                            quantityAvailable : Quantity]]
      /\ DOMAIN task.plan \subseteq Id("ProductType")
  BY <1>2, TableIff DEF Plan
<1>4. task.pending \subseteq DOMAIN task.plan
  BY DEF TypeOK, PendingIsPlanned
<1> QED
  BY <1>1, <1>3, <1>4

LEMMA DeleteNextIInv ==
  ASSUME IInv, NEW r \in Id("PurchaseOrderRecord"), DeleteNextRecord(r), TypeOK'
  PROVE  IInv'
<1>1. /\ db \in Database /\ Consistent(db)
      /\ OrderIsOpen(task.order) /\ r \in RecordsOf(db, task.order)
  BY DEF IInv, TypeOK, DeleteUnderWay, DeleteNextRecord
<1>2. Consistent(db')
  BY <1>1, LineDeleted DEF DeleteNextRecord, RecordsOf, OrderIsOpen
<1>3. Consistent(Committed')
  BY <1>2 DEF IInv, Committed, DeleteNextRecord
<1>4. /\ db'.PurchaseOrderRecord
           = Restrict(db.PurchaseOrderRecord, DOMAIN db.PurchaseOrderRecord \ {r})
      /\ db'.PurchaseOrder = db.PurchaseOrder
  BY <1>1 DEF DeleteNextRecord, Delete, Database
<1>5. task' = [task EXCEPT !.records = @ \ {r}] /\ task.op = "deleteOrder"
  BY DEF DeleteNextRecord
<1>6. /\ task'.op = "deleteOrder" /\ task'.order = task.order
      /\ task'.records = task.records \ {r}
  BY <1>5 DEF IInv, TypeOK, Task, Idle
<1>7. DeleteUnderWay'
  <2>1. task.records \subseteq RecordsOf(db, task.order)
    BY <1>5 DEF IInv, DeleteUnderWay
  <2>2. RecordsOf(db', task.order) = RecordsOf(db, task.order) \ {r}
    BY <1>4 DEF RecordsOf, Restrict
  <2>3. OrderIsOpen(task.order)'
    BY <1>1, <1>4, <1>6 DEF OrderIsOpen
  <2> QED
    BY <1>6, <2>1, <2>2, <2>3 DEF DeleteUnderWay
<1>8. ReceiptUnderWay' /\ PlanIsFresh' /\ WrittenSoFar'
  BY <1>6 DEF ReceiptUnderWay, PlanIsFresh, WrittenSoFar, InTransaction
<1> QED
  BY <1>2, <1>3, <1>7, <1>8 DEF IInv

\* With the thread idle again only the database is left to look at.
LEMMA IdleIInv ==
  ASSUME TypeOK', task' = Idle, Consistent(db'), Consistent(Committed')
  PROVE  IInv'
BY DEF IInv, Idle, DeleteUnderWay, ReceiptUnderWay, PlanIsFresh, WrittenSoFar, InTransaction

LEMMA DeleteRowIInv ==
  ASSUME IInv, DeleteOrderRow, TypeOK'
  PROVE  IInv'
<1>1. db \in Database /\ Consistent(db)
  BY DEF IInv, TypeOK
<1>2. Consistent(db')
  BY <1>1, OrderDeleted DEF DeleteOrderRow
<1> QED
  BY <1>2, IdleIInv DEF IInv, DeleteOrderRow, Committed

LEMMA BeginIInv ==
  ASSUME IInv, BeginReceipt, TypeOK'
  PROVE  IInv'
<1>1. /\ ~journal.open /\ journal' = [open |-> TRUE, saved |-> db] /\ db' = db
      /\ task.op = "receiveOrder" /\ task.phase = "planned"
      /\ task' = [task EXCEPT !.phase = "writing"]
  BY DEF BeginReceipt, Begin
<1>2. Committed = db /\ Committed' = db
  BY <1>1 DEF Committed
<1>3. /\ task'.op = "receiveOrder" /\ task'.phase = "writing"
      /\ task'.order = task.order /\ task'.employee = task.employee
      /\ task'.plan = task.plan /\ task'.row = task.row /\ task'.pending = task.pending
  BY <1>1 DEF IInv, TypeOK, Task, Idle
<1>4. task.pending = DOMAIN task.plan
  BY <1>1 DEF IInv, ReceiptUnderWay
<1>5. PlanIsFresh'
  BY <1>1, <1>2, <1>3 DEF IInv, PlanIsFresh, InTransaction
<1>6. ReceiptUnderWay'
  BY <1>1, <1>3 DEF IInv, ReceiptUnderWay, RecordsOf, StocksOf
<1>7. WrittenSoFar'
  BY <1>1, <1>2, <1>3, <1>4 DEF WrittenSoFar, InTransaction, Posted, SameStock
<1>8. DeleteUnderWay'
  BY <1>3 DEF DeleteUnderWay
<1> QED
  BY <1>1, <1>2, <1>5, <1>6, <1>7, <1>8 DEF IInv

\* A receipt's write to a stock leaves the stock of the product with the planned
\* quantity and does not touch any other product's.
LEMMA StockWritten ==
  ASSUME NEW d \in Database, Consistent(d), NEW p, NEW q, NEW m, NEW e,
         LET row == [productTypeId |-> p, quantityAvailable |-> q, employeeId |-> m]
         IN  \/ StocksOf(d, p) = {} /\ e = Insert(d, "Inventory", row)
             \/ \E i \in StocksOf(d, p) : e = Update(d, "Inventory", i, row)
  PROVE  /\ StocksOf(e, p) # {} /\ OnHand(e, p) = q
         /\ \A x : x # p => StocksOf(e, x) = StocksOf(d, x) /\ SameStock(e, d, x)
<1> DEFINE row == [productTypeId |-> p, quantityAvailable |-> q, employeeId |-> m]
<1>1. PICK i : /\ e.Inventory = Put(d.Inventory, i, row)
               /\ i \in StocksOf(d, p) \/ (StocksOf(d, p) = {} /\ i \notin DOMAIN d.Inventory)
  <2>1. CASE StocksOf(d, p) = {} /\ e = Insert(d, "Inventory", row)
    <3> DEFINE n == d.sequence["Inventory"] + 1
    <3>1. e.Inventory = Put(d.Inventory, n, row)
      BY <2>1 DEF Insert, Database
    <3>2. d.sequence \in [TableName -> Nat]
      BY DEF Database
    <3>3. n \notin DOMAIN d.Inventory
      BY <3>2 DEF Consistent, IdsWereHandedOut, TableName
    <3> QED
      BY <2>1, <3>1, <3>3
  <2>2. ASSUME NEW i \in StocksOf(d, p), e = Update(d, "Inventory", i, row)
        PROVE  e.Inventory = Put(d.Inventory, i, row)
    <3>1. e.Inventory = [d.Inventory EXCEPT ![i] = row]
      BY <2>2 DEF Update, Database
    <3>2. i \in DOMAIN d.Inventory
      BY DEF StocksOf
    <3>3. DOMAIN d.Inventory = DOMAIN d.Inventory \cup {i}
      BY <3>2
    <3>4. \E S : d.Inventory \in [S -> InventoryRow]
      BY DEF Database, Table
    <3> QED
      BY <3>1, <3>3, <3>4 DEF Put
  <2> QED
    BY <2>1, <2>2
<1> HIDE DEF row
<1>2. /\ DOMAIN e.Inventory = DOMAIN d.Inventory \cup {i}
      /\ e.Inventory[i] = row
      /\ \A s \in DOMAIN d.Inventory : s # i => e.Inventory[s] = d.Inventory[s]
  BY <1>1 DEF Put
<1>3. StocksOf(e, p) = {i}
  BY <1>1, <1>2 DEF Consistent, StocksAreUnique, StocksOf, row
<1>4. OnHand(e, p) = q
  BY <1>2, <1>3 DEF OnHand, row
<1>5. ASSUME NEW x, x # p
      PROVE  StocksOf(e, x) = StocksOf(d, x) /\ i \notin StocksOf(d, x)
  BY <1>1, <1>2, <1>5 DEF StocksOf, row
<1>6. ASSUME NEW x, x # p
      PROVE  OnHand(e, x) = OnHand(d, x)
  <2>1. \A s \in StocksOf(d, x) : e.Inventory[s] = d.Inventory[s]
    BY <1>2, <1>5, <1>6 DEF StocksOf
  <2>2. (CHOOSE s \in StocksOf(e, x) : TRUE) = (CHOOSE s \in StocksOf(d, x) : TRUE)
    BY <1>5, <1>6, Zenon
  <2>3. StocksOf(d, x) # {} => (CHOOSE s \in StocksOf(d, x) : TRUE) \in StocksOf(d, x)
    OBVIOUS
  <2> QED
    BY <1>5, <1>6, <2>1, <2>2, <2>3 DEF OnHand
<1> QED
  BY <1>3, <1>4, <1>5, <1>6 DEF SameStock

LEMMA PostStockIInv ==
  ASSUME IInv, NEW p \in Id("ProductType"), PostStock(p), TypeOK'
  PROVE  IInv'
<1> DEFINE q == task.plan[p].quantityAvailable
           row == [productTypeId |-> p, quantityAvailable |-> q, employeeId |-> task.employee]
<1>1. /\ task.op = "receiveOrder" /\ task.phase = "writing" /\ p \in task.pending
      /\ db' = WriteStock(p) /\ journal' = journal
      /\ task' = [task EXCEPT !.pending = @ \ {p}]
  BY DEF PostStock
<1>2. /\ task'.op = "receiveOrder" /\ task'.phase = "writing"
      /\ task'.order = task.order /\ task'.employee = task.employee
      /\ task'.plan = task.plan /\ task'.row = task.row
      /\ task'.pending = task.pending \ {p}
  BY <1>1 DEF IInv, TypeOK, Task, Idle
<1>3. /\ db \in Database /\ TypeOK /\ Consistent(db)
      /\ task.employee \in db.Employee
      /\ p \in DOMAIN task.plan /\ p \in DOMAIN db.ProductType
      /\ \A x \in task.pending :
           IF task.plan[x].id = 0 THEN StocksOf(db, x) = {} ELSE task.plan[x].id \in StocksOf(db, x)
  BY <1>1, ReceiptLocals DEF IInv, TypeOK, ReceiptUnderWay
<1>4. \/ StocksOf(db, p) = {} /\ db' = Insert(db, "Inventory", row)
      \/ \E i \in StocksOf(db, p) : db' = Update(db, "Inventory", i, row)
  BY <1>1, <1>3 DEF WriteStock
<1>5. Consistent(db')
  <2>1. CASE StocksOf(db, p) = {} /\ db' = Insert(db, "Inventory", row)
    BY <2>1, <1>3, StockAdded
  <2>2. ASSUME NEW i \in StocksOf(db, p), db' = Update(db, "Inventory", i, row)
        PROVE  Consistent(db')
    <3>1. i \in DOMAIN db.Inventory /\ StocksOf(db, p) \subseteq {i}
      BY <1>3 DEF StocksOf, Consistent, StocksAreUnique
    <3> QED
      BY <2>2, <3>1, <1>3, StockUpdated
  <2> QED
    BY <1>4, <2>1, <2>2
<1>6. /\ StocksOf(db', p) # {} /\ OnHand(db', p) = q
      /\ \A x : x # p => StocksOf(db', x) = StocksOf(db, x) /\ SameStock(db', db, x)
  BY <1>3, <1>4, StockWritten
<1>7. /\ db'.PurchaseOrder = db.PurchaseOrder
      /\ db'.PurchaseOrderRecord = db.PurchaseOrderRecord
      /\ db'.ProductType = db.ProductType
      /\ db'.User = db.User /\ db'.Supplier = db.Supplier /\ db'.Employee = db.Employee
  BY <1>3, <1>4 DEF Insert, Update, Database
<1> HIDE DEF q, row
<1>8. journal.open /\ Committed' = Committed
  BY <1>1 DEF IInv, WrittenSoFar, InTransaction, Committed
<1>9. ReceiptUnderWay'
  BY <1>1, <1>2, <1>3, <1>6, <1>7 DEF IInv, ReceiptUnderWay, RecordsOf
<1>10. WrittenSoFar'
  <2>1. /\ db.PurchaseOrderRecord = Committed.PurchaseOrderRecord
        /\ db.PurchaseOrder = Committed.PurchaseOrder
        /\ \A x \in Id("ProductType") :
             IF x \in Posted
             THEN StocksOf(db, x) # {} /\ OnHand(db, x) = task.plan[x].quantityAvailable
             ELSE SameStock(db, Committed, x)
    BY <1>1 DEF IInv, WrittenSoFar, InTransaction
  <2>2. Posted' = Posted \cup {p}
    BY <1>1, <1>2, <1>3 DEF Posted
  <2>3. ASSUME NEW x \in Id("ProductType")
        PROVE  IF x \in Posted'
               THEN StocksOf(db', x) # {} /\ OnHand(db', x) = task.plan[x].quantityAvailable
               ELSE SameStock(db', Committed, x)
    BY <1>6, <2>1, <2>2 DEF SameStock, q
  <2> QED
    BY <1>1, <1>2, <1>7, <1>8, <2>1, <2>3 DEF WrittenSoFar, InTransaction
<1>11. PlanIsFresh' /\ DeleteUnderWay'
  BY <1>1, <1>2, <1>8 DEF IInv, PlanIsFresh, InTransaction, DeleteUnderWay
<1> QED
  BY <1>5, <1>8, <1>9, <1>10, <1>11 DEF IInv

LEMMA MarkReceivedIInv ==
  ASSUME IInv, MarkReceived, TypeOK'
  PROVE  IInv'
<1> DEFINE order == [userId |-> task.row.userId, supplierId |-> task.row.supplierId,
                     status |-> "Received"]
<1>1. /\ task.op = "receiveOrder" /\ task.phase = "writing" /\ task.pending = {}
      /\ task' = [task EXCEPT !.phase = "written"] /\ journal' = journal
  BY DEF MarkReceived
<1>2. /\ task'.op = "receiveOrder" /\ task'.phase = "written"
      /\ task'.order = task.order /\ task'.employee = task.employee
      /\ task'.plan = task.plan /\ task'.row = task.row /\ task'.pending = task.pending
  BY <1>1 DEF IInv, TypeOK, Task, Idle
<1>3. /\ db \in Database /\ TypeOK /\ Consistent(db)
      /\ task.order \in DOMAIN db.PurchaseOrder /\ RecordsOf(db, task.order) # {}
      /\ task.row.userId \in db.User /\ task.row.supplierId \in db.Supplier
  BY <1>1 DEF IInv, TypeOK, ReceiptUnderWay
<1>4. [task.row EXCEPT !.status = "Received"] = order
  BY <1>1, <1>3, ReceiptLocals DEF PurchaseOrderRow
<1>5. db' = Update(db, "PurchaseOrder", task.order, order)
  BY <1>4 DEF MarkReceived
<1>6. Consistent(db')
  BY <1>3, <1>5, OrderUpdated
<1>7. /\ db'.PurchaseOrder = [db.PurchaseOrder EXCEPT ![task.order] = order]
      /\ db'.PurchaseOrderRecord = db.PurchaseOrderRecord
      /\ db'.ProductType = db.ProductType /\ db'.Inventory = db.Inventory
      /\ db'.User = db.User /\ db'.Supplier = db.Supplier /\ db'.Employee = db.Employee
  BY <1>3, <1>5 DEF Update, Database
<1>8. journal.open /\ Committed' = Committed
  BY <1>1 DEF IInv, WrittenSoFar, InTransaction, Committed
<1>9. ReceiptUnderWay'
  BY <1>1, <1>2, <1>3, <1>7 DEF IInv, ReceiptUnderWay, RecordsOf
<1>10. WrittenSoFar'
  <2>1. /\ db.PurchaseOrderRecord = Committed.PurchaseOrderRecord
        /\ db.PurchaseOrder = Committed.PurchaseOrder
        /\ \A x \in Id("ProductType") :
             IF x \in Posted
             THEN StocksOf(db, x) # {} /\ OnHand(db, x) = task.plan[x].quantityAvailable
             ELSE SameStock(db, Committed, x)
    BY <1>1 DEF IInv, WrittenSoFar, InTransaction
  <2>2. Posted' = Posted
    BY <1>2 DEF Posted
  <2>3. \A x : StocksOf(db', x) = StocksOf(db, x) /\ OnHand(db', x) = OnHand(db, x)
    BY <1>7 DEF StocksOf, OnHand
  <2>4. db'.PurchaseOrder = [Committed.PurchaseOrder EXCEPT ![task.order]
                               = [task.row EXCEPT !.status = "Received"]]
    BY <1>4, <1>7, <2>1
  <2>5. \A x \in Id("ProductType") :
          IF x \in Posted'
          THEN StocksOf(db', x) # {} /\ OnHand(db', x) = task.plan[x].quantityAvailable
          ELSE SameStock(db', Committed, x)
    BY <2>1, <2>2, <2>3 DEF SameStock
  <2> QED
    BY <1>1, <1>2, <1>7, <1>8, <2>1, <2>4, <2>5 DEF WrittenSoFar, InTransaction
<1>11. PlanIsFresh' /\ DeleteUnderWay'
  BY <1>1, <1>2, <1>8 DEF IInv, PlanIsFresh, InTransaction, DeleteUnderWay
<1> QED
  BY <1>6, <1>8, <1>9, <1>10, <1>11 DEF IInv

LEMMA StepIInv ==
  ASSUME IInv, PurchaseStep
  PROVE  IInv'
<1>1. TypeOK'
  BY StepTypeOK DEF IInv
<1>2. CASE CommitReceipt
  <2>1. /\ task' = Idle /\ db' = db /\ Committed' = db
    BY <1>2 DEF CommitReceipt, Commit, Committed, Autocommit
  <2> QED
    BY <1>1, <2>1, IdleIInv DEF IInv
<1>3. CASE BeginFails
  BY <1>1, <1>3, IdleIInv DEF IInv, BeginFails, Committed
<1> QED
  BY <1>1, <1>2, <1>3, DeleteNextIInv, DeleteRowIInv, BeginIInv, PostStockIInv, MarkReceivedIInv
  DEF PurchaseStep

-----------------------------------------------------------------------------
(* Faults, and the start.                                                   *)

\* Whatever goes wrong, what is left is db as it was or what the file holds.
LEMMA FaultIInv ==
  ASSUME IInv, PurchaseFault
  PROVE  IInv'
<1>1. TypeOK'
  BY FaultTypeOK DEF IInv
<1>2. task' = Idle /\ (UNCHANGED <<db, journal>> \/ Rollback)
  BY DEF PurchaseFault, StatementFails, RollbackFails, Crash
<1>3. CASE UNCHANGED <<db, journal>>
  BY <1>1, <1>2, <1>3, IdleIInv DEF IInv, Committed
<1>4. CASE Rollback
  <2>1. db' = Committed /\ Committed' = Committed
    BY <1>4 DEF Rollback, Committed, Autocommit
  <2> QED
    BY <1>1, <1>2, <2>1, IdleIInv DEF IInv
<1> QED
  BY <1>2, <1>3, <1>4

LEMMA InitIInv == Init => IInv
<1> SUFFICES ASSUME Init
             PROVE  IInv
  OBVIOUS
<1>1. TypeOK
  BY InitTypeOK
<1>2. /\ db.User = Users /\ db.Supplier = Suppliers /\ db.Employee = Employees
      /\ db.ProductType = Catalogue
      /\ db.Inventory = [i \in {1} |-> [productTypeId |-> 1, quantityAvailable |-> 0,
                                        employeeId |-> FirstEmployee]]
      /\ db.SuppliersProductInfo = [i \in {} |-> FirstSupplier]
      /\ db.PurchaseOrder = [i \in {1} |-> [userId |-> FirstUser, supplierId |-> FirstSupplier,
                                            status |-> "Ordered"]]
      /\ db.PurchaseOrderRecord = [i \in {1} |-> [orderId |-> 1, productTypeId |-> 1,
                                                  quantity |-> 1]]
  BY DEF Init
<1>3. /\ db.sequence["ProductType"] = CatalogueSize
      /\ db.sequence["SuppliersProductInfo"] = 0
      /\ db.sequence["Inventory"] = 1 /\ db.sequence["PurchaseOrder"] = 1
      /\ db.sequence["PurchaseOrderRecord"] = 1
  BY DEF Init, TableName
<1>4. DOMAIN Catalogue = 1 .. CatalogueSize /\ 1 \in 1 .. CatalogueSize
  BY CatalogueAssumption, BoundAssumption DEF TableName
<1>5. IdsWereHandedOut(db)
  <2>1. /\ DOMAIN db.ProductType = 1 .. CatalogueSize /\ DOMAIN db.SuppliersProductInfo = {}
        /\ DOMAIN db.Inventory = {1} /\ DOMAIN db.PurchaseOrder = {1}
        /\ DOMAIN db.PurchaseOrderRecord = {1}
    BY <1>2, <1>4
  <2>2. /\ DOMAIN db.ProductType \subseteq 1 .. db.sequence["ProductType"]
        /\ DOMAIN db.SuppliersProductInfo \subseteq 1 .. db.sequence["SuppliersProductInfo"]
        /\ DOMAIN db.Inventory \subseteq 1 .. db.sequence["Inventory"]
        /\ DOMAIN db.PurchaseOrder \subseteq 1 .. db.sequence["PurchaseOrder"]
        /\ DOMAIN db.PurchaseOrderRecord \subseteq 1 .. db.sequence["PurchaseOrderRecord"]
    BY <1>3, <2>1
  <2> QED
    BY <2>2 DEF IdsWereHandedOut, TableName
<1>6. ForeignKeysHold(db)
  BY <1>2, <1>4, PeopleAssumption
  DEF ForeignKeysHold, LinesHaveParents, StocksHaveParents, OrdersHaveParents, OffersHaveParents
<1>7. StocksAreUnique(db) /\ CodesAreUnique(db) /\ ReceivedHaveLines(db)
  BY <1>2, <1>4, CatalogueAssumption
  DEF StocksAreUnique, CodesAreUnique, ReceivedHaveLines, Received
<1>8. Consistent(db) /\ Consistent(Committed)
  BY <1>5, <1>6, <1>7 DEF Init, Autocommit, Committed, Consistent
<1>9. DeleteUnderWay /\ ReceiptUnderWay /\ PlanIsFresh /\ WrittenSoFar
  BY DEF Init, Idle, DeleteUnderWay, ReceiptUnderWay, PlanIsFresh, WrittenSoFar, InTransaction
<1> QED
  BY <1>1, <1>8, <1>9 DEF IInv

LEMMA NextIInv == IInv /\ [Next]_vars => IInv'
<1> SUFFICES ASSUME IInv, [Next]_vars
             PROVE  IInv'
  OBVIOUS
<1>1. CASE UNCHANGED vars
  <2>1. TypeOK' /\ Committed' = Committed /\ Consistent(db') /\ Consistent(Committed')
    BY <1>1 DEF vars, IInv, TypeOK, PendingIsPlanned, Committed
  <2> QED
    BY <1>1, <2>1
    DEF vars, IInv, DeleteUnderWay, ReceiptUnderWay, PlanIsFresh, WrittenSoFar, InTransaction,
        OrderIsOpen, Posted
<1> QED
  BY <1>1, RequestIInv, StepIInv, FaultIInv DEF Next, AnyRequest

-----------------------------------------------------------------------------
(* Theorems.                                                                *)

\* The inductive invariant holds in every reachable state.
THEOREM Invariance == Spec => []IInv
BY InitIInv, NextIInv, PTL DEF Spec

\* No reference dangles, in what the connection reads and in the file, also
\* after a ROLLBACK that failed.
THEOREM ReferencesHold == Spec => []ReferentialIntegrity
<1>1. IInv => ReferentialIntegrity
  BY DEF IInv, Consistent, ReferentialIntegrity
<1> QED
  BY <1>1, Invariance, PTL

\* The look-ups of the stock handlers and of receiveOrder keep the stocks of the
\* products apart without the UNIQUE constraint.
THEOREM StocksStayUnique == Spec => []OneStockPerProduct
<1>1. IInv => OneStockPerProduct
  BY DEF IInv, Consistent, OneStockPerProduct
<1> QED
  BY <1>1, Invariance, PTL

\* No sequence of product type requests gives two product types one code.
THEOREM CodesStayUnique == Spec => []ProductCodesUnique
<1>1. IInv => ProductCodesUnique
  BY DEF IInv, Consistent, ProductCodesUnique
<1> QED
  BY <1>1, Invariance, PTL

\* A received order never loses its last line.
THEOREM ReceivedKeepLines == Spec => []ReceivedOrdersHaveLines
<1>1. IInv => ReceivedOrdersHaveLines
  BY DEF IInv, Consistent, ReceivedOrdersHaveLines
<1> QED
  BY <1>1, Invariance, PTL

\* The transaction of a receipt writes what follows from the rows the file
\* holds, though they were read before BEGIN.
THEOREM PlansStayFresh == Spec => []PlanIsFresh
<1>1. IInv => PlanIsFresh
  BY DEF IInv
<1> QED
  BY <1>1, Invariance, PTL

\* Without a failing ROLLBACK a transaction is open only while a receipt writes.
OpenOnlyInReceipt == journal.open => InTransaction

LEMMA InitOpen == Init => OpenOnlyInReceipt
BY DEF Init, Autocommit, OpenOnlyInReceipt

LEMMA RequestsAreIdle ==
  ASSUME AnyRequest
  PROVE  task = Idle /\ UNCHANGED journal
BY DEF AnyRequest, PurchaseRequest, InventoryRequest, PeopleRequest,
       AddOrder, EditOrder, DeleteOrder, ReceiveOrder, AddOrderRecord, EditOrderRecord,
       DeleteOrderRecord, ProductTypeRequest, StockRequest, SupplierProductRequest,
       AddProductType, EditProductType, DeleteProductType, AddStock, EditStock, DeleteStock,
       AddSupplierProduct, EditSupplierProduct, DeleteSupplierProduct, Request,
       DeleteUser, DeleteSupplier, DeleteEmployee

LEMMA NextOpen ==
  ASSUME ~RollbackMayFail, IInv, OpenOnlyInReceipt, [Next]_vars
  PROVE  OpenOnlyInReceipt'
<1>1. CASE UNCHANGED vars
  BY <1>1 DEF vars, OpenOnlyInReceipt, InTransaction
<1>2. CASE PurchaseStep
  <2>1. TypeOK
    BY DEF IInv
  <2> QED
    BY <1>2, <2>1
    DEF PurchaseStep, DeleteNextRecord, DeleteOrderRow, BeginReceipt, BeginFails, Begin,
        PostStock, MarkReceived, CommitReceipt, Commit, Autocommit, OpenOnlyInReceipt,
        InTransaction, TypeOK, Task, Idle
<1>3. CASE PurchaseFault
  BY <1>3 DEF PurchaseFault, StatementFails, RollbackFails, Crash, Rollback, Autocommit,
              OpenOnlyInReceipt, InTransaction
<1>4. CASE AnyRequest
  BY <1>4, RequestsAreIdle DEF Idle, OpenOnlyInReceipt, InTransaction
<1> QED
  BY <1>1, <1>2, <1>3, <1>4 DEF Next

\* If ROLLBACK never fails, no request is answered inside an open transaction.
THEOREM NoTransactionLeftOpen ==
  ASSUME ~RollbackMayFail
  PROVE  Spec => []IdleMeansCommitted
<1>1. OpenOnlyInReceipt => IdleMeansCommitted
  BY DEF OpenOnlyInReceipt, IdleMeansCommitted, InTransaction, Idle
<1>2. IInv /\ OpenOnlyInReceipt /\ [Next]_vars => OpenOnlyInReceipt'
  BY NextOpen
<1> QED
  BY <1>1, <1>2, InitOpen, Invariance, PTL DEF Spec

-----------------------------------------------------------------------------
(* Received orders are final, and ErpCore implements StockLedger.  Both    *)
(* look at the file only, so the steps that matter are the statements      *)
(* outside a transaction and COMMIT.                                       *)

(* Which steps change the file.                                             *)

FileUnchanged == Committed' = Committed

\* A statement that is committed by itself.
Autocommitted ==
  /\ Committed = db /\ Committed' = db'
  /\ AnyRequest \/ DeleteOrderRow \/ \E r \in Id("PurchaseOrderRecord") : DeleteNextRecord(r)

LEMMA FileChanges ==
  ASSUME IInv, [Next]_vars
  PROVE  FileUnchanged \/ Autocommitted \/ CommitReceipt
<1>1. CASE UNCHANGED vars
  BY <1>1 DEF vars, FileUnchanged, Committed
<1>2. CASE AnyRequest
  <2>1. UNCHANGED journal
    BY <1>2, RequestsAreIdle
  <2> QED
    BY <1>2, <2>1 DEF FileUnchanged, Autocommitted, Committed
<1>3. CASE \E r \in Id("PurchaseOrderRecord") : DeleteNextRecord(r)
  BY <1>3 DEF DeleteNextRecord, FileUnchanged, Autocommitted, Committed
<1>4. CASE DeleteOrderRow
  BY <1>4 DEF DeleteOrderRow, FileUnchanged, Autocommitted, Committed
<1>5. CASE BeginReceipt \/ BeginFails
  BY <1>5 DEF BeginReceipt, BeginFails, Begin, FileUnchanged, Committed
<1>6. CASE MarkReceived \/ \E p \in Id("ProductType") : PostStock(p)
  BY <1>6 DEF IInv, WrittenSoFar, InTransaction, MarkReceived, PostStock, FileUnchanged, Committed
<1>7. CASE PurchaseFault
  BY <1>7 DEF PurchaseFault, StatementFails, RollbackFails, Crash, Rollback, Autocommit,
              FileUnchanged, Committed
<1> QED
  BY <1>1, <1>2, <1>3, <1>4, <1>5, <1>6, <1>7 DEF Next, PurchaseStep

-----------------------------------------------------------------------------
(* Statements that are committed by themselves.                             *)

\* Statements on orders, lines and everything that is not a stock leave received
\* orders, and which orders are received, alone.
Amends(d, e) == Final(d, e) /\ Received(e) = Received(d) /\ e.Inventory = d.Inventory

\* Statements on a stock change the one row i.
Restocks(d, e, i) ==
  /\ e.PurchaseOrder = d.PurchaseOrder
  /\ e.PurchaseOrderRecord = d.PurchaseOrderRecord
  /\ i \in DOMAIN d.Inventory \cup DOMAIN e.Inventory
  /\ DOMAIN d.Inventory \cup {i} = DOMAIN e.Inventory \cup {i}
  /\ \A s \in DOMAIN d.Inventory \ {i} : e.Inventory[s] = d.Inventory[s]

LEMMA OrdersAmend ==
  ASSUME IInv, PurchaseRequest
  PROVE  Amends(db, db')
<1>1. db \in Database /\ Consistent(db) /\ db.sequence \in [TableName -> Nat]
  BY DEF IInv, TypeOK, Database
<1>2. ASSUME NEW u \in Users, NEW s \in Suppliers, NEW status \in Status,
             AddOrder(u, s, status)
      PROVE  Amends(db, db')
  <2> DEFINE n == db.sequence["PurchaseOrder"] + 1
  <2>1. /\ db'.PurchaseOrder = Put(db.PurchaseOrder, n,
                                   [userId |-> u, supplierId |-> s, status |-> status])
        /\ db'.PurchaseOrderRecord = db.PurchaseOrderRecord
        /\ db'.Inventory = db.Inventory
    BY <1>1, <1>2 DEF AddOrder, Insert, Database
  <2>2. n \notin DOMAIN db.PurchaseOrder
    BY <1>1 DEF Consistent, IdsWereHandedOut, TableName
  <2> QED
    BY <1>2, <2>1, <2>2
    DEF AddOrder, CanBeSetManually, Amends, Final, Received, RecordsOf, Put
<1>3. ASSUME NEW o \in Id("PurchaseOrder"), NEW u \in Users, NEW s \in Suppliers,
             NEW status \in Status, EditOrder(o, u, s, status)
      PROVE  Amends(db, db')
  <2>1. /\ db'.PurchaseOrder = [db.PurchaseOrder EXCEPT
                                  ![o] = [userId |-> u, supplierId |-> s, status |-> status]]
        /\ db'.PurchaseOrderRecord = db.PurchaseOrderRecord
        /\ db'.Inventory = db.Inventory
    BY <1>1, <1>3 DEF EditOrder, Update, Database
  <2> QED
    BY <1>3, <2>1
    DEF EditOrder, OrderIsOpen, CanBeSetManually, Amends, Final, Received, RecordsOf
<1>4. ASSUME NEW o \in Id("PurchaseOrder"), NEW p \in Id("ProductType"),
             NEW q \in RequestQuantities, AddOrderRecord(o, p, q)
      PROVE  Amends(db, db')
  <2> DEFINE n == db.sequence["PurchaseOrderRecord"] + 1
  <2>1. /\ db'.PurchaseOrderRecord = Put(db.PurchaseOrderRecord, n,
                                         [orderId |-> o, productTypeId |-> p, quantity |-> q])
        /\ db'.PurchaseOrder = db.PurchaseOrder
        /\ db'.Inventory = db.Inventory
    BY <1>1, <1>4 DEF AddOrderRecord, Insert, Database
  <2>2. n \notin DOMAIN db.PurchaseOrderRecord
    BY <1>1 DEF Consistent, IdsWereHandedOut, TableName
  <2> QED
    BY <1>4, <2>1, <2>2
    DEF AddOrderRecord, OrderIsOpen, Amends, Final, Received, RecordsOf, Put
<1>5. ASSUME NEW o \in Id("PurchaseOrder"), NEW p \in Id("ProductType"),
             NEW q \in RequestQuantities, NEW r \in Id("PurchaseOrderRecord"),
             EditOrderRecord(r, o, p, q)
      PROVE  Amends(db, db')
  <2>1. /\ db'.PurchaseOrderRecord = [db.PurchaseOrderRecord EXCEPT
                                        ![r] = [orderId |-> o, productTypeId |-> p, quantity |-> q]]
        /\ db'.PurchaseOrder = db.PurchaseOrder
        /\ db'.Inventory = db.Inventory
    BY <1>1, <1>5 DEF EditOrderRecord, Update, Database
  <2> QED
    BY <1>5, <2>1 DEF EditOrderRecord, OrderIsOpen, Amends, Final, Received, RecordsOf
<1>6. ASSUME NEW r \in Id("PurchaseOrderRecord"), DeleteOrderRecord(r)
      PROVE  Amends(db, db')
  <2>1. /\ db'.PurchaseOrderRecord
             = Restrict(db.PurchaseOrderRecord, DOMAIN db.PurchaseOrderRecord \ {r})
        /\ db'.PurchaseOrder = db.PurchaseOrder
        /\ db'.Inventory = db.Inventory
    BY <1>1, <1>6 DEF DeleteOrderRecord, Delete, Database
  <2> QED
    BY <1>6, <2>1 DEF DeleteOrderRecord, OrderIsOpen, Amends, Final, Received, RecordsOf, Restrict
<1>7. CASE UNCHANGED db
  BY <1>7 DEF Amends, Final, Received
<1> QED
  BY <1>2, <1>3, <1>4, <1>5, <1>6, <1>7 DEF PurchaseRequest, DeleteOrder, ReceiveOrder

LEMMA DeleteAmends ==
  ASSUME IInv, DeleteOrderRow \/ \E r \in Id("PurchaseOrderRecord") : DeleteNextRecord(r)
  PROVE  Amends(db, db')
<1>1. db \in Database /\ OrderIsOpen(task.order) /\ task.records \subseteq RecordsOf(db, task.order)
  BY DEF IInv, TypeOK, DeleteUnderWay, DeleteOrderRow, DeleteNextRecord
<1>2. ASSUME NEW r \in Id("PurchaseOrderRecord"), DeleteNextRecord(r)
      PROVE  Amends(db, db')
  <2>1. /\ db'.PurchaseOrderRecord
             = Restrict(db.PurchaseOrderRecord, DOMAIN db.PurchaseOrderRecord \ {r})
        /\ db'.PurchaseOrder = db.PurchaseOrder
        /\ db'.Inventory = db.Inventory
    BY <1>1, <1>2 DEF DeleteNextRecord, Delete, Database
  <2>2. r \in RecordsOf(db, task.order)
    BY <1>1, <1>2 DEF DeleteNextRecord
  <2> QED
    BY <1>1, <2>1, <2>2 DEF OrderIsOpen, Amends, Final, Received, RecordsOf, Restrict
<1>3. CASE DeleteOrderRow
  <2>1. /\ db'.PurchaseOrder
             = Restrict(db.PurchaseOrder, DOMAIN db.PurchaseOrder \ {task.order})
        /\ db'.PurchaseOrderRecord = db.PurchaseOrderRecord
        /\ db'.Inventory = db.Inventory
    BY <1>1, <1>3 DEF DeleteOrderRow, Delete, Database
  <2> QED
    BY <1>1, <2>1 DEF OrderIsOpen, Amends, Final, Received, RecordsOf, Restrict
<1> QED
  BY <1>2, <1>3

LEMMA OthersAmend ==
  ASSUME IInv, ProductTypeRequest \/ SupplierProductRequest \/ PeopleRequest
  PROVE  Amends(db, db')
<1>1. db \in Database
  BY DEF IInv, TypeOK
<1>2. /\ db'.PurchaseOrder = db.PurchaseOrder
      /\ db'.PurchaseOrderRecord = db.PurchaseOrderRecord
      /\ db'.Inventory = db.Inventory
  <2>1. CASE ProductTypeRequest
    BY <1>1, <2>1 DEF ProductTypeRequest, AddProductType, EditProductType, DeleteProductType,
                      Request, Insert, Update, Delete, Database
  <2>2. CASE SupplierProductRequest
    BY <1>1, <2>2 DEF SupplierProductRequest, AddSupplierProduct, EditSupplierProduct,
                      DeleteSupplierProduct, Request, Insert, Update, Delete, Database
  <2>3. CASE PeopleRequest
    BY <1>1, <2>3 DEF PeopleRequest, DeleteUser, DeleteSupplier, DeleteEmployee, Database
  <2> QED
    BY <2>1, <2>2, <2>3
<1> QED
  BY <1>2 DEF Amends, Final, Received, RecordsOf

LEMMA StocksRestock ==
  ASSUME IInv, StockRequest
  PROVE  \E i : Restocks(db, db', i)
<1>1. db \in Database /\ Consistent(db) /\ db.sequence \in [TableName -> Nat]
  BY DEF IInv, TypeOK, Database
<1>2. ASSUME NEW p \in Id("ProductType"), NEW q \in RequestQuantities, NEW e \in Employees,
             AddStock(p, q, e)
      PROVE  \E i : Restocks(db, db', i)
  <2> DEFINE n == db.sequence["Inventory"] + 1
  <2>1. /\ db'.Inventory = Put(db.Inventory, n, [productTypeId |-> p, quantityAvailable |-> q,
                                                 employeeId |-> e])
        /\ db'.PurchaseOrder = db.PurchaseOrder
        /\ db'.PurchaseOrderRecord = db.PurchaseOrderRecord
    BY <1>1, <1>2 DEF AddStock, Request, Insert, Database
  <2>2. n \notin DOMAIN db.Inventory
    BY <1>1 DEF Consistent, IdsWereHandedOut, TableName
  <2>3. Restocks(db, db', n)
    BY <2>1, <2>2 DEF Restocks, Put
  <2> QED
    BY <2>3
<1>3. ASSUME NEW p \in Id("ProductType"), NEW q \in RequestQuantities, NEW e \in Employees,
             NEW s \in Id("Inventory"), EditStock(s, p, q, e)
      PROVE  \E i : Restocks(db, db', i)
  <2>1. /\ db'.Inventory = [db.Inventory EXCEPT
                              ![s] = [productTypeId |-> p, quantityAvailable |-> q,
                                      employeeId |-> e]]
        /\ db'.PurchaseOrder = db.PurchaseOrder
        /\ db'.PurchaseOrderRecord = db.PurchaseOrderRecord
        /\ s \in DOMAIN db.Inventory
    BY <1>1, <1>3 DEF EditStock, Request, Update, Database
  <2>2. Restocks(db, db', s)
    BY <2>1 DEF Restocks
  <2> QED
    BY <2>2
<1>4. ASSUME NEW s \in Id("Inventory"), DeleteStock(s)
      PROVE  \E i : Restocks(db, db', i)
  <2>1. /\ db'.Inventory = Restrict(db.Inventory, DOMAIN db.Inventory \ {s})
        /\ db'.PurchaseOrder = db.PurchaseOrder
        /\ db'.PurchaseOrderRecord = db.PurchaseOrderRecord
        /\ s \in DOMAIN db.Inventory
    BY <1>1, <1>4 DEF DeleteStock, Request, Delete, Database
  <2>2. Restocks(db, db', s)
    BY <2>1 DEF Restocks, Restrict
  <2> QED
    BY <2>2
<1> QED
  BY <1>2, <1>3, <1>4 DEF StockRequest

-----------------------------------------------------------------------------
(* COMMIT.                                                                  *)

\* What a committed receipt has done to the file.
LEMMA CommitPosts ==
  ASSUME IInv, CommitReceipt
  PROVE  /\ Committed' = db
         /\ db.PurchaseOrderRecord = Committed.PurchaseOrderRecord
         /\ task.order \in DOMAIN Committed.PurchaseOrder \ Received(Committed)
         /\ RecordsOf(Committed, task.order) # {}
         /\ DOMAIN db.PurchaseOrder = DOMAIN Committed.PurchaseOrder
         /\ db.PurchaseOrder[task.order].status = "Received"
         /\ \A o \in DOMAIN Committed.PurchaseOrder :
              o # task.order => db.PurchaseOrder[o] = Committed.PurchaseOrder[o]
         /\ \A p \in Id("ProductType") :
              IF p \in ProductsOf(Committed, task.order)
              THEN /\ StocksOf(db, p) # {}
                   /\ OnHand(db, p) = OnHand(Committed, p) + OrderedQuantity(Committed, task.order, p)
              ELSE SameStock(db, Committed, p)
<1>1. /\ task.op = "receiveOrder" /\ task.phase = "written" /\ Committed' = db
  BY DEF CommitReceipt, Commit, Autocommit, Committed
<1>2. InTransaction /\ TypeOK
  BY <1>1 DEF InTransaction, IInv
<1>3. /\ task.pending = {}
      /\ db.PurchaseOrderRecord = Committed.PurchaseOrderRecord
      /\ db.PurchaseOrder = [Committed.PurchaseOrder EXCEPT
                               ![task.order] = [task.row EXCEPT !.status = "Received"]]
      /\ \A p \in Id("ProductType") :
           IF p \in Posted
           THEN StocksOf(db, p) # {} /\ OnHand(db, p) = task.plan[p].quantityAvailable
           ELSE SameStock(db, Committed, p)
  BY <1>1, <1>2 DEF IInv, WrittenSoFar
<1>4. /\ task.plan = PlannedStocks(Committed, task.order)
      /\ task.row = Committed.PurchaseOrder[task.order] /\ task.row.status # "Received"
  BY <1>1, <1>2 DEF IInv, PlanIsFresh
<1>5. /\ task.order \in DOMAIN db.PurchaseOrder /\ RecordsOf(db, task.order) # {}
  BY <1>1 DEF IInv, ReceiptUnderWay
<1>6. /\ DOMAIN db.PurchaseOrder = DOMAIN Committed.PurchaseOrder
      /\ \A o \in DOMAIN Committed.PurchaseOrder :
           o # task.order => db.PurchaseOrder[o] = Committed.PurchaseOrder[o]
  BY <1>3
<1>7. RecordsOf(Committed, task.order) # {}
  BY <1>3, <1>5 DEF RecordsOf
<1>8. db.PurchaseOrder[task.order].status = "Received"
  <2>1. task.row \in PurchaseOrderRow
    BY <1>1, <1>2, ReceiptLocals
  <2>2. [task.row EXCEPT !.status = "Received"].status = "Received"
    BY <2>1 DEF PurchaseOrderRow
  <2> QED
    BY <1>3, <1>5, <1>6, <2>2
<1>9. task.order \notin Received(Committed)
  BY <1>4 DEF Received
<1>10. /\ Posted = ProductsOf(Committed, task.order)
       /\ \A p \in Posted : task.plan[p].quantityAvailable
                              = OnHand(Committed, p) + OrderedQuantity(Committed, task.order, p)
  BY <1>3, <1>4 DEF Posted, PlannedStocks
<1> QED
  BY <1>1, <1>3, <1>5, <1>6, <1>7, <1>8, <1>9, <1>10

LEMMA CommitIsFinal ==
  ASSUME IInv, CommitReceipt
  PROVE  Final(Committed, Committed')
BY CommitPosts DEF Final, Received, RecordsOf

\* Receipts in the file stay as they are.
THEOREM FinalReceipts == Spec => ReceivedIsFinal
<1>1. IInv /\ [Next]_vars => [Final(Committed, Committed')]_vars
  <2> SUFFICES ASSUME IInv, [Next]_vars
               PROVE  Final(Committed, Committed')
    OBVIOUS
  <2>1. CASE FileUnchanged
    BY <2>1 DEF FileUnchanged, Final, Received
  <2>2. CASE CommitReceipt
    BY <2>2, CommitIsFinal
  <2>3. CASE Autocommitted
    <3>1. \A i : Restocks(db, db', i) => Final(db, db')
      BY DEF Restocks, Final, Received, RecordsOf
    <3> QED
      BY <2>3, <3>1, OrdersAmend, OthersAmend, DeleteAmends, StocksRestock
      DEF Autocommitted, AnyRequest, InventoryRequest, Amends
  <2> QED
    BY <2>1, <2>2, <2>3, FileChanges
<1> QED
  BY <1>1, Invariance, PTL DEF Spec, ReceivedIsFinal

-----------------------------------------------------------------------------
(* The ledger.                                                              *)

LEMMA SameLinesSameDemand ==
  ASSUME NEW d, NEW e, NEW o,
         RecordsOf(e, o) = RecordsOf(d, o),
         \A r \in RecordsOf(d, o) : e.PurchaseOrderRecord[r] = d.PurchaseOrderRecord[r]
  PROVE  /\ ProductsOf(e, o) = ProductsOf(d, o)
         /\ \A p : OrderedQuantity(e, o, p) = OrderedQuantity(d, o, p)
<1>1. ProductsOf(e, o) = ProductsOf(d, o)
  BY DEF ProductsOf
<1>2. ASSUME NEW p
      PROVE  LineQuantities(e, o, p) = LineQuantities(d, o, p)
  <2>1. {r \in RecordsOf(e, o) : e.PurchaseOrderRecord[r].productTypeId = p}
          = {r \in RecordsOf(d, o) : d.PurchaseOrderRecord[r].productTypeId = p}
    OBVIOUS
  <2> QED
    BY <2>1 DEF LineQuantities
<1> QED
  BY <1>1, <1>2 DEF OrderedQuantity

LEMMA AmendIsAmendOrders ==
  ASSUME NEW d, NEW e, Amends(d, e)
  PROVE  /\ \A o \in Received(d) : o \in DOMAIN Demand(e) /\ Demand(e)[o] = Demand(d)[o]
         /\ Stock(e) = Stock(d)
<1>1. ASSUME NEW o \in Received(d)
      PROVE  o \in DOMAIN Demand(e) /\ Demand(e)[o] = Demand(d)[o]
  <2>1. /\ o \in DOMAIN d.PurchaseOrder /\ o \in DOMAIN e.PurchaseOrder
        /\ RecordsOf(e, o) = RecordsOf(d, o)
        /\ \A r \in RecordsOf(d, o) : e.PurchaseOrderRecord[r] = d.PurchaseOrderRecord[r]
    BY DEF Amends, Final, Received
  <2>2. /\ ProductsOf(e, o) = ProductsOf(d, o)
        /\ \A p : OrderedQuantity(e, o, p) = OrderedQuantity(d, o, p)
    BY <2>1, SameLinesSameDemand
  <2> QED
    BY <2>1, <2>2 DEF Demand
<1>2. Stock(e) = Stock(d)
  BY DEF Amends, Stock, OnHand, StocksOf
<1> QED
  BY <1>1, <1>2

LEMMA StockFacts ==
  ASSUME NEW d
  PROVE  /\ \A p : p \in DOMAIN Stock(d) <=> StocksOf(d, p) # {}
         /\ \A p \in DOMAIN Stock(d) : Stock(d)[p] = OnHand(d, p)
         /\ \A p : p \notin DOMAIN Stock(d) => OnHand(d, p) = 0
BY DEF Stock, StocksOf, OnHand

\* The products of the changed row, before and after, are the only ones whose
\* stock changes.
LEMMA RestockIsEditAnyStock ==
  ASSUME NEW d, NEW e, NEW i, Restocks(d, e, i)
  PROVE  \E p, q \in DOMAIN Stock(d) \cup DOMAIN Stock(e) :
           \A x \in (DOMAIN Stock(d) \cup DOMAIN Stock(e)) \ {p, q} :
             x \in DOMAIN Stock(d) /\ x \in DOMAIN Stock(e) /\ Stock(e)[x] = Stock(d)[x]
<1>1. PICK p \in DOMAIN Stock(d) \cup DOMAIN Stock(e),
           q \in DOMAIN Stock(d) \cup DOMAIN Stock(e) :
        /\ i \in DOMAIN d.Inventory => d.Inventory[i].productTypeId = p
        /\ i \in DOMAIN e.Inventory => e.Inventory[i].productTypeId = q
  <2>1. i \in DOMAIN d.Inventory => d.Inventory[i].productTypeId \in DOMAIN Stock(d)
    BY DEF Stock
  <2>2. i \in DOMAIN e.Inventory => e.Inventory[i].productTypeId \in DOMAIN Stock(e)
    BY DEF Stock
  <2>3. i \in DOMAIN d.Inventory \/ i \in DOMAIN e.Inventory
    BY DEF Restocks
  <2> QED
    BY <2>1, <2>2, <2>3
<1>2. ASSUME NEW x \in (DOMAIN Stock(d) \cup DOMAIN Stock(e)) \ {p, q}
      PROVE  /\ StocksOf(e, x) = StocksOf(d, x)
             /\ \A s \in StocksOf(d, x) : e.Inventory[s] = d.Inventory[s]
  BY <1>1, <1>2 DEF Restocks, StocksOf
<1>3. ASSUME NEW x \in (DOMAIN Stock(d) \cup DOMAIN Stock(e)) \ {p, q}
      PROVE  OnHand(e, x) = OnHand(d, x)
  <2>1. (CHOOSE s \in StocksOf(e, x) : TRUE) = (CHOOSE s \in StocksOf(d, x) : TRUE)
    BY <1>2, <1>3, Zenon
  <2>2. StocksOf(d, x) # {} => (CHOOSE s \in StocksOf(d, x) : TRUE) \in StocksOf(d, x)
    OBVIOUS
  <2> QED
    BY <1>2, <1>3, <2>1, <2>2 DEF OnHand
<1>4. \A x \in (DOMAIN Stock(d) \cup DOMAIN Stock(e)) \ {p, q} :
        x \in DOMAIN Stock(d) /\ x \in DOMAIN Stock(e) /\ Stock(e)[x] = Stock(d)[x]
  BY <1>2, <1>3, StockFacts
<1> QED
  BY <1>1, <1>4

LEMMA CommitIsReceive ==
  ASSUME IInv, CommitReceipt
  PROVE  Ledger!Next
<1> DEFINE d == Committed
           o == task.order
           added(p) == IF p \in ProductsOf(d, o) THEN OrderedQuantity(d, o, p) ELSE 0
<1>1. /\ d \in Database /\ db \in Database /\ o \in DOMAIN d.PurchaseOrder
  BY CommittedTyped, CommitPosts DEF IInv, TypeOK
<1>2. Demand(db) = Demand(d)
  <2>1. ASSUME NEW x
        PROVE  /\ ProductsOf(db, x) = ProductsOf(d, x)
               /\ \A p : OrderedQuantity(db, x, p) = OrderedQuantity(d, x, p)
    <3>1. RecordsOf(db, x) = RecordsOf(d, x)
      BY CommitPosts DEF RecordsOf
    <3> QED
      BY <3>1, CommitPosts, SameLinesSameDemand
  <2> QED
    BY <2>1, CommitPosts DEF Demand
<1>3. Received(db) = Received(d) \cup {o}
  BY <1>1, CommitPosts DEF Received
<1>4. DOMAIN Demand(d) = DOMAIN d.PurchaseOrder /\ DOMAIN Demand(d)[o] = ProductsOf(d, o)
  BY <1>1 DEF Demand
<1>5. ProductsOf(d, o) # {} /\ ProductsOf(d, o) \subseteq Id("ProductType")
  BY <1>1, ColumnsTyped, CommitPosts DEF ProductsOf, RecordsOf, PurchaseOrderRecordRow
<1>6. \A p \in ProductsOf(d, o) : Demand(d)[o][p] = OrderedQuantity(d, o, p)
  BY <1>1 DEF Demand
<1>7. DOMAIN Stock(db) \subseteq Id("ProductType") /\ DOMAIN Stock(d) \subseteq Id("ProductType")
  BY <1>1, ColumnsTyped DEF Stock, InventoryRow
<1>8. DOMAIN Stock(db) = DOMAIN Stock(d) \cup ProductsOf(d, o)
  BY <1>5, <1>7, CommitPosts, StockFacts DEF SameStock
<1>9. \A p \in DOMAIN Stock(d) : OnHand(d, p) \in Nat
  <2> SUFFICES ASSUME NEW p \in DOMAIN Stock(d)
               PROVE  OnHand(d, p) \in Nat
    OBVIOUS
  <2>1. (CHOOSE s \in StocksOf(d, p) : TRUE) \in StocksOf(d, p)
    BY StockFacts
  <2>2. \A s \in StocksOf(d, p) : d.Inventory[s].quantityAvailable \in Nat
    BY <1>1, ColumnsTyped DEF StocksOf, InventoryRow, Quantity
  <2> QED
    BY <2>1, <2>2 DEF OnHand
<1>10. ASSUME NEW p \in DOMAIN Stock(d) \cup ProductsOf(d, o)
       PROVE  Stock(db)[p] = OnHand(d, p) + added(p)
  <2>1. Stock(db)[p] = OnHand(db, p)
    BY <1>8, StockFacts
  <2>2. p \in Id("ProductType")
    BY <1>5, <1>7
  <2>3. CASE p \in ProductsOf(d, o)
    BY <2>1, <2>2, <2>3, CommitPosts
  <2>4. CASE p \notin ProductsOf(d, o)
    BY <1>9, <2>1, <2>2, <2>4, CommitPosts DEF SameStock
  <2> QED
    BY <2>3, <2>4
<1>11. \A p : Ledger!OnHandOf(p) = OnHand(d, p)
  BY StockFacts DEF Ledger!OnHandOf
<1>12. Stock(db) = [p \in DOMAIN Stock(d) \cup DOMAIN Demand(d)[o] |->
                      Ledger!OnHandOf(p)
                        + (IF p \in DOMAIN Demand(d)[o] THEN Demand(d)[o][p] ELSE 0)]
  <2>1. \A p \in DOMAIN Stock(d) \cup ProductsOf(d, o) :
          Stock(db)[p] = Ledger!OnHandOf(p)
                           + (IF p \in DOMAIN Demand(d)[o] THEN Demand(d)[o][p] ELSE 0)
    BY <1>4, <1>6, <1>10, <1>11
  <2> QED
    BY <1>4, <1>8, <2>1 DEF Stock
<1>13. Ledger!Receive(o)
  BY <1>1, <1>2, <1>3, <1>4, <1>5, <1>12, CommitPosts DEF Ledger!Receive
<1> QED
  BY <1>1, <1>4, <1>13 DEF Ledger!Next

LEMMA AutocommittedIsLedger ==
  ASSUME IInv, Autocommitted
  PROVE  Ledger!Next
<1>1. CASE Amends(db, db')
  <2>1. Ledger!AmendOrders
    BY <1>1, AmendIsAmendOrders DEF Ledger!AmendOrders, Autocommitted, Amends
  <2> QED
    BY <2>1 DEF Ledger!Next
<1>2. ASSUME NEW i, Restocks(db, db', i)
      PROVE  Ledger!Next
  <2>1. Received(db') = Received(db) /\ Demand(db') = Demand(db)
    BY <1>2 DEF Restocks, Received, Demand, ProductsOf, OrderedQuantity, LineQuantities, RecordsOf
  <2>2. Ledger!EditAnyStock
    BY <1>2, <2>1, RestockIsEditAnyStock DEF Ledger!EditAnyStock, Ledger!EditStock, Autocommitted
  <2> QED
    BY <2>2 DEF Ledger!Next
<1> QED
  BY <1>1, <1>2, OrdersAmend, OthersAmend, DeleteAmends, StocksRestock
  DEF Autocommitted, AnyRequest, InventoryRequest

LEMMA InitIsLedgerInit == Init => Ledger!Init
<1> SUFFICES ASSUME Init
             PROVE  Ledger!Init
  OBVIOUS
<1>1. /\ Committed = db
      /\ db.Inventory = [i \in {1} |-> [productTypeId |-> 1, quantityAvailable |-> 0,
                                        employeeId |-> FirstEmployee]]
      /\ db.PurchaseOrder = [i \in {1} |-> [userId |-> FirstUser, supplierId |-> FirstSupplier,
                                            status |-> "Ordered"]]
  BY DEF Init, Autocommit, Committed
<1>2. Received(db) = {}
  BY <1>1 DEF Received
<1>3. \A p \in DOMAIN Stock(db) : Stock(db)[p] = 0
  <2> SUFFICES ASSUME NEW p \in DOMAIN Stock(db)
               PROVE  OnHand(db, p) = 0
    BY StockFacts
  <2>1. (CHOOSE s \in StocksOf(db, p) : TRUE) \in StocksOf(db, p)
    BY StockFacts
  <2> QED
    BY <1>1, <2>1 DEF OnHand, StocksOf
<1> QED
  BY <1>1, <1>2, <1>3 DEF Ledger!Init

\* The server implements the ledger: in the file, whatever fails and wherever the
\* process dies, a receipt is one step that adds the quantities of the lines.
THEOREM LedgerImplemented == Spec => ImplementsLedger
<1>1. IInv /\ [Next]_vars => [Ledger!Next]_(Ledger!vars)
  <2> SUFFICES ASSUME IInv, [Next]_vars
               PROVE  [Ledger!Next]_(Ledger!vars)
    OBVIOUS
  <2>1. CASE FileUnchanged
    BY <2>1 DEF FileUnchanged, Ledger!vars
  <2> QED
    BY <2>1, CommitIsReceive, AutocommittedIsLedger, FileChanges
<1> QED
  BY <1>1, InitIsLedgerInit, Invariance, PTL DEF Spec, ImplementsLedger, Ledger!Spec
-----------------------------------------------------------------------------
(* What liveness rests on.                                                  *)

\* How a step leaves the locals of the handler it belongs to.
LEMMA DeleteNextTask ==
  ASSUME TypeOK, NEW r, DeleteNextRecord(r)
  PROVE  /\ task.op = "deleteOrder" /\ r \in task.records
         /\ task.records \subseteq Id("PurchaseOrderRecord")
         /\ task'.op = "deleteOrder" /\ task'.order = task.order
         /\ task'.records = task.records \ {r}
<1>1. task.op = "deleteOrder" /\ r \in task.records /\ task' = [task EXCEPT !.records = @ \ {r}]
  BY DEF DeleteNextRecord
<1>2. task \in [op : {"deleteOrder"}, order : Id("PurchaseOrder"),
                records : SUBSET Id("PurchaseOrderRecord")]
  BY <1>1 DEF TypeOK, Task, Idle
<1> QED
  BY <1>1, <1>2

LEMMA PostStockTask ==
  ASSUME TypeOK, NEW p, PostStock(p)
  PROVE  /\ task.op = "receiveOrder" /\ task.phase = "writing" /\ p \in task.pending
         /\ task'.op = "receiveOrder" /\ task'.phase = "writing" /\ task'.plan = task.plan
         /\ task'.pending = task.pending \ {p}
<1>1. /\ task.op = "receiveOrder" /\ task.phase = "writing" /\ p \in task.pending
      /\ task' = [task EXCEPT !.pending = @ \ {p}]
  BY DEF PostStock
<1> QED
  BY <1>1 DEF TypeOK, Task, Idle

LEMMA PhaseTask ==
  ASSUME TypeOK, BeginReceipt \/ MarkReceived
  PROVE  /\ task.op = "receiveOrder" /\ task'.op = "receiveOrder"
         /\ task'.plan = task.plan /\ task'.pending = task.pending
         /\ BeginReceipt => task.phase = "planned" /\ task'.phase = "writing"
         /\ MarkReceived => task.phase = "writing" /\ task.pending = {}
                               /\ task'.phase = "written"
<1>1. CASE BeginReceipt
  <2>1. /\ task.op = "receiveOrder" /\ task.phase = "planned"
        /\ task' = [task EXCEPT !.phase = "writing"]
    BY <1>1 DEF BeginReceipt
  <2> QED
    BY <2>1 DEF TypeOK, Task, Idle, MarkReceived
<1>2. CASE MarkReceived
  <2>1. /\ task.op = "receiveOrder" /\ task.phase = "writing" /\ task.pending = {}
        /\ task' = [task EXCEPT !.phase = "written"]
    BY <1>2 DEF MarkReceived
  <2> QED
    BY <2>1 DEF TypeOK, Task, Idle, BeginReceipt
<1> QED
  BY <1>1, <1>2

LEMMA IdsAreFinite ==
  ASSUME NEW t \in TableName, NEW S \in SUBSET Id(t)
  PROVE  IsFiniteSet(S) /\ Cardinality(S) \in Nat
<1>1. RowLimit[t] \in Int
  BY BoundAssumption
<1>2. IsFiniteSet(Id(t))
  BY <1>1, FS_Interval DEF Id
<1> QED
  BY <1>2, FS_Subset, FS_CardinalityType

LEMMA PendingIsFinite ==
  ASSUME TypeOK, task.op = "receiveOrder"
  PROVE  /\ IsFiniteSet(task.pending) /\ Cardinality(task.pending) \in Nat
         /\ IsFiniteSet(StillToCreate) /\ Cardinality(StillToCreate) \in Nat
<1>1. task.pending \in SUBSET Id("ProductType")
  BY ReceiptLocals
<1>2. StillToCreate \in SUBSET Id("ProductType")
  BY <1>1 DEF StillToCreate
<1> QED
  BY <1>1, <1>2, IdsAreFinite DEF TableName

(* The way is clear.                                                        *)

LEMMA PostStockIsClear ==
  ASSUME IInv, WayIsClear, NEW p \in Id("ProductType"), PostStock(p)
  PROVE  WayIsClear'
<1>1. TypeOK /\ db \in Database /\ db.sequence["Inventory"] \in Nat
  BY DEF IInv, TypeOK, Database, TableName
<1>2. RowLimit["Inventory"] \in Nat
  BY BoundAssumption DEF TableName
<1>3. /\ task'.op = "receiveOrder" /\ task'.plan = task.plan
      /\ task'.pending = task.pending \ {p} /\ p \in task.pending
      /\ task.op = "receiveOrder"
  BY <1>1, PostStockTask
<1>4. Cardinality(StillToCreate) \in Nat /\ IsFiniteSet(StillToCreate)
  BY <1>1, <1>3, PendingIsFinite
<1>5. StillToCreate' = StillToCreate \ {p}
  BY <1>3 DEF StillToCreate
<1>6. db.sequence["Inventory"] + Cardinality(StillToCreate) <= RowLimit["Inventory"]
  BY <1>3 DEF WayIsClear, RoomFor
<1>7. CASE task.plan[p].id = 0
  <2>1. db'.sequence["Inventory"] = db.sequence["Inventory"] + 1
    BY <1>1, <1>7 DEF PostStock, WriteStock, Insert, Database, TableName
  <2>2. p \in StillToCreate
    BY <1>3, <1>7 DEF StillToCreate
  <2>3. Cardinality(StillToCreate \ {p}) = Cardinality(StillToCreate) - 1
    BY <1>4, <2>2, FS_RemoveElement
  <2> QED
    BY <1>1, <1>2, <1>3, <1>4, <1>5, <1>6, <2>1, <2>3 DEF WayIsClear, RoomFor
<1>8. CASE task.plan[p].id # 0
  <2>1. db'.sequence["Inventory"] = db.sequence["Inventory"]
    BY <1>1, <1>8 DEF PostStock, WriteStock, Update, Database
  <2>2. StillToCreate \ {p} = StillToCreate
    BY <1>8 DEF StillToCreate
  <2> QED
    BY <1>3, <1>5, <1>6, <2>1, <2>2 DEF WayIsClear, RoomFor
<1> QED
  BY <1>7, <1>8

LEMMA NextIsClear == IInv /\ WayIsClear /\ [Next]_vars => WayIsClear'
<1> SUFFICES ASSUME IInv, WayIsClear, [Next]_vars
             PROVE  WayIsClear'
  OBVIOUS
<1>1. TypeOK /\ db \in Database
  BY DEF IInv, TypeOK
<1>2. CASE UNCHANGED vars
  BY <1>2 DEF vars, WayIsClear, StillToCreate, RoomFor
<1>3. CASE task' = Idle
  BY <1>3 DEF WayIsClear, Idle
<1>4. CASE AnyRequest
  <2>1. ASSUME NEW o \in Id("PurchaseOrder"), DeleteOrder(o)
        PROVE  WayIsClear'
    BY <2>1 DEF DeleteOrder, WayIsClear
  <2>2. ASSUME NEW o \in Id("PurchaseOrder"), NEW e \in Employees, ReceiveOrder(o, e)
        PROVE  WayIsClear'
    <3> DEFINE plan == PlannedStocks(db, o)
    <3>1. /\ task' = [op |-> "receiveOrder", order |-> o, employee |-> e, plan |-> plan,
                      row |-> db.PurchaseOrder[o], pending |-> DOMAIN plan,
                      phase |-> "planned"]
          /\ db' = db /\ RoomFor("Inventory", Cardinality(Created(plan)))
      BY <2>2 DEF ReceiveOrder
    <3> HIDE DEF plan
    <3>2. StillToCreate' = Created(plan)
      BY <3>1 DEF StillToCreate, Created
    <3> QED
      BY <3>1, <3>2 DEF WayIsClear, RoomFor
  <2>3. CASE task' = task
    BY <1>3, <1>4, <2>3, RequestsAreIdle
  <2> QED
    BY <1>4, <2>1, <2>2, <2>3
    DEF AnyRequest, PurchaseRequest, InventoryRequest, PeopleRequest,
        AddOrder, EditOrder, AddOrderRecord, EditOrderRecord,
        DeleteOrderRecord, ProductTypeRequest, StockRequest, SupplierProductRequest,
        AddProductType, EditProductType, DeleteProductType, AddStock, EditStock, DeleteStock,
        AddSupplierProduct, EditSupplierProduct, DeleteSupplierProduct, Request,
        DeleteUser, DeleteSupplier, DeleteEmployee
<1>5. ASSUME NEW r \in Id("PurchaseOrderRecord"), DeleteNextRecord(r)
      PROVE  WayIsClear'
  <2>1. db'.PurchaseOrderRecord
          = Restrict(db.PurchaseOrderRecord, DOMAIN db.PurchaseOrderRecord \ {r})
    BY <1>1, <1>5 DEF DeleteNextRecord, Delete, Database
  <2>2. /\ task.op = "deleteOrder" /\ task'.op = "deleteOrder" /\ task'.order = task.order
        /\ task'.records = task.records \ {r}
    BY <1>1, <1>5, DeleteNextTask
  <2>3. RecordsOf(db', task.order) \subseteq RecordsOf(db, task.order) \ {r}
    BY <2>1 DEF RecordsOf, Restrict
  <2> QED
    BY <2>2, <2>3 DEF WayIsClear
<1>6. CASE BeginReceipt \/ MarkReceived
  <2>1. /\ task.op = "receiveOrder" /\ task'.op = "receiveOrder"
        /\ StillToCreate' = StillToCreate
    BY <1>1, <1>6, PhaseTask DEF StillToCreate
  <2>2. db'.sequence = db.sequence
    BY <1>1, <1>6 DEF BeginReceipt, MarkReceived, Update, Database
  <2> QED
    BY <2>1, <2>2 DEF WayIsClear, RoomFor
<1>7. CASE PurchaseStep
  BY <1>3, <1>5, <1>6, <1>7, PostStockIsClear
  DEF PurchaseStep, DeleteOrderRow, BeginFails, CommitReceipt
<1>8. CASE PurchaseFault
  BY <1>3, <1>8 DEF PurchaseFault, StatementFails, RollbackFails, Crash
<1> QED
  BY <1>2, <1>4, <1>7, <1>8 DEF Next

\* No statement of a handler under way waits for another request: the row of an
\* order whose lines are deleted is referenced by nothing, and a receipt's
\* inserts get the ids that were left when it was planned.
THEOREM WayStaysClear == Spec => []NothingStandsInTheWay
<1>1. Init => WayIsClear
  BY DEF Init, Idle, WayIsClear
<1>2. IInv /\ WayIsClear => NothingStandsInTheWay
  <2> SUFFICES ASSUME IInv, WayIsClear
               PROVE  NothingStandsInTheWay
    OBVIOUS
  <2>1. task.op = "deleteOrder" /\ task.records = {} => ~PurchaseOrderReferenced(db, task.order)
    BY DEF WayIsClear, PurchaseOrderReferenced, RecordsOf
  <2>2. ASSUME task.op = "receiveOrder", StillToCreate # {}
        PROVE  RoomFor("Inventory", 1)
    <3>1. TypeOK /\ db.sequence["Inventory"] \in Nat /\ RowLimit["Inventory"] \in Nat
      BY BoundAssumption DEF IInv, TypeOK, Database, TableName
    <3>2. Cardinality(StillToCreate) \in Nat /\ IsFiniteSet(StillToCreate)
      BY <2>2, <3>1, PendingIsFinite
    <3>3. Cardinality(StillToCreate) # 0
      BY <2>2, <3>2, FS_EmptySet
    <3> QED
      BY <2>2, <3>1, <3>2, <3>3 DEF WayIsClear, RoomFor
  <2> QED
    BY <2>1, <2>2 DEF NothingStandsInTheWay
<1> QED
  BY <1>1, <1>2, NextIsClear, Invariance, PTL DEF Spec

(* Handlers come to an end.                                                 *)

LEMMA StatementsLeftOf ==
  /\ task.op = "deleteOrder" => StatementsLeft = Cardinality(task.records) + 1
  /\ task.op = "receiveOrder" =>
       /\ task.phase = "planned" => StatementsLeft = Cardinality(task.pending) + 3
       /\ task.phase = "writing" => StatementsLeft = Cardinality(task.pending) + 2
       /\ task.phase = "written" => StatementsLeft = 1
  /\ task = Idle => StatementsLeft = 0
BY DEF StatementsLeft, Idle

LEMMA StatementsLeftThen ==
  /\ task'.op = "deleteOrder" => StatementsLeft' = Cardinality(task'.records) + 1
  /\ task'.op = "receiveOrder" =>
       /\ task'.phase = "planned" => StatementsLeft' = Cardinality(task'.pending) + 3
       /\ task'.phase = "writing" => StatementsLeft' = Cardinality(task'.pending) + 2
       /\ task'.phase = "written" => StatementsLeft' = 1
  /\ task' = Idle => StatementsLeft' = 0
BY DEF StatementsLeft, Idle

LEMMA StatementsLeftTyped == TypeOK => StatementsLeft \in Nat /\ (task # Idle => StatementsLeft > 0)
<1> SUFFICES ASSUME TypeOK
             PROVE  StatementsLeft \in Nat /\ (task # Idle => StatementsLeft > 0)
  OBVIOUS
<1>1. CASE task.op = "deleteOrder"
  <2>1. task.records \in SUBSET Id("PurchaseOrderRecord")
    BY <1>1 DEF TypeOK, Task, Idle
  <2>2. Cardinality(task.records) \in Nat
    BY <2>1, IdsAreFinite DEF TableName
  <2> QED
    BY <1>1, <2>2, StatementsLeftOf
<1>2. CASE task.op = "receiveOrder"
  BY <1>2, PendingIsFinite, ReceiptLocals, StatementsLeftOf
<1>3. CASE task = Idle
  BY <1>3, StatementsLeftOf
<1> QED
  BY <1>1, <1>2, <1>3 DEF TypeOK, Task

LEMMA StatementsLeftStaysTyped ==
  TypeOK' => (StatementsLeft \in Nat /\ (task # Idle => StatementsLeft > 0))'
BY StatementsLeftTyped, PTL

LEMMA StepDescends ==
  ASSUME IInv, PurchaseStep
  PROVE  StatementsLeft' < StatementsLeft
<1>1. TypeOK /\ TypeOK'
  BY StepIInv DEF IInv
<1>2. StatementsLeft \in Nat /\ (task # Idle => StatementsLeft > 0)
  BY <1>1, StatementsLeftTyped
<1>3. task' = Idle => StatementsLeft' = 0
  BY StatementsLeftThen
<1>4. ASSUME NEW r, DeleteNextRecord(r)
      PROVE  StatementsLeft' < StatementsLeft
  <2>1. /\ task.op = "deleteOrder" /\ r \in task.records
        /\ task.records \in SUBSET Id("PurchaseOrderRecord")
        /\ task'.op = "deleteOrder" /\ task'.records = task.records \ {r}
    BY <1>1, <1>4, DeleteNextTask
  <2>2. IsFiniteSet(task.records) /\ Cardinality(task.records) \in Nat
    BY <2>1, IdsAreFinite DEF TableName
  <2>3. Cardinality(task.records \ {r}) = Cardinality(task.records) - 1
    BY <2>1, <2>2, FS_RemoveElement
  <2>4. StatementsLeft = Cardinality(task.records) + 1
    BY <2>1, StatementsLeftOf
  <2>5. StatementsLeft' = Cardinality(task.records \ {r}) + 1
    BY <2>1, StatementsLeftThen
  <2> QED
    BY <2>2, <2>3, <2>4, <2>5
<1>5. ASSUME NEW p, PostStock(p)
      PROVE  StatementsLeft' < StatementsLeft
  <2>1. /\ task.op = "receiveOrder" /\ task.phase = "writing" /\ p \in task.pending
        /\ task'.op = "receiveOrder" /\ task'.phase = "writing"
        /\ task'.pending = task.pending \ {p}
    BY <1>1, <1>5, PostStockTask
  <2>2. IsFiniteSet(task.pending) /\ Cardinality(task.pending) \in Nat
    BY <1>1, <2>1, PendingIsFinite
  <2>3. Cardinality(task.pending \ {p}) = Cardinality(task.pending) - 1
    BY <2>1, <2>2, FS_RemoveElement
  <2>4. StatementsLeft = Cardinality(task.pending) + 2
    BY <2>1, StatementsLeftOf
  <2>5. StatementsLeft' = Cardinality(task.pending \ {p}) + 2
    BY <2>1, StatementsLeftThen
  <2> QED
    BY <2>2, <2>3, <2>4, <2>5
<1>6. CASE BeginReceipt
  <2>1. /\ task.op = "receiveOrder" /\ task.phase = "planned" /\ task'.op = "receiveOrder"
        /\ task'.phase = "writing" /\ task'.pending = task.pending
    BY <1>1, <1>6, PhaseTask
  <2>2. Cardinality(task.pending) \in Nat
    BY <1>1, <2>1, PendingIsFinite
  <2>3. StatementsLeft = Cardinality(task.pending) + 3
    BY <2>1, StatementsLeftOf
  <2>4. StatementsLeft' = Cardinality(task.pending) + 2
    BY <2>1, StatementsLeftThen
  <2> QED
    BY <2>2, <2>3, <2>4
<1>7. CASE MarkReceived
  <2>1. /\ task.op = "receiveOrder" /\ task.phase = "writing" /\ task'.op = "receiveOrder"
        /\ task'.phase = "written"
    BY <1>1, <1>7, PhaseTask
  <2>2. Cardinality(task.pending) \in Nat
    BY <1>1, <2>1, PendingIsFinite
  <2>3. StatementsLeft = Cardinality(task.pending) + 2
    BY <2>1, StatementsLeftOf
  <2>4. StatementsLeft' = 1
    BY <2>1, StatementsLeftThen
  <2> QED
    BY <2>2, <2>3, <2>4
<1>8. CASE DeleteOrderRow \/ BeginFails \/ CommitReceipt
  <2>1. task # Idle /\ task' = Idle
    BY <1>8 DEF DeleteOrderRow, BeginFails, CommitReceipt, Idle
  <2> QED
    BY <1>2, <1>3, <2>1
<1> QED
  BY <1>4, <1>5, <1>6, <1>7, <1>8 DEF PurchaseStep

\* Each statement of a handler brings it nearer to its end, and nothing but
\* another request puts statements before the thread: no handler goes on for ever.
THEOREM HandlersComeToAnEnd == Spec => HandlersDescend
<1>1. IInv /\ [Next]_vars
        => [/\ PurchaseStep => StatementsLeft' < StatementsLeft
            /\ task # Idle => StatementsLeft' <= StatementsLeft]_vars
  <2> SUFFICES ASSUME IInv, Next
               PROVE  /\ PurchaseStep => StatementsLeft' < StatementsLeft
                      /\ task # Idle => StatementsLeft' <= StatementsLeft
    OBVIOUS
  <2>1. TypeOK /\ TypeOK'
    BY NextIInv DEF IInv
  <2>2. StatementsLeft \in Nat
    BY <2>1, StatementsLeftTyped
  <2>3. CASE PurchaseStep
    <3>1. StatementsLeft' < StatementsLeft
      BY <2>3, StepDescends
    <3>2. StatementsLeft' \in Nat
      BY <2>1, StatementsLeftStaysTyped
    <3> QED
      BY <2>2, <3>1, <3>2
  <2>4. CASE ~PurchaseStep /\ PurchaseFault
    <3>1. StatementsLeft' = 0
      BY <2>4, StatementsLeftThen DEF PurchaseFault, StatementFails, RollbackFails, Crash
    <3> QED
      BY <2>2, <2>4, <3>1
  <2>5. CASE ~PurchaseStep /\ AnyRequest
    BY <2>5, RequestsAreIdle
  <2> QED
    BY <2>3, <2>4, <2>5 DEF Next
<1> QED
  BY <1>1, Invariance, PTL DEF Spec, HandlersDescend

(* And have done their work by then.                                        *)

LEMMA DeleteRowFinishes ==
  ASSUME IInv, OpenOnlyInReceipt, DeleteOrderRow
  PROVE  /\ task.order \notin DOMAIN Committed'.PurchaseOrder
         /\ RecordsOf(Committed', task.order) = {}
<1>1. db \in Database /\ task.op = "deleteOrder"
  BY DEF IInv, TypeOK, DeleteOrderRow
<1>2. Committed' = db'
  BY <1>1 DEF OpenOnlyInReceipt, InTransaction, DeleteOrderRow, Committed
<1>3. /\ db'.PurchaseOrder = Restrict(db.PurchaseOrder, DOMAIN db.PurchaseOrder \ {task.order})
      /\ db'.PurchaseOrderRecord = db.PurchaseOrderRecord
  BY <1>1 DEF DeleteOrderRow, Delete, Database
<1>4. RecordsOf(db, task.order) = {}
  BY DEF DeleteOrderRow, PurchaseOrderReferenced, RecordsOf
<1> QED
  BY <1>2, <1>3, <1>4 DEF RecordsOf, Restrict

\* A handler that returns without a fault has done in the file what it was asked
\* for: the order is gone with all its lines, or it is received.  A ROLLBACK that
\* failed would make a later BEGIN fail, which is no fault of that later request.
THEOREM HandlersFinish ==
  ASSUME ~RollbackMayFail
  PROVE  Spec => FinishedMeansDone
<1> DEFINE Done ==
             task # Idle /\ task' = Idle /\ faults' = faults =>
               \/ /\ task.op = "deleteOrder"
                  /\ task.order \notin DOMAIN Committed'.PurchaseOrder
                  /\ RecordsOf(Committed', task.order) = {}
               \/ task.op = "receiveOrder" /\ task.order \in Received(Committed')
<1>1. IInv /\ OpenOnlyInReceipt /\ [Next]_vars => [Done]_vars
  <2> SUFFICES ASSUME IInv, OpenOnlyInReceipt, Next,
                      task # Idle, task' = Idle, faults' = faults
               PROVE  \/ /\ task.op = "deleteOrder"
                         /\ task.order \notin DOMAIN Committed'.PurchaseOrder
                         /\ RecordsOf(Committed', task.order) = {}
                      \/ task.op = "receiveOrder" /\ task.order \in Received(Committed')
    OBVIOUS
  <2>1. TypeOK /\ faults \in Nat
    BY DEF IInv, TypeOK
  <2>2. ~AnyRequest
    BY RequestsAreIdle
  <2>3. ~PurchaseFault
    BY <2>1 DEF PurchaseFault, StatementFails, RollbackFails, Crash, Fault
  <2>4. ~BeginFails
    BY DEF BeginFails, OpenOnlyInReceipt, InTransaction
  <2>5. task'.op \notin {"deleteOrder", "receiveOrder"}
    BY DEF Idle
  <2>6. DeleteOrderRow \/ CommitReceipt
    BY <2>1, <2>2, <2>3, <2>4, <2>5, DeleteNextTask, PostStockTask, PhaseTask
    DEF Next, PurchaseStep
  <2>7. CASE DeleteOrderRow
    BY <2>7, DeleteRowFinishes DEF DeleteOrderRow
  <2>8. CASE CommitReceipt
    BY <2>8, CommitPosts DEF CommitReceipt, Received
  <2> QED
    BY <2>6, <2>7, <2>8
<1>2. IInv /\ OpenOnlyInReceipt /\ [Next]_vars => OpenOnlyInReceipt'
  BY NextOpen
<1> QED
  BY <1>1, <1>2, InitOpen, Invariance, PTL DEF Spec, FinishedMeansDone
=============================================================================

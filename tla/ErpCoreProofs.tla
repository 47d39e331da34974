--------------------------- MODULE ErpCoreProofs ---------------------------
(***************************************************************************)
(* Proofs about ErpCore for every size of the tables, every set of users,  *)
(* suppliers, employees and codes, and any number of faults.               *)
(***************************************************************************)
EXTENDS ErpCore, TLAPS

-----------------------------------------------------------------------------
(* Tables.                                                                  *)

LEMMA TableIff ==
  ASSUME NEW ids, NEW Row, NEW f
  PROVE  f \in Table(ids, Row) <=> (DOMAIN f \subseteq ids /\ f \in [DOMAIN f -> Row])
BY DEF Table

LEMMA PutTyped ==
  ASSUME NEW ids, NEW Row, NEW f \in Table(ids, Row), NEW i \in ids, NEW row \in Row
  PROVE  Put(f, i, row) \in Table(ids, Row)
BY TableIff DEF Put

LEMMA EditTyped ==
  ASSUME NEW ids, NEW Row, NEW f \in Table(ids, Row), NEW i, NEW row \in Row
  PROVE  [f EXCEPT ![i] = row] \in Table(ids, Row)
BY TableIff

LEMMA DropTyped ==
  ASSUME NEW ids, NEW Row, NEW f \in Table(ids, Row), NEW i
  PROVE  Restrict(f, DOMAIN f \ {i}) \in Table(ids, Row)
BY TableIff DEF Restrict

-----------------------------------------------------------------------------
(* Statements keep a database a database.                                   *)

LEMMA NextIdTyped ==
  ASSUME NEW d \in Database, NEW t \in TableName, d.sequence[t] + 1 <= RowLimit[t]
  PROVE  /\ d.sequence[t] + 1 \in Id(t)
         /\ [d.sequence EXCEPT ![t] = d.sequence[t] + 1] \in [TableName -> Nat]
<1>1. d.sequence \in [TableName -> Nat]
  BY DEF Database
<1>2. RowLimit[t] \in Nat
  BY BoundAssumption
<1> QED
  BY <1>1, <1>2 DEF Id

LEMMA InsertTyped ==
  ASSUME NEW d \in Database
  PROVE  /\ \A row \in ProductTypeRow :
              d.sequence["ProductType"] + 1 <= RowLimit["ProductType"]
                => Insert(d, "ProductType", row) \in Database
         /\ \A row \in InventoryRow :
              d.sequence["Inventory"] + 1 <= RowLimit["Inventory"]
                => Insert(d, "Inventory", row) \in Database
         /\ \A row \in SuppliersProductInfoRow :
              d.sequence["SuppliersProductInfo"] + 1 <= RowLimit["SuppliersProductInfo"]
                => Insert(d, "SuppliersProductInfo", row) \in Database
         /\ \A row \in PurchaseOrderRow :
              d.sequence["PurchaseOrder"] + 1 <= RowLimit["PurchaseOrder"]
                => Insert(d, "PurchaseOrder", row) \in Database
         /\ \A row \in PurchaseOrderRecordRow :
              d.sequence["PurchaseOrderRecord"] + 1 <= RowLimit["PurchaseOrderRecord"]
                => Insert(d, "PurchaseOrderRecord", row) \in Database
<1> DEFINE id(t) == d.sequence[t] + 1
           seq(t) == [d.sequence EXCEPT ![t] = id(t)]
<1>1. ASSUME NEW row \in ProductTypeRow, id("ProductType") <= RowLimit["ProductType"]
      PROVE  Insert(d, "ProductType", row) \in Database
  <2>1. Put(d.ProductType, id("ProductType"), row) \in Table(Id("ProductType"), ProductTypeRow)
    BY <1>1, NextIdTyped, PutTyped DEF Database, TableName
  <2>2. seq("ProductType") \in [TableName -> Nat]
    BY <1>1, NextIdTyped DEF TableName
  <2> QED
    BY <2>1, <2>2 DEF Insert, Database
<1>2. ASSUME NEW row \in InventoryRow, id("Inventory") <= RowLimit["Inventory"]
      PROVE  Insert(d, "Inventory", row) \in Database
  <2>1. Put(d.Inventory, id("Inventory"), row) \in Table(Id("Inventory"), InventoryRow)
    BY <1>2, NextIdTyped, PutTyped DEF Database, TableName
  <2>2. seq("Inventory") \in [TableName -> Nat]
    BY <1>2, NextIdTyped DEF TableName
  <2> QED
    BY <2>1, <2>2 DEF Insert, Database
<1>3. ASSUME NEW row \in SuppliersProductInfoRow,
             id("SuppliersProductInfo") <= RowLimit["SuppliersProductInfo"]
      PROVE  Insert(d, "SuppliersProductInfo", row) \in Database
  <2>1. Put(d.SuppliersProductInfo, id("SuppliersProductInfo"), row)
          \in Table(Id("SuppliersProductInfo"), SuppliersProductInfoRow)
    BY <1>3, NextIdTyped, PutTyped DEF Database, TableName
  <2>2. seq("SuppliersProductInfo") \in [TableName -> Nat]
    BY <1>3, NextIdTyped DEF TableName
  <2> QED
    BY <2>1, <2>2 DEF Insert, Database
<1>4. ASSUME NEW row \in PurchaseOrderRow, id("PurchaseOrder") <= RowLimit["PurchaseOrder"]
      PROVE  Insert(d, "PurchaseOrder", row) \in Database
  <2>1. Put(d.PurchaseOrder, id("PurchaseOrder"), row)
          \in Table(Id("PurchaseOrder"), PurchaseOrderRow)
    BY <1>4, NextIdTyped, PutTyped DEF Database, TableName
  <2>2. seq("PurchaseOrder") \in [TableName -> Nat]
    BY <1>4, NextIdTyped DEF TableName
  <2> QED
    BY <2>1, <2>2 DEF Insert, Database
<1>5. ASSUME NEW row \in PurchaseOrderRecordRow,
             id("PurchaseOrderRecord") <= RowLimit["PurchaseOrderRecord"]
      PROVE  Insert(d, "PurchaseOrderRecord", row) \in Database
  <2>1. Put(d.PurchaseOrderRecord, id("PurchaseOrderRecord"), row)
          \in Table(Id("PurchaseOrderRecord"), PurchaseOrderRecordRow)
    BY <1>5, NextIdTyped, PutTyped DEF Database, TableName
  <2>2. seq("PurchaseOrderRecord") \in [TableName -> Nat]
    BY <1>5, NextIdTyped DEF TableName
  <2> QED
    BY <2>1, <2>2 DEF Insert, Database
<1> QED
  BY <1>1, <1>2, <1>3, <1>4, <1>5

LEMMA UpdateTyped ==
  ASSUME NEW d \in Database, NEW i
  PROVE  /\ \A row \in ProductTypeRow : Update(d, "ProductType", i, row) \in Database
         /\ \A row \in InventoryRow : Update(d, "Inventory", i, row) \in Database
         /\ \A row \in SuppliersProductInfoRow :
              Update(d, "SuppliersProductInfo", i, row) \in Database
         /\ \A row \in PurchaseOrderRow : Update(d, "PurchaseOrder", i, row) \in Database
         /\ \A row \in PurchaseOrderRecordRow :
              Update(d, "PurchaseOrderRecord", i, row) \in Database
<1>1. /\ \A row \in ProductTypeRow :
           [d.ProductType EXCEPT ![i] = row] \in Table(Id("ProductType"), ProductTypeRow)
      /\ \A row \in InventoryRow :
           [d.Inventory EXCEPT ![i] = row] \in Table(Id("Inventory"), InventoryRow)
      /\ \A row \in SuppliersProductInfoRow :
           [d.SuppliersProductInfo EXCEPT ![i] = row]
             \in Table(Id("SuppliersProductInfo"), SuppliersProductInfoRow)
      /\ \A row \in PurchaseOrderRow :
           [d.PurchaseOrder EXCEPT ![i] = row] \in Table(Id("PurchaseOrder"), PurchaseOrderRow)
      /\ \A row \in PurchaseOrderRecordRow :
           [d.PurchaseOrderRecord EXCEPT ![i] = row]
             \in Table(Id("PurchaseOrderRecord"), PurchaseOrderRecordRow)
  BY EditTyped DEF Database
<1> QED
  BY <1>1 DEF Update, Database

LEMMA DeleteTyped ==
  ASSUME NEW d \in Database, NEW i
  PROVE  /\ Delete(d, "ProductType", i) \in Database
         /\ Delete(d, "Inventory", i) \in Database
         /\ Delete(d, "SuppliersProductInfo", i) \in Database
         /\ Delete(d, "PurchaseOrder", i) \in Database
         /\ Delete(d, "PurchaseOrderRecord", i) \in Database
<1>1. /\ Restrict(d.ProductType, DOMAIN d.ProductType \ {i})
           \in Table(Id("ProductType"), ProductTypeRow)
      /\ Restrict(d.Inventory, DOMAIN d.Inventory \ {i})
           \in Table(Id("Inventory"), InventoryRow)
      /\ Restrict(d.SuppliersProductInfo, DOMAIN d.SuppliersProductInfo \ {i})
           \in Table(Id("SuppliersProductInfo"), SuppliersProductInfoRow)
      /\ Restrict(d.PurchaseOrder, DOMAIN d.PurchaseOrder \ {i})
           \in Table(Id("PurchaseOrder"), PurchaseOrderRow)
      /\ Restrict(d.PurchaseOrderRecord, DOMAIN d.PurchaseOrderRecord \ {i})
           \in Table(Id("PurchaseOrderRecord"), PurchaseOrderRecordRow)
  BY DropTyped DEF Database
<1> QED
  BY <1>1 DEF Delete, Database

LEMMA CommittedTyped == TypeOK => Committed \in Database
<1> SUFFICES ASSUME TypeOK
             PROVE  Committed \in Database
  OBVIOUS
<1>1. CASE journal = Autocommit
  BY <1>1 DEF TypeOK, Autocommit, Committed
<1>2. CASE journal \in [open : {TRUE}, saved : Database]
  BY <1>2 DEF Committed
<1> QED
  BY <1>1, <1>2 DEF TypeOK, Journal

-----------------------------------------------------------------------------
(* Type correctness.                                                        *)

LEMMA ColumnsTyped ==
  ASSUME NEW d \in Database
  PROVE  /\ DOMAIN d.ProductType \subseteq Id("ProductType")
         /\ DOMAIN d.Inventory \subseteq Id("Inventory")
         /\ DOMAIN d.PurchaseOrder \subseteq Id("PurchaseOrder")
         /\ DOMAIN d.PurchaseOrderRecord \subseteq Id("PurchaseOrderRecord")
         /\ \A s \in DOMAIN d.Inventory : d.Inventory[s] \in InventoryRow
         /\ \A o \in DOMAIN d.PurchaseOrder : d.PurchaseOrder[o] \in PurchaseOrderRow
         /\ \A r \in DOMAIN d.PurchaseOrderRecord :
              d.PurchaseOrderRecord[r] \in PurchaseOrderRecordRow
BY TableIff DEF Database

LEMMA RequestTypeOK ==
  ASSUME TypeOK, PurchaseRequest \/ InventoryRequest \/ PeopleRequest
  PROVE  TypeOK'
<1> USE DEF TypeOK, PendingIsPlanned, Idle
<1>1. ASSUME NEW u \in Users, NEW s \in Suppliers, NEW status \in Status,
             AddOrder(u, s, status)
      PROVE  TypeOK'
  BY <1>1, InsertTyped DEF AddOrder, RoomFor, PurchaseOrderRow
<1>2. ASSUME NEW u \in Users, NEW s \in Suppliers, NEW status \in Status,
             NEW o \in Id("PurchaseOrder"), EditOrder(o, u, s, status)
      PROVE  TypeOK'
  BY <1>2, UpdateTyped DEF EditOrder, PurchaseOrderRow
<1>3. ASSUME NEW o \in Id("PurchaseOrder"), DeleteOrder(o)
      PROVE  TypeOK'
  <2>1. RecordsOf(db, o) \subseteq Id("PurchaseOrderRecord")
    BY ColumnsTyped DEF RecordsOf
  <2> QED
    BY <1>3, <2>1 DEF DeleteOrder, Task
<1>4. ASSUME NEW o \in Id("PurchaseOrder"), NEW e \in Employees, ReceiveOrder(o, e)
      PROVE  TypeOK'
  <2> DEFINE plan == PlannedStocks(db, o)
  <2>1. ProductsOf(db, o) \subseteq Id("ProductType")
    BY ColumnsTyped DEF ProductsOf, RecordsOf, PurchaseOrderRecordRow
  <2>2. \A p \in ProductsOf(db, o) : plan[p].id \in {0} \cup Id("Inventory")
    <3> SUFFICES ASSUME NEW p \in ProductsOf(db, o), StocksOf(db, p) # {}
                 PROVE  (CHOOSE s \in StocksOf(db, p) : TRUE) \in Id("Inventory")
      BY DEF PlannedStocks
    <3> QED
      BY ColumnsTyped DEF StocksOf
  <2>3. \A p \in ProductsOf(db, o) : plan[p].quantityAvailable \in Quantity
    BY <1>4 DEF ReceiveOrder, PlannedStocks
  <2>4. plan \in [ProductsOf(db, o) -> [id : {0} \cup Id("Inventory"),
                                        quantityAvailable : Quantity]]
    BY <2>2, <2>3 DEF PlannedStocks
  <2>5. plan \in Plan /\ DOMAIN plan \subseteq Id("ProductType")
    BY <2>1, <2>4, TableIff DEF Plan
  <2>6. db.PurchaseOrder[o] \in PurchaseOrderRow
    BY <1>4, ColumnsTyped DEF ReceiveOrder, OrderIsOpen
  <2>7. /\ task' = [op |-> "receiveOrder", order |-> o, employee |-> e, plan |-> plan,
                    row |-> db.PurchaseOrder[o], pending |-> DOMAIN plan,
                    phase |-> "planned"]
        /\ UNCHANGED <<db, journal, faults>>
    BY <1>4 DEF ReceiveOrder
  <2> HIDE DEF plan
  <2>8. task' \in Task
    BY <2>5, <2>6, <2>7 DEF Task
  <2> QED
    BY <2>7, <2>8
<1>5. ASSUME NEW o \in Id("PurchaseOrder"), NEW p \in Id("ProductType"),
             NEW q \in RequestQuantities, AddOrderRecord(o, p, q)
      PROVE  TypeOK'
  BY <1>5, InsertTyped, BoundAssumption DEF AddOrderRecord, RoomFor, PurchaseOrderRecordRow
<1>6. ASSUME NEW o \in Id("PurchaseOrder"), NEW p \in Id("ProductType"),
             NEW q \in RequestQuantities, NEW r \in Id("PurchaseOrderRecord"),
             EditOrderRecord(r, o, p, q)
      PROVE  TypeOK'
  BY <1>6, UpdateTyped, BoundAssumption DEF EditOrderRecord, PurchaseOrderRecordRow
<1>7. ASSUME NEW r \in Id("PurchaseOrderRecord"), DeleteOrderRecord(r)
      PROVE  TypeOK'
  BY <1>7, DeleteTyped DEF DeleteOrderRecord
<1>8. CASE ProductTypeRequest
  <2>1. ASSUME NEW c \in Codes, AddProductType(c)
        PROVE  TypeOK'
    BY <2>1, InsertTyped DEF AddProductType, Request, RoomFor, ProductTypeRow
  <2>2. ASSUME NEW c \in Codes, NEW p \in Id("ProductType"), EditProductType(p, c)
        PROVE  TypeOK'
    BY <2>2, UpdateTyped DEF EditProductType, Request, ProductTypeRow
  <2>3. ASSUME NEW p \in Id("ProductType"), DeleteProductType(p)
        PROVE  TypeOK'
    BY <2>3, DeleteTyped DEF DeleteProductType, Request
  <2> QED
    BY <1>8, <2>1, <2>2, <2>3 DEF ProductTypeRequest
<1>9. CASE StockRequest
  <2>1. ASSUME NEW p \in Id("ProductType"), NEW q \in RequestQuantities, NEW e \in Employees,
               AddStock(p, q, e)
        PROVE  TypeOK'
    BY <2>1, InsertTyped, BoundAssumption DEF AddStock, Request, RoomFor, InventoryRow
  <2>2. ASSUME NEW p \in Id("ProductType"), NEW q \in RequestQuantities, NEW e \in Employees,
               NEW s \in Id("Inventory"), EditStock(s, p, q, e)
        PROVE  TypeOK'
    BY <2>2, UpdateTyped, BoundAssumption DEF EditStock, Request, InventoryRow
  <2>3. ASSUME NEW s \in Id("Inventory"), DeleteStock(s)
        PROVE  TypeOK'
    BY <2>3, DeleteTyped DEF DeleteStock, Request
  <2> QED
    BY <1>9, <2>1, <2>2, <2>3 DEF StockRequest
<1>10. CASE SupplierProductRequest
  <2>1. ASSUME NEW s \in Suppliers, NEW p \in Id("ProductType"), AddSupplierProduct(s, p)
        PROVE  TypeOK'
    BY <2>1, InsertTyped DEF AddSupplierProduct, Request, RoomFor, SuppliersProductInfoRow
  <2>2. ASSUME NEW s \in Suppliers, NEW p \in Id("ProductType"),
               NEW i \in Id("SuppliersProductInfo"), EditSupplierProduct(i, s, p)
        PROVE  TypeOK'
    BY <2>2, UpdateTyped DEF EditSupplierProduct, Request, SuppliersProductInfoRow
  <2>3. ASSUME NEW i \in Id("SuppliersProductInfo"), DeleteSupplierProduct(i)
        PROVE  TypeOK'
    BY <2>3, DeleteTyped DEF DeleteSupplierProduct, Request
  <2> QED
    BY <1>10, <2>1, <2>2, <2>3 DEF SupplierProductRequest
<1>11. CASE PeopleRequest
  <2>1. \A S \in SUBSET Users : [db EXCEPT !.User = S] \in Database
    BY DEF Database
  <2>2. \A S \in SUBSET Suppliers : [db EXCEPT !.Supplier = S] \in Database
    BY DEF Database
  <2>3. \A S \in SUBSET Employees : [db EXCEPT !.Employee = S] \in Database
    BY DEF Database
  <2>4. db.User \subseteq Users /\ db.Supplier \subseteq Suppliers /\ db.Employee \subseteq Employees
    BY DEF Database
  <2> QED
    BY <1>11, <2>1, <2>2, <2>3, <2>4
    DEF PeopleRequest, DeleteUser, DeleteSupplier, DeleteEmployee
<1> QED
  BY <1>1, <1>2, <1>3, <1>4, <1>5, <1>6, <1>7, <1>8, <1>9, <1>10, <1>11
  DEF PurchaseRequest, InventoryRequest

LEMMA StepTypeOK ==
  ASSUME TypeOK, PurchaseStep
  PROVE  TypeOK'
<1> USE DEF TypeOK, PendingIsPlanned, Idle
<1>1. ASSUME NEW r \in Id("PurchaseOrderRecord"), DeleteNextRecord(r)
      PROVE  TypeOK'
  <2>1. task' \in Task
    BY <1>1 DEF DeleteNextRecord, Task, Idle
  <2> QED
    BY <1>1, <2>1, DeleteTyped DEF DeleteNextRecord
<1>2. CASE DeleteOrderRow
  BY <1>2, DeleteTyped DEF DeleteOrderRow, Task
<1>3. CASE BeginReceipt
  <2>1. task' \in Task
    BY <1>3 DEF BeginReceipt, Task, Idle
  <2> QED
    BY <1>3, <2>1 DEF BeginReceipt, Begin, Journal
<1>4. CASE BeginFails
  BY <1>4 DEF BeginFails, Task
<1>5. ASSUME NEW p \in Id("ProductType"), PostStock(p)
      PROVE  TypeOK'
  <2>1. task' \in Task
    BY <1>5 DEF PostStock, Task, Idle
  <2>2. /\ task.employee \in Employees
        /\ task.plan \in Plan
        /\ p \in DOMAIN task.plan
    BY <1>5 DEF PostStock, Task, Idle, PendingIsPlanned
  <2>3. /\ task.plan[p].id \in {0} \cup Id("Inventory")
        /\ task.plan[p].quantityAvailable \in Quantity
    <3>1. task.plan \in [DOMAIN task.plan -> [id : {0} \cup Id("Inventory"),
                                              quantityAvailable : Quantity]]
      BY <2>2, TableIff DEF Plan
    <3> QED
      BY <2>2, <3>1
  <2>4. [productTypeId |-> p, quantityAvailable |-> task.plan[p].quantityAvailable,
         employeeId |-> task.employee] \in InventoryRow
    BY <2>2, <2>3 DEF InventoryRow
  <2>5. db' \in Database
    BY <1>5, <2>4, InsertTyped, UpdateTyped DEF PostStock, WriteStock, RoomFor
  <2> QED
    BY <1>5, <2>1, <2>5 DEF PostStock
<1>6. CASE MarkReceived
  <2>1. task' \in Task
    BY <1>6 DEF MarkReceived, Task, Idle
  <2>2. [task.row EXCEPT !.status = "Received"] \in PurchaseOrderRow
    BY <1>6 DEF MarkReceived, Task, Idle, PurchaseOrderRow, Status
  <2> QED
    BY <1>6, <2>1, <2>2, UpdateTyped DEF MarkReceived
<1>7. CASE CommitReceipt
  BY <1>7 DEF CommitReceipt, Commit, Journal, Task
<1> QED
  BY <1>1, <1>2, <1>3, <1>4, <1>5, <1>6, <1>7 DEF PurchaseStep

LEMMA FaultTypeOK ==
  ASSUME TypeOK, PurchaseFault
  PROVE  TypeOK'
<1>1. faults' \in 0 .. MaxFaults
  BY BoundAssumption
  DEF TypeOK, PurchaseFault, StatementFails, RollbackFails, Crash, Fault
<1>2. task' = Idle
  BY DEF PurchaseFault, StatementFails, RollbackFails, Crash
<1>3. Committed \in Database
  BY CommittedTyped
<1>4. UNCHANGED <<db, journal>> \/ Rollback
  BY DEF PurchaseFault, StatementFails, RollbackFails, Crash
<1>5. db' \in Database /\ journal' \in Journal
  BY <1>3, <1>4 DEF Rollback, Journal, TypeOK
<1> QED
  BY <1>1, <1>2, <1>5 DEF TypeOK, PendingIsPlanned, Task, Idle

LEMMA InitTypeOK == Init => TypeOK
<1> SUFFICES ASSUME Init
             PROVE  TypeOK
  OBVIOUS
<1>1. 1 \in Id("Inventory") /\ 1 \in Id("PurchaseOrder") /\ 1 \in Id("PurchaseOrderRecord")
  BY BoundAssumption DEF Id, TableName
<1>2. 1 \in Id("ProductType") /\ 1 .. CatalogueSize \subseteq Id("ProductType")
  BY CatalogueAssumption, BoundAssumption DEF Id, TableName
<1>3. Catalogue \in Table(Id("ProductType"), ProductTypeRow)
  BY <1>2, CatalogueAssumption, TableIff DEF ProductTypeRow
<1>4. 0 \in Quantity /\ 1 \in Quantity
  BY BoundAssumption DEF Quantity
<1>5. db.Inventory \in Table(Id("Inventory"), InventoryRow)
  <2> DEFINE row == [productTypeId |-> 1, quantityAvailable |-> 0, employeeId |-> FirstEmployee]
  <2>1. db.Inventory = [i \in {1} |-> row]
    BY DEF Init
  <2>2. row \in InventoryRow
    BY <1>2, <1>4, PeopleAssumption DEF InventoryRow
  <2> HIDE DEF row
  <2> QED
    BY <1>1, <2>1, <2>2, TableIff
<1>6. db.SuppliersProductInfo \in Table(Id("SuppliersProductInfo"), SuppliersProductInfoRow)
  <2>1. db.SuppliersProductInfo = [i \in {} |-> FirstSupplier]
    BY DEF Init
  <2> QED
    BY <2>1, TableIff
<1>7. db.PurchaseOrder \in Table(Id("PurchaseOrder"), PurchaseOrderRow)
  <2> DEFINE row == [userId |-> FirstUser, supplierId |-> FirstSupplier, status |-> "Ordered"]
  <2>1. db.PurchaseOrder = [i \in {1} |-> row]
    BY DEF Init
  <2>2. row \in PurchaseOrderRow
    BY PeopleAssumption DEF PurchaseOrderRow, Status
  <2> HIDE DEF row
  <2> QED
    BY <1>1, <2>1, <2>2, TableIff
<1>8. db.PurchaseOrderRecord \in Table(Id("PurchaseOrderRecord"), PurchaseOrderRecordRow)
  <2> DEFINE row == [orderId |-> 1, productTypeId |-> 1, quantity |-> 1]
  <2>1. db.PurchaseOrderRecord = [i \in {1} |-> row]
    BY DEF Init
  <2>2. row \in PurchaseOrderRecordRow
    BY <1>1, <1>2, <1>4 DEF PurchaseOrderRecordRow
  <2> HIDE DEF row
  <2> QED
    BY <1>1, <2>1, <2>2, TableIff
<1>9. db.sequence \in [TableName -> Nat]
  BY CatalogueAssumption DEF Init, TableName
<1>10. db \in Database
  BY <1>3, <1>5, <1>6, <1>7, <1>8, <1>9 DEF Init, Database
<1> QED
  BY <1>10, BoundAssumption DEF Init, TypeOK, Journal, Task, PendingIsPlanned, Idle

\* Every table keeps rows of its columns' types, no planned quantity leaves the
\* 64-bit range, and the locals of a running handler stay meaningful.
THEOREM TypeCorrect == Spec => []TypeOK
<1>1. TypeOK /\ [Next]_vars => TypeOK'
  <2> SUFFICES ASSUME TypeOK, [Next]_vars
               PROVE  TypeOK'
    OBVIOUS
  <2>1. CASE UNCHANGED vars
    BY <2>1 DEF vars, TypeOK, PendingIsPlanned
  <2> QED
    BY <2>1, RequestTypeOK, StepTypeOK, FaultTypeOK DEF Next, AnyRequest
<1> QED
  BY <1>1, InitTypeOK, PTL DEF Spec

-----------------------------------------------------------------------------
(* Every statement a handler may issue, under the guard the handler        *)
(* checks, takes a consistent database to a consistent one.                *)

\* A new order starts open, with the next id, which no line names.
LEMMA OrderAdded ==
  ASSUME NEW d \in Database, Consistent(d),
         NEW u \in d.User, NEW s \in d.Supplier, NEW status, status # "Received"
  PROVE  Consistent(Insert(d, "PurchaseOrder", [userId |-> u, supplierId |-> s, status |-> status]))
<1> DEFINE e == Insert(d, "PurchaseOrder", [userId |-> u, supplierId |-> s, status |-> status])
           i == d.sequence["PurchaseOrder"] + 1
<1>1. /\ e.PurchaseOrder = Put(d.PurchaseOrder, i, [userId |-> u, supplierId |-> s, status |-> status])
      /\ e.sequence = [d.sequence EXCEPT !["PurchaseOrder"] = i]
      /\ e.User = d.User /\ e.Supplier = d.Supplier /\ e.Employee = d.Employee
      /\ e.ProductType = d.ProductType /\ e.Inventory = d.Inventory
      /\ e.SuppliersProductInfo = d.SuppliersProductInfo /\ e.PurchaseOrderRecord = d.PurchaseOrderRecord
  BY DEF Insert, Database
<1> HIDE DEF e
<1>2. d.sequence \in [TableName -> Nat]
  BY DEF Database
<1>3. i \notin DOMAIN d.PurchaseOrder
  BY <1>2 DEF Consistent, IdsWereHandedOut, TableName
<1>4. IdsWereHandedOut(e)
  BY <1>1, <1>2 DEF Consistent, IdsWereHandedOut, TableName, Put
<1>5. ForeignKeysHold(e)
  BY <1>1, <1>3 DEF Consistent, ForeignKeysHold, LinesHaveParents, StocksHaveParents, OrdersHaveParents,
      OffersHaveParents, Put
<1>6. ReceivedHaveLines(e)
  BY <1>1, <1>3 DEF Consistent, ReceivedHaveLines, Received, RecordsOf, Put
<1>7. Consistent(e)
  BY <1>1, <1>4, <1>5, <1>6 DEF Consistent, StocksAreUnique, CodesAreUnique
<1> QED
  BY <1>7 DEF e

\* An order may become received only if it has lines.
LEMMA OrderUpdated ==
  ASSUME NEW d \in Database, Consistent(d),
         NEW u \in d.User, NEW s \in d.Supplier, NEW status,
         NEW i \in DOMAIN d.PurchaseOrder, status = "Received" => RecordsOf(d, i) # {}
  PROVE  Consistent(Update(d, "PurchaseOrder", i, [userId |-> u, supplierId |-> s, status |-> status]))
<1> DEFINE e == Update(d, "PurchaseOrder", i, [userId |-> u, supplierId |-> s, status |-> status])
<1>1. /\ e.PurchaseOrder = [d.PurchaseOrder EXCEPT ![i] = [userId |-> u, supplierId |-> s, status |-> status]]
      /\ e.User = d.User /\ e.Supplier = d.Supplier /\ e.Employee = d.Employee
      /\ e.ProductType = d.ProductType /\ e.Inventory = d.Inventory
      /\ e.SuppliersProductInfo = d.SuppliersProductInfo /\ e.PurchaseOrderRecord = d.PurchaseOrderRecord
      /\ e.sequence = d.sequence
  BY DEF Update, Database
<1> HIDE DEF e
<1>2. IdsWereHandedOut(e)
  BY <1>1 DEF Consistent, IdsWereHandedOut, TableName
<1>3. ForeignKeysHold(e)
  BY <1>1 DEF Consistent, ForeignKeysHold, LinesHaveParents, StocksHaveParents, OrdersHaveParents,
      OffersHaveParents
<1>4. ReceivedHaveLines(e)
  BY <1>1 DEF Consistent, ReceivedHaveLines, Received, RecordsOf
<1>5. Consistent(e)
  BY <1>1, <1>2, <1>3, <1>4 DEF Consistent, StocksAreUnique, CodesAreUnique
<1> QED
  BY <1>5 DEF e

\* Only an order without lines is deleted.
LEMMA OrderDeleted ==
  ASSUME NEW d \in Database, Consistent(d),
         NEW i, ~PurchaseOrderReferenced(d, i)
  PROVE  Consistent(Delete(d, "PurchaseOrder", i))
<1> DEFINE e == Delete(d, "PurchaseOrder", i)
<1>1. /\ e.PurchaseOrder = Restrict(d.PurchaseOrder, DOMAIN d.PurchaseOrder \ {i})
      /\ e.User = d.User /\ e.Supplier = d.Supplier /\ e.Employee = d.Employee
      /\ e.ProductType = d.ProductType /\ e.Inventory = d.Inventory
      /\ e.SuppliersProductInfo = d.SuppliersProductInfo /\ e.PurchaseOrderRecord = d.PurchaseOrderRecord
      /\ e.sequence = d.sequence
  BY DEF Delete, Database
<1> HIDE DEF e
<1>2. IdsWereHandedOut(e)
  BY <1>1 DEF Consistent, IdsWereHandedOut, TableName, Restrict
<1>3. ForeignKeysHold(e)
  BY <1>1 DEF Consistent, ForeignKeysHold, LinesHaveParents, StocksHaveParents, OrdersHaveParents,
      OffersHaveParents, Restrict, PurchaseOrderReferenced
<1>4. ReceivedHaveLines(e)
  BY <1>1 DEF Consistent, ReceivedHaveLines, Received, RecordsOf, Restrict
<1>5. Consistent(e)
  BY <1>1, <1>2, <1>3, <1>4 DEF Consistent, StocksAreUnique, CodesAreUnique
<1> QED
  BY <1>5 DEF e

\* A line can be added to any order.
LEMMA LineAdded ==
  ASSUME NEW d \in Database, Consistent(d),
         NEW o \in DOMAIN d.PurchaseOrder, NEW p \in DOMAIN d.ProductType, NEW q
  PROVE  Consistent(Insert(d, "PurchaseOrderRecord", [orderId |-> o, productTypeId |-> p, quantity |-> q]))
<1> DEFINE e == Insert(d, "PurchaseOrderRecord", [orderId |-> o, productTypeId |-> p, quantity |-> q])
           i == d.sequence["PurchaseOrderRecord"] + 1
<1>1. /\ e.PurchaseOrderRecord = Put(d.PurchaseOrderRecord, i, [orderId |-> o, productTypeId |-> p, quantity |-> q])
      /\ e.sequence = [d.sequence EXCEPT !["PurchaseOrderRecord"] = i]
      /\ e.User = d.User /\ e.Supplier = d.Supplier /\ e.Employee = d.Employee
      /\ e.ProductType = d.ProductType /\ e.Inventory = d.Inventory
      /\ e.SuppliersProductInfo = d.SuppliersProductInfo /\ e.PurchaseOrder = d.PurchaseOrder
  BY DEF Insert, Database
<1> HIDE DEF e
<1>2. d.sequence \in [TableName -> Nat]
  BY DEF Database
<1>3. i \notin DOMAIN d.PurchaseOrderRecord
  BY <1>2 DEF Consistent, IdsWereHandedOut, TableName
<1>4. IdsWereHandedOut(e)
  BY <1>1, <1>2 DEF Consistent, IdsWereHandedOut, TableName, Put
<1>5. ForeignKeysHold(e)
  BY <1>1, <1>3 DEF Consistent, ForeignKeysHold, LinesHaveParents, StocksHaveParents, OrdersHaveParents,
      OffersHaveParents, Put
<1>6. ReceivedHaveLines(e)
  BY <1>1, <1>3 DEF Consistent, ReceivedHaveLines, Received, RecordsOf, Put
<1>7. Consistent(e)
  BY <1>1, <1>4, <1>5, <1>6 DEF Consistent, StocksAreUnique, CodesAreUnique
<1> QED
  BY <1>7 DEF e

\* A line leaves an order only while that order is not received.
LEMMA LineUpdated ==
  ASSUME NEW d \in Database, Consistent(d),
         NEW o \in DOMAIN d.PurchaseOrder, NEW p \in DOMAIN d.ProductType, NEW q,
         NEW i \in DOMAIN d.PurchaseOrderRecord,
         d.PurchaseOrder[d.PurchaseOrderRecord[i].orderId].status # "Received"
  PROVE  Consistent(Update(d, "PurchaseOrderRecord", i, [orderId |-> o, productTypeId |-> p, quantity |-> q]))
<1> DEFINE e == Update(d, "PurchaseOrderRecord", i, [orderId |-> o, productTypeId |-> p, quantity |-> q])
<1>1. /\ e.PurchaseOrderRecord = [d.PurchaseOrderRecord EXCEPT ![i] = [orderId |-> o, productTypeId |-> p, quantity |-> q]]
      /\ e.User = d.User /\ e.Supplier = d.Supplier /\ e.Employee = d.Employee
      /\ e.ProductType = d.ProductType /\ e.Inventory = d.Inventory
      /\ e.SuppliersProductInfo = d.SuppliersProductInfo /\ e.PurchaseOrder = d.PurchaseOrder
      /\ e.sequence = d.sequence
  BY DEF Update, Database
<1> HIDE DEF e
<1>2. IdsWereHandedOut(e)
  BY <1>1 DEF Consistent, IdsWereHandedOut, TableName
<1>3. ForeignKeysHold(e)
  BY <1>1 DEF Consistent, ForeignKeysHold, LinesHaveParents, StocksHaveParents, OrdersHaveParents,
      OffersHaveParents
<1>4. ReceivedHaveLines(e)
  BY <1>1 DEF Consistent, ReceivedHaveLines, Received, RecordsOf
<1>5. Consistent(e)
  BY <1>1, <1>2, <1>3, <1>4 DEF Consistent, StocksAreUnique, CodesAreUnique
<1> QED
  BY <1>5 DEF e

\* The same for a line that is deleted.
LEMMA LineDeleted ==
  ASSUME NEW d \in Database, Consistent(d),
         NEW i \in DOMAIN d.PurchaseOrderRecord,
         d.PurchaseOrder[d.PurchaseOrderRecord[i].orderId].status # "Received"
  PROVE  Consistent(Delete(d, "PurchaseOrderRecord", i))
<1> DEFINE e == Delete(d, "PurchaseOrderRecord", i)
<1>1. /\ e.PurchaseOrderRecord = Restrict(d.PurchaseOrderRecord, DOMAIN d.PurchaseOrderRecord \ {i})
      /\ e.User = d.User /\ e.Supplier = d.Supplier /\ e.Employee = d.Employee
      /\ e.ProductType = d.ProductType /\ e.Inventory = d.Inventory
      /\ e.SuppliersProductInfo = d.SuppliersProductInfo /\ e.PurchaseOrder = d.PurchaseOrder
      /\ e.sequence = d.sequence
  BY DEF Delete, Database
<1> HIDE DEF e
<1>2. IdsWereHandedOut(e)
  BY <1>1 DEF Consistent, IdsWereHandedOut, TableName, Restrict
<1>3. ForeignKeysHold(e)
  BY <1>1 DEF Consistent, ForeignKeysHold, LinesHaveParents, StocksHaveParents, OrdersHaveParents,
      OffersHaveParents, Restrict
<1>4. ReceivedHaveLines(e)
  BY <1>1 DEF Consistent, ReceivedHaveLines, Received, RecordsOf, Restrict
<1>5. Consistent(e)
  BY <1>1, <1>2, <1>3, <1>4 DEF Consistent, StocksAreUnique, CodesAreUnique
<1> QED
  BY <1>5 DEF e

\* A stock is added for a product that has none.
LEMMA StockAdded ==
  ASSUME NEW d \in Database, Consistent(d),
         NEW p \in DOMAIN d.ProductType, NEW q, NEW m \in d.Employee, StocksOf(d, p) = {}
  PROVE  Consistent(Insert(d, "Inventory", [productTypeId |-> p, quantityAvailable |-> q, employeeId |-> m]))
<1> DEFINE e == Insert(d, "Inventory", [productTypeId |-> p, quantityAvailable |-> q, employeeId |-> m])
           i == d.sequence["Inventory"] + 1
<1>1. /\ e.Inventory = Put(d.Inventory, i, [productTypeId |-> p, quantityAvailable |-> q, employeeId |-> m])
      /\ e.sequence = [d.sequence EXCEPT !["Inventory"] = i]
      /\ e.User = d.User /\ e.Supplier = d.Supplier /\ e.Employee = d.Employee
      /\ e.ProductType = d.ProductType /\ e.SuppliersProductInfo = d.SuppliersProductInfo
      /\ e.PurchaseOrder = d.PurchaseOrder /\ e.PurchaseOrderRecord = d.PurchaseOrderRecord
  BY DEF Insert, Database
<1> HIDE DEF e
<1>2. d.sequence \in [TableName -> Nat]
  BY DEF Database
<1>3. i \notin DOMAIN d.Inventory
  BY <1>2 DEF Consistent, IdsWereHandedOut, TableName
<1>4. IdsWereHandedOut(e)
  BY <1>1, <1>2 DEF Consistent, IdsWereHandedOut, TableName, Put
<1>5. ForeignKeysHold(e)
  BY <1>1, <1>3 DEF Consistent, ForeignKeysHold, LinesHaveParents, StocksHaveParents, OrdersHaveParents,
      OffersHaveParents, Put
<1>6. StocksAreUnique(e)
  BY <1>1, <1>3 DEF Consistent, StocksAreUnique, Put, StocksOf
<1>7. Consistent(e)
  BY <1>1, <1>4, <1>5, <1>6 DEF Consistent, CodesAreUnique, ReceivedHaveLines, Received, RecordsOf
<1> QED
  BY <1>7 DEF e

\* A stock moves only to a product that has no other stock.
LEMMA StockUpdated ==
  ASSUME NEW d \in Database, Consistent(d),
         NEW p \in DOMAIN d.ProductType, NEW q, NEW m \in d.Employee,
         NEW i \in DOMAIN d.Inventory, StocksOf(d, p) \subseteq {i}
  PROVE  Consistent(Update(d, "Inventory", i, [productTypeId |-> p, quantityAvailable |-> q, employeeId |-> m]))
<1> DEFINE e == Update(d, "Inventory", i, [productTypeId |-> p, quantityAvailable |-> q, employeeId |-> m])
<1>1. /\ e.Inventory = [d.Inventory EXCEPT ![i] = [productTypeId |-> p, quantityAvailable |-> q, employeeId |-> m]]
      /\ e.User = d.User /\ e.Supplier = d.Supplier /\ e.Employee = d.Employee
      /\ e.ProductType = d.ProductType /\ e.SuppliersProductInfo = d.SuppliersProductInfo
      /\ e.PurchaseOrder = d.PurchaseOrder /\ e.PurchaseOrderRecord = d.PurchaseOrderRecord
      /\ e.sequence = d.sequence
  BY DEF Update, Database
<1> HIDE DEF e
<1>2. IdsWereHandedOut(e)
  BY <1>1 DEF Consistent, IdsWereHandedOut, TableName
<1>3. ForeignKeysHold(e)
  BY <1>1 DEF Consistent, ForeignKeysHold, LinesHaveParents, StocksHaveParents, OrdersHaveParents,
      OffersHaveParents
<1>4. StocksAreUnique(e)
  BY <1>1 DEF Consistent, StocksAreUnique, StocksOf
<1>5. Consistent(e)
  BY <1>1, <1>2, <1>3, <1>4 DEF Consistent, CodesAreUnique, ReceivedHaveLines, Received, RecordsOf
<1> QED
  BY <1>5 DEF e

\* Nothing refers to a stock.
LEMMA StockDeleted ==
  ASSUME NEW d \in Database, Consistent(d),
         NEW i
  PROVE  Consistent(Delete(d, "Inventory", i))
<1> DEFINE e == Delete(d, "Inventory", i)
<1>1. /\ e.Inventory = Restrict(d.Inventory, DOMAIN d.Inventory \ {i})
      /\ e.User = d.User /\ e.Supplier = d.Supplier /\ e.Employee = d.Employee
      /\ e.ProductType = d.ProductType /\ e.SuppliersProductInfo = d.SuppliersProductInfo
      /\ e.PurchaseOrder = d.PurchaseOrder /\ e.PurchaseOrderRecord = d.PurchaseOrderRecord
      /\ e.sequence = d.sequence
  BY DEF Delete, Database
<1> HIDE DEF e
<1>2. IdsWereHandedOut(e)
  BY <1>1 DEF Consistent, IdsWereHandedOut, TableName, Restrict
<1>3. ForeignKeysHold(e)
  BY <1>1 DEF Consistent, ForeignKeysHold, LinesHaveParents, StocksHaveParents, OrdersHaveParents,
      OffersHaveParents, Restrict
<1>4. StocksAreUnique(e)
  BY <1>1 DEF Consistent, StocksAreUnique, Restrict, StocksOf
<1>5. Consistent(e)
  BY <1>1, <1>2, <1>3, <1>4 DEF Consistent, CodesAreUnique, ReceivedHaveLines, Received, RecordsOf
<1> QED
  BY <1>5 DEF e

\* A product type is added under a code no other has.
LEMMA ProductTypeAdded ==
  ASSUME NEW d \in Database, Consistent(d),
         NEW c, \A x \in DOMAIN d.ProductType : d.ProductType[x] # c
  PROVE  Consistent(Insert(d, "ProductType", c))
<1> DEFINE e == Insert(d, "ProductType", c)
           i == d.sequence["ProductType"] + 1
<1>1. /\ e.ProductType = Put(d.ProductType, i, c)
      /\ e.sequence = [d.sequence EXCEPT !["ProductType"] = i]
      /\ e.User = d.User /\ e.Supplier = d.Supplier /\ e.Employee = d.Employee
      /\ e.Inventory = d.Inventory /\ e.SuppliersProductInfo = d.SuppliersProductInfo
      /\ e.PurchaseOrder = d.PurchaseOrder /\ e.PurchaseOrderRecord = d.PurchaseOrderRecord
  BY DEF Insert, Database
<1> HIDE DEF e
<1>2. d.sequence \in [TableName -> Nat]
  BY DEF Database
<1>3. i \notin DOMAIN d.ProductType
  BY <1>2 DEF Consistent, IdsWereHandedOut, TableName
<1>4. IdsWereHandedOut(e)
  BY <1>1, <1>2 DEF Consistent, IdsWereHandedOut, TableName, Put
<1>5. ForeignKeysHold(e)
  BY <1>1, <1>3 DEF Consistent, ForeignKeysHold, LinesHaveParents, StocksHaveParents, OrdersHaveParents,
      OffersHaveParents, Put
<1>6. CodesAreUnique(e)
  BY <1>1, <1>3 DEF Consistent, CodesAreUnique, Put
<1>7. Consistent(e)
  BY <1>1, <1>4, <1>5, <1>6 DEF Consistent, StocksAreUnique, ReceivedHaveLines, Received, RecordsOf
<1> QED
  BY <1>7 DEF e

\* A product type takes a code no other product type has.
LEMMA ProductTypeUpdated ==
  ASSUME NEW d \in Database, Consistent(d),
         NEW c, NEW i \in DOMAIN d.ProductType,
         \A x \in DOMAIN d.ProductType : d.ProductType[x] = c => x = i
  PROVE  Consistent(Update(d, "ProductType", i, c))
<1> DEFINE e == Update(d, "ProductType", i, c)
<1>1. /\ e.ProductType = [d.ProductType EXCEPT ![i] = c]
      /\ e.User = d.User /\ e.Supplier = d.Supplier /\ e.Employee = d.Employee
      /\ e.Inventory = d.Inventory /\ e.SuppliersProductInfo = d.SuppliersProductInfo
      /\ e.PurchaseOrder = d.PurchaseOrder /\ e.PurchaseOrderRecord = d.PurchaseOrderRecord
      /\ e.sequence = d.sequence
  BY DEF Update, Database
<1> HIDE DEF e
<1>2. IdsWereHandedOut(e)
  BY <1>1 DEF Consistent, IdsWereHandedOut, TableName
<1>3. ForeignKeysHold(e)
  BY <1>1 DEF Consistent, ForeignKeysHold, LinesHaveParents, StocksHaveParents, OrdersHaveParents,
      OffersHaveParents
<1>4. CodesAreUnique(e)
  BY <1>1 DEF Consistent, CodesAreUnique
<1>5. Consistent(e)
  BY <1>1, <1>2, <1>3, <1>4 DEF Consistent, StocksAreUnique, ReceivedHaveLines, Received, RecordsOf
<1> QED
  BY <1>5 DEF e

\* The foreign keys let a product type go only when nothing names it.
LEMMA ProductTypeDeleted ==
  ASSUME NEW d \in Database, Consistent(d),
         NEW i, ~ProductTypeReferenced(d, i)
  PROVE  Consistent(Delete(d, "ProductType", i))
<1> DEFINE e == Delete(d, "ProductType", i)
<1>1. /\ e.ProductType = Restrict(d.ProductType, DOMAIN d.ProductType \ {i})
      /\ e.User = d.User /\ e.Supplier = d.Supplier /\ e.Employee = d.Employee
      /\ e.Inventory = d.Inventory /\ e.SuppliersProductInfo = d.SuppliersProductInfo
      /\ e.PurchaseOrder = d.PurchaseOrder /\ e.PurchaseOrderRecord = d.PurchaseOrderRecord
      /\ e.sequence = d.sequence
  BY DEF Delete, Database
<1> HIDE DEF e
<1>2. IdsWereHandedOut(e)
  BY <1>1 DEF Consistent, IdsWereHandedOut, TableName, Restrict
<1>3. ForeignKeysHold(e)
  BY <1>1 DEF Consistent, ForeignKeysHold, LinesHaveParents, StocksHaveParents, OrdersHaveParents,
      OffersHaveParents, Restrict, ProductTypeReferenced
<1>4. CodesAreUnique(e)
  BY <1>1 DEF Consistent, CodesAreUnique, Restrict
<1>5. Consistent(e)
  BY <1>1, <1>2, <1>3, <1>4 DEF Consistent, StocksAreUnique, ReceivedHaveLines, Received, RecordsOf
<1> QED
  BY <1>5 DEF e

\* An offer names a supplier and a product type that exist.
LEMMA OfferAdded ==
  ASSUME NEW d \in Database, Consistent(d),
         NEW s \in d.Supplier, NEW p \in DOMAIN d.ProductType
  PROVE  Consistent(Insert(d, "SuppliersProductInfo", [supplierID |-> s, productTypeId |-> p]))
<1> DEFINE e == Insert(d, "SuppliersProductInfo", [supplierID |-> s, productTypeId |-> p])
           i == d.sequence["SuppliersProductInfo"] + 1
<1>1. /\ e.SuppliersProductInfo = Put(d.SuppliersProductInfo, i, [supplierID |-> s, productTypeId |-> p])
      /\ e.sequence = [d.sequence EXCEPT !["SuppliersProductInfo"] = i]
      /\ e.User = d.User /\ e.Supplier = d.Supplier /\ e.Employee = d.Employee
      /\ e.ProductType = d.ProductType /\ e.Inventory = d.Inventory
      /\ e.PurchaseOrder = d.PurchaseOrder /\ e.PurchaseOrderRecord = d.PurchaseOrderRecord
  BY DEF Insert, Database
<1> HIDE DEF e
<1>2. d.sequence \in [TableName -> Nat]
  BY DEF Database
<1>3. i \notin DOMAIN d.SuppliersProductInfo
  BY <1>2 DEF Consistent, IdsWereHandedOut, TableName
<1>4. IdsWereHandedOut(e)
  BY <1>1, <1>2 DEF Consistent, IdsWereHandedOut, TableName, Put
<1>5. ForeignKeysHold(e)
  BY <1>1, <1>3 DEF Consistent, ForeignKeysHold, LinesHaveParents, StocksHaveParents, OrdersHaveParents,
      OffersHaveParents, Put
<1>6. Consistent(e)
  BY <1>1, <1>4, <1>5 DEF Consistent, StocksAreUnique, CodesAreUnique, ReceivedHaveLines, Received, RecordsOf
<1> QED
  BY <1>6 DEF e

\* The same for an offer that is changed.
LEMMA OfferUpdated ==
  ASSUME NEW d \in Database, Consistent(d),
         NEW s \in d.Supplier, NEW p \in DOMAIN d.ProductType,
         NEW i \in DOMAIN d.SuppliersProductInfo
  PROVE  Consistent(Update(d, "SuppliersProductInfo", i, [supplierID |-> s, productTypeId |-> p]))
<1> DEFINE e == Update(d, "SuppliersProductInfo", i, [supplierID |-> s, productTypeId |-> p])
<1>1. /\ e.SuppliersProductInfo = [d.SuppliersProductInfo EXCEPT ![i] = [supplierID |-> s, productTypeId |-> p]]
      /\ e.User = d.User /\ e.Supplier = d.Supplier /\ e.Employee = d.Employee
      /\ e.ProductType = d.ProductType /\ e.Inventory = d.Inventory
      /\ e.PurchaseOrder = d.PurchaseOrder /\ e.PurchaseOrderRecord = d.PurchaseOrderRecord
      /\ e.sequence = d.sequence
  BY DEF Update, Database
<1> HIDE DEF e
<1>2. IdsWereHandedOut(e)
  BY <1>1 DEF Consistent, IdsWereHandedOut, TableName
<1>3. ForeignKeysHold(e)
  BY <1>1 DEF Consistent, ForeignKeysHold, LinesHaveParents, StocksHaveParents, OrdersHaveParents,
      OffersHaveParents
<1>4. Consistent(e)
  BY <1>1, <1>2, <1>3 DEF Consistent, StocksAreUnique, CodesAreUnique, ReceivedHaveLines, Received, RecordsOf
<1> QED
  BY <1>4 DEF e

\* Nothing refers to an offer.
LEMMA OfferDeleted ==
  ASSUME NEW d \in Database, Consistent(d),
         NEW i
  PROVE  Consistent(Delete(d, "SuppliersProductInfo", i))
<1> DEFINE e == Delete(d, "SuppliersProductInfo", i)
<1>1. /\ e.SuppliersProductInfo = Restrict(d.SuppliersProductInfo, DOMAIN d.SuppliersProductInfo \ {i})
      /\ e.User = d.User /\ e.Supplier = d.Supplier /\ e.Employee = d.Employee
      /\ e.ProductType = d.ProductType /\ e.Inventory = d.Inventory
      /\ e.PurchaseOrder = d.PurchaseOrder /\ e.PurchaseOrderRecord = d.PurchaseOrderRecord
      /\ e.sequence = d.sequence
  BY DEF Delete, Database
<1> HIDE DEF e
<1>2. IdsWereHandedOut(e)
  BY <1>1 DEF Consistent, IdsWereHandedOut, TableName, Restrict
<1>3. ForeignKeysHold(e)
  BY <1>1 DEF Consistent, ForeignKeysHold, LinesHaveParents, StocksHaveParents, OrdersHaveParents,
      OffersHaveParents, Restrict
<1>4. Consistent(e)
  BY <1>1, <1>2, <1>3 DEF Consistent, StocksAreUnique, CodesAreUnique, ReceivedHaveLines, Received, RecordsOf
<1> QED
  BY <1>4 DEF e

\* The foreign keys let a user go only when no order names it.
LEMMA UserDeleted ==
  ASSUME NEW d \in Database, Consistent(d),
         NEW i, ~UserReferenced(d, i)
  PROVE  Consistent([d EXCEPT !.User = @ \ {i}])
<1> DEFINE e == [d EXCEPT !.User = @ \ {i}]
<1>1. /\ e.User = d.User \ {i}
      /\ e.Supplier = d.Supplier /\ e.Employee = d.Employee
      /\ e.ProductType = d.ProductType /\ e.Inventory = d.Inventory
      /\ e.SuppliersProductInfo = d.SuppliersProductInfo /\ e.PurchaseOrder = d.PurchaseOrder
      /\ e.PurchaseOrderRecord = d.PurchaseOrderRecord
      /\ e.sequence = d.sequence
  BY DEF Database
<1> HIDE DEF e
<1>2. IdsWereHandedOut(e)
  BY <1>1 DEF Consistent, IdsWereHandedOut, TableName
<1>3. ForeignKeysHold(e)
  BY <1>1 DEF Consistent, ForeignKeysHold, LinesHaveParents, StocksHaveParents, OrdersHaveParents,
      OffersHaveParents, UserReferenced
<1>4. Consistent(e)
  BY <1>1, <1>2, <1>3 DEF Consistent, StocksAreUnique, CodesAreUnique, ReceivedHaveLines, Received, RecordsOf
<1> QED
  BY <1>4 DEF e

\* The same for a supplier, orders and offers.
LEMMA SupplierDeleted ==
  ASSUME NEW d \in Database, Consistent(d),
         NEW i, ~SupplierReferenced(d, i)
  PROVE  Consistent([d EXCEPT !.Supplier = @ \ {i}])
<1> DEFINE e == [d EXCEPT !.Supplier = @ \ {i}]
<1>1. /\ e.Supplier = d.Supplier \ {i}
      /\ e.User = d.User /\ e.Employee = d.Employee
      /\ e.ProductType = d.ProductType /\ e.Inventory = d.Inventory
      /\ e.SuppliersProductInfo = d.SuppliersProductInfo /\ e.PurchaseOrder = d.PurchaseOrder
      /\ e.PurchaseOrderRecord = d.PurchaseOrderRecord
      /\ e.sequence = d.sequence
  BY DEF Database
<1> HIDE DEF e
<1>2. IdsWereHandedOut(e)
  BY <1>1 DEF Consistent, IdsWereHandedOut, TableName
<1>3. ForeignKeysHold(e)
  BY <1>1 DEF Consistent, ForeignKeysHold, LinesHaveParents, StocksHaveParents, OrdersHaveParents,
      OffersHaveParents, SupplierReferenced
<1>4. Consistent(e)
  BY <1>1, <1>2, <1>3 DEF Consistent, StocksAreUnique, CodesAreUnique, ReceivedHaveLines, Received, RecordsOf
<1> QED
  BY <1>4 DEF e

\* The same for an employee and the stocks.
LEMMA EmployeeDeleted ==
  ASSUME NEW d \in Database, Consistent(d),
         NEW i, ~EmployeeReferenced(d, i)
  PROVE  Consistent([d EXCEPT !.Employee = @ \ {i}])
<1> DEFINE e == [d EXCEPT !.Employee = @ \ {i}]
<1>1. /\ e.Employee = d.Employee \ {i}
      /\ e.User = d.User /\ e.Supplier = d.Supplier
      /\ e.ProductType = d.ProductType /\ e.Inventory = d.Inventory
      /\ e.SuppliersProductInfo = d.SuppliersProductInfo /\ e.PurchaseOrder = d.PurchaseOrder
      /\ e.PurchaseOrderRecord = d.PurchaseOrderRecord
      /\ e.sequence = d.sequence
  BY DEF Database
<1> HIDE DEF e
<1>2. IdsWereHandedOut(e)
  BY <1>1 DEF Consistent, IdsWereHandedOut, TableName
<1>3. ForeignKeysHold(e)
  BY <1>1 DEF Consistent, ForeignKeysHold, LinesHaveParents, StocksHaveParents, OrdersHaveParents,
      OffersHaveParents, EmployeeReferenced
<1>4. Consistent(e)
  BY <1>1, <1>2, <1>3 DEF Consistent, StocksAreUnique, CodesAreUnique, ReceivedHaveLines, Received, RecordsOf
<1> QED
  BY <1>4 DEF e
=============================================================================

------------------------------ MODULE ErpStore ------------------------------
(***************************************************************************)
(* The state every business module of the SageStore server works on: the   *)
(* SQLite database of scripts/create_db.sql, the one transaction           *)
(* RepositoryManager::runInTransaction can have open on it, and the task   *)
(* the single server thread is executing.                                  *)
(*                                                                         *)
(* A table is a function from the ids of its rows to the rows.  A row      *)
(* keeps the columns some guard or property reads; names, dates, prices    *)
(* and other free text are left out.  Every statement of a repository is   *)
(* one step: outside runInTransaction SQLite commits each statement by     *)
(* itself.                                                                 *)
(***************************************************************************)
EXTENDS Integers, Functions

CONSTANTS
  Users,         \* ids of the accounts in the User table at startup
  Suppliers,     \* ids of the rows of the Supplier table at startup
  Employees,     \* ids of the rows of the Employee table at startup
  Codes,         \* product codes a request can carry
  CatalogueSize, \* how many product types are registered at startup
  Catalogue,     \* their codes, by id
  FirstEmployee, \* the employee the seed stock row names
  FirstUser,     \* the user and supplier the seed purchase order names
  FirstSupplier,
  MaxQuantity,   \* the largest quantity: the maximum of a signed 64-bit integer
  RequestQuantities, \* the quantities requests carry
  RowLimit,      \* bound: how many ids each table may hand out
  MaxFaults,     \* bound: how many failing statements and crashes
  RollbackMayFail \* whether ROLLBACK itself may fail

TableName == {"ProductType", "Inventory", "SuppliersProductInfo",
              "PurchaseOrder", "PurchaseOrderRecord"}

Quantity == 0 .. MaxQuantity

ASSUME PeopleAssumption ==
  /\ FirstUser \in Users
  /\ FirstSupplier \in Suppliers
  /\ FirstEmployee \in Employees

ASSUME BoundAssumption ==
  /\ MaxQuantity \in Nat \ {0}
  /\ MaxFaults \in Nat
  /\ RollbackMayFail \in BOOLEAN
  /\ RequestQuantities \subseteq Quantity
  /\ RowLimit \in [TableName -> Nat]
  /\ \A t \in {"Inventory", "PurchaseOrder", "PurchaseOrderRecord"} : RowLimit[t] > 0

ASSUME CatalogueAssumption ==
  /\ CatalogueSize \in 1 .. RowLimit["ProductType"]
  /\ Catalogue \in [1 .. CatalogueSize -> Codes]
  /\ \A i, j \in 1 .. CatalogueSize : Catalogue[i] = Catalogue[j] => i = j

VARIABLES
  db,       \* the database as the server's connection reads it
  journal,  \* SQLite's rollback journal while a transaction is open
  task,     \* the request the server thread is executing, with its locals
  faults    \* how many failures have happened

vars == <<db, journal, task, faults>>

-----------------------------------------------------------------------------
(* The schema.                                                              *)

Id(t) == 1 .. RowLimit[t]

Status == {"Draft", "Ordered", "Received"}

ProductTypeRow == Codes

InventoryRow == [productTypeId     : Id("ProductType"),
                 quantityAvailable : Quantity,
                 employeeId        : Employees]

SuppliersProductInfoRow == [supplierID    : Suppliers,
                            productTypeId : Id("ProductType")]

PurchaseOrderRow == [userId : Users, supplierId : Suppliers, status : Status]

PurchaseOrderRecordRow == [orderId       : Id("PurchaseOrder"),
                           productTypeId : Id("ProductType"),
                           quantity      : Quantity]

Table(ids, Row) == UNION {[S -> Row] : S \in SUBSET ids}

\* sequence is SQLite's own sqlite_sequence table: the last id AUTOINCREMENT
\* gave out in each table.
Database ==
  [User                 : SUBSET Users,
   Supplier             : SUBSET Suppliers,
   Employee             : SUBSET Employees,
   ProductType          : Table(Id("ProductType"), ProductTypeRow),
   Inventory            : Table(Id("Inventory"), InventoryRow),
   SuppliersProductInfo : Table(Id("SuppliersProductInfo"), SuppliersProductInfoRow),
   PurchaseOrder        : Table(Id("PurchaseOrder"), PurchaseOrderRow),
   PurchaseOrderRecord  : Table(Id("PurchaseOrderRecord"), PurchaseOrderRecordRow),
   sequence             : [TableName -> Nat]]

-----------------------------------------------------------------------------
(* The statements of the repositories, as functions of the database.        *)

Put(table, id, row) ==
  [i \in DOMAIN table \cup {id} |-> IF i = id THEN row ELSE table[i]]

Insert(d, t, row) ==
  [d EXCEPT ![t] = Put(d[t], d.sequence[t] + 1, row),
            !.sequence = [d.sequence EXCEPT ![t] = d.sequence[t] + 1]]

\* UPDATE ... WHERE id = ? changes nothing when no row has the id.
Update(d, t, id, row) == [d EXCEPT ![t] = [d[t] EXCEPT ![id] = row]]

Delete(d, t, id) == [d EXCEPT ![t] = Restrict(d[t], DOMAIN d[t] \ {id})]

\* Bound: the table can hand out n more ids.
RoomFor(t, n) == db.sequence[t] + n <= RowLimit[t]

\* Mutant: SuppliersProductInfo without its foreign key to ProductType.
ProductTypeReferencedNotByOffers(d, p) ==
  \/ \E i \in DOMAIN d.Inventory : d.Inventory[i].productTypeId = p
  \/ \E i \in DOMAIN d.PurchaseOrderRecord : d.PurchaseOrderRecord[i].productTypeId = p

\* FOREIGN KEY without an action: a row that is referenced is not deleted.
ProductTypeReferenced(d, p) ==
  \/ \E i \in DOMAIN d.Inventory : d.Inventory[i].productTypeId = p
  \/ \E i \in DOMAIN d.SuppliersProductInfo : d.SuppliersProductInfo[i].productTypeId = p
  \/ \E i \in DOMAIN d.PurchaseOrderRecord : d.PurchaseOrderRecord[i].productTypeId = p

SupplierReferenced(d, s) ==
  \/ \E i \in DOMAIN d.SuppliersProductInfo : d.SuppliersProductInfo[i].supplierID = s
  \/ \E i \in DOMAIN d.PurchaseOrder : d.PurchaseOrder[i].supplierId = s

EmployeeReferenced(d, e) ==
  \E i \in DOMAIN d.Inventory : d.Inventory[i].employeeId = e

UserReferenced(d, u) ==
  \E i \in DOMAIN d.PurchaseOrder : d.PurchaseOrder[i].userId = u

PurchaseOrderReferenced(d, o) ==
  \E i \in DOMAIN d.PurchaseOrderRecord : d.PurchaseOrderRecord[i].orderId = o

-----------------------------------------------------------------------------
(* Transactions.                                                            *)

Autocommit == [open |-> FALSE]

Journal == {Autocommit} \cup [open : {TRUE}, saved : Database]

\* What the database file holds: what a restart finds.
Committed == IF journal.open THEN journal.saved ELSE db

\* BEGIN IMMEDIATE fails inside an open transaction.
Begin == ~journal.open /\ journal' = [open |-> TRUE, saved |-> db]

Commit == journal' = Autocommit /\ UNCHANGED db

Rollback == db' = Committed /\ journal' = Autocommit

-----------------------------------------------------------------------------
(* The server thread.  It takes the next request only when the handler of   *)
(* the previous one has returned, so a handler is one action, unless it     *)
(* issues several writing statements: then task holds its local variables   *)
(* and each statement is an action.                                         *)

Idle == [op |-> "idle"]

\* The state scripts/create_db.sql leaves, with the products of the catalogue
\* registered: the default product has an empty stock, and there is one order
\* of one unit of it.
Init ==
  /\ db = [User |-> Users, Supplier |-> Suppliers, Employee |-> Employees,
           ProductType |-> Catalogue,
           Inventory |-> [i \in {1} |-> [productTypeId |-> 1, quantityAvailable |-> 0,
                                         employeeId |-> FirstEmployee]],
           SuppliersProductInfo |-> [i \in {} |-> FirstSupplier],
           PurchaseOrder |-> [i \in {1} |-> [userId |-> FirstUser,
                                             supplierId |-> FirstSupplier,
                                             status |-> "Ordered"]],
           PurchaseOrderRecord |-> [i \in {1} |-> [orderId |-> 1, productTypeId |-> 1,
                                                   quantity |-> 1]],
           sequence |-> [t \in TableName |->
                           CASE t = "ProductType" -> CatalogueSize
                             [] t = "SuppliersProductInfo" -> 0
                             [] OTHER -> 1]]
  /\ journal = Autocommit
  /\ task = Idle
  /\ faults = 0

Fault == faults < MaxFaults /\ faults' = faults + 1

\* The process dies and is started again: locals are gone, and SQLite plays
\* the rollback journal back when the file is next opened.
Crash ==
  /\ task # Idle \/ journal.open
  /\ Fault
  /\ Rollback
  /\ task' = Idle
=============================================================================

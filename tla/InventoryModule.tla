-------------------------- MODULE InventoryModule --------------------------
(***************************************************************************)
(* BusinessLogic/InventoryModule.cpp: product types, stocks, and the       *)
(* products suppliers offer.  Every handler ends in one statement, so each *)
(* is one action.  Codes are unique because the handlers look for another  *)
(* holder before they write: the schema has no constraint on them.         *)
(*                                                                         *)
(* The stock handlers do the same for the one stock row of a product, on   *)
(* which the schema has UNIQUE (productTypeId).  The model leaves that     *)
(* constraint out, so that a run says whether it would ever be needed.     *)
(***************************************************************************)
EXTENDS ErpStore

Request(d) == db' = d /\ UNCHANGED <<journal, task, faults>>

-----------------------------------------------------------------------------
(* Product types.                                                           *)

HoldersOfCode(c) == {p \in DOMAIN db.ProductType : db.ProductType[p] = c}

AddProductType(c) ==
  /\ task = Idle
  /\ HoldersOfCode(c) = {}
  /\ RoomFor("ProductType", 1)
  /\ Request(Insert(db, "ProductType", c))

\* Mutant: editProductType that does not look for other holders of the code.
EditProductTypeAnyCode(p, c) ==
  /\ task = Idle
  /\ p \in DOMAIN db.ProductType
  /\ Request(Update(db, "ProductType", p, c))

EditProductType(p, c) ==
  /\ task = Idle
  /\ p \in DOMAIN db.ProductType
  /\ HoldersOfCode(c) \subseteq {p}
  /\ Request(Update(db, "ProductType", p, c))

DeleteProductType(p) ==
  /\ task = Idle
  /\ p \in DOMAIN db.ProductType
  /\ ~ProductTypeReferenced(db, p)
  /\ Request(Delete(db, "ProductType", p))

-----------------------------------------------------------------------------
(* Stocks.                                                                  *)

StocksByProduct(p) == {s \in DOMAIN db.Inventory : db.Inventory[s].productTypeId = p}

\* The employee is not looked up: the foreign key refuses one that is gone.
AddStock(p, q, e) ==
  /\ task = Idle
  /\ p \in DOMAIN db.ProductType
  /\ StocksByProduct(p) = {}
  /\ e \in db.Employee
  /\ RoomFor("Inventory", 1)
  /\ Request(Insert(db, "Inventory",
                    [productTypeId |-> p, quantityAvailable |-> q, employeeId |-> e]))

\* Mutant: editStock that does not look for another stock of the product.
EditStockAnyProduct(s, p, q, e) ==
  /\ task = Idle
  /\ s \in DOMAIN db.Inventory
  /\ p \in DOMAIN db.ProductType
  /\ e \in db.Employee
  /\ Request(Update(db, "Inventory", s,
                    [productTypeId |-> p, quantityAvailable |-> q, employeeId |-> e]))

\* Mutant: a second server thread runs editStock while a task is under way.
EditStockMeanwhile(s, p, q, e) ==
  /\ s \in DOMAIN db.Inventory
  /\ p \in DOMAIN db.ProductType
  /\ StocksByProduct(p) \subseteq {s}
  /\ e \in db.Employee
  /\ Request(Update(db, "Inventory", s,
                    [productTypeId |-> p, quantityAvailable |-> q, employeeId |-> e]))

\* The request carries the whole row, its quantity included, whatever was
\* posted to the row since the client read it.
EditStock(s, p, q, e) ==
  /\ task = Idle
  /\ s \in DOMAIN db.Inventory
  /\ p \in DOMAIN db.ProductType
  /\ StocksByProduct(p) \subseteq {s}
  /\ e \in db.Employee
  /\ Request(Update(db, "Inventory", s,
                    [productTypeId |-> p, quantityAvailable |-> q, employeeId |-> e]))

DeleteStock(s) ==
  /\ task = Idle
  /\ s \in DOMAIN db.Inventory
  /\ Request(Delete(db, "Inventory", s))

-----------------------------------------------------------------------------
(* Supplier products.                                                       *)

AddSupplierProduct(s, p) ==
  /\ task = Idle
  /\ s \in db.Supplier
  /\ p \in DOMAIN db.ProductType
  /\ RoomFor("SuppliersProductInfo", 1)
  /\ Request(Insert(db, "SuppliersProductInfo", [supplierID |-> s, productTypeId |-> p]))

EditSupplierProduct(i, s, p) ==
  /\ task = Idle
  /\ i \in DOMAIN db.SuppliersProductInfo
  /\ s \in db.Supplier
  /\ p \in DOMAIN db.ProductType
  /\ Request(Update(db, "SuppliersProductInfo", i, [supplierID |-> s, productTypeId |-> p]))

DeleteSupplierProduct(i) ==
  /\ task = Idle
  /\ i \in DOMAIN db.SuppliersProductInfo
  /\ Request(Delete(db, "SuppliersProductInfo", i))

-----------------------------------------------------------------------------
ProductTypeRequest ==
  \/ \E c \in Codes :
       \/ AddProductType(c)
       \/ \E p \in Id("ProductType") : EditProductType(p, c)
  \/ \E p \in Id("ProductType") : DeleteProductType(p)

StockRequest ==
  \/ \E p \in Id("ProductType"), q \in RequestQuantities, e \in Employees :
       \/ AddStock(p, q, e)
       \/ \E s \in Id("Inventory") : EditStock(s, p, q, e)
  \/ \E s \in Id("Inventory") : DeleteStock(s)

SupplierProductRequest ==
  \/ \E s \in Suppliers, p \in Id("ProductType") :
       \/ AddSupplierProduct(s, p)
       \/ \E i \in Id("SuppliersProductInfo") : EditSupplierProduct(i, s, p)
  \/ \E i \in Id("SuppliersProductInfo") : DeleteSupplierProduct(i)

InventoryRequest == ProductTypeRequest \/ StockRequest \/ SupplierProductRequest
=============================================================================

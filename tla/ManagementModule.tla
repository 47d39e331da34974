-------------------------- MODULE ManagementModule --------------------------
(***************************************************************************)
(* BusinessLogic/ManagementModule.cpp: contacts, suppliers and employees,  *)
(* and the product types InventoryModule keeps, as far as sales need them. *)
(***************************************************************************)
EXTENDS OfficeStore

AddRow(t) ==
  /\ task = Idle
  /\ RoomFor(t)
  /\ db' = Insert(db, t, "row")
  /\ UNCHANGED <<task, faults, renamed>>

\* Mutant: SaleOrder without its foreign keys.
DeleteRowAnyway(t, id) ==
  /\ task = Idle
  /\ id \in DOMAIN db[t]
  /\ db' = Delete(db, t, id)
  /\ UNCHANGED <<task, faults, renamed>>

\* The row must exist, and the schema refuses to delete one that is referenced.
DeleteRow(t, id) ==
  /\ task = Idle
  /\ id \in DOMAIN db[t]
  /\ ~Referenced(db, t, id)
  /\ db' = Delete(db, t, id)
  /\ UNCHANGED <<task, faults, renamed>>

\* ensureEntityExists; then an UPDATE of columns the model does not keep.
EditRow(t, id) ==
  /\ task = Idle
  /\ id \in DOMAIN db[t]
  /\ db' = Update(db, t, id, "row")
  /\ UNCHANGED <<task, faults, renamed>>

-----------------------------------------------------------------------------
Contacts ==
  \/ AddRow("Contact")
  \/ \E id \in Id("Contact") : EditRow("Contact", id) \/ DeleteRow("Contact", id)

Suppliers ==
  \/ AddRow("Supplier")
  \/ \E id \in Id("Supplier") : EditRow("Supplier", id) \/ DeleteRow("Supplier", id)

Employees ==
  \/ AddRow("Employee")
  \/ \E id \in Id("Employee") : EditRow("Employee", id) \/ DeleteRow("Employee", id)

ProductTypes ==
  \/ AddRow("ProductType")
  \/ \E id \in Id("ProductType") : EditRow("ProductType", id) \/ DeleteRow("ProductType", id)

ManagementRequest == Contacts \/ Suppliers \/ Employees \/ ProductTypes
=============================================================================

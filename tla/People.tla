------------------------------- MODULE People -------------------------------
(***************************************************************************)
(* The users, suppliers and employees that orders and stocks refer to.     *)
(* Their own columns are read by no guard of the purchase and inventory    *)
(* modules, so a row is its id.  A row added later has an id nothing       *)
(* refers to yet, exactly like a row that was there from the start: only   *)
(* deletions matter here.                                                  *)
(***************************************************************************)
EXTENDS ErpStore

\* UsersModule::deleteUser: no check of its own, the foreign key decides.
DeleteUser(u) ==
  /\ task = Idle
  /\ u \in db.User
  /\ ~UserReferenced(db, u)
  /\ db' = [db EXCEPT !.User = @ \ {u}]
  /\ UNCHANGED <<journal, task, faults>>

\* ManagementModule::deleteSupplier.
DeleteSupplier(s) ==
  /\ task = Idle
  /\ s \in db.Supplier
  /\ ~SupplierReferenced(db, s)
  /\ db' = [db EXCEPT !.Supplier = @ \ {s}]
  /\ UNCHANGED <<journal, task, faults>>

\* ManagementModule::deleteEmployee.
DeleteEmployee(e) ==
  /\ task = Idle
  /\ e \in db.Employee
  /\ ~EmployeeReferenced(db, e)
  /\ db' = [db EXCEPT !.Employee = @ \ {e}]
  /\ UNCHANGED <<journal, task, faults>>

PeopleRequest ==
  \/ \E u \in Users : DeleteUser(u)
  \/ \E s \in Suppliers : DeleteSupplier(s)
  \/ \E e \in Employees : DeleteEmployee(e)
=============================================================================

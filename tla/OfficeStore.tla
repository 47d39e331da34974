---------------------------- MODULE OfficeStore ----------------------------
(***************************************************************************)
(* The tables that accounts, contacts, employees, suppliers and sales live *)
(* in (scripts/create_db.sql), with the statements their repositories      *)
(* issue.  As in ErpStore a table is a function from ids to rows, a row    *)
(* keeps the columns a guard or a property reads, and every statement      *)
(* commits by itself: none of these modules opens a transaction.           *)
(*                                                                         *)
(* Foreign keys that come in from purchase orders, stocks and supplier     *)
(* products are in ErpStore and leave these tables alone.                  *)
(***************************************************************************)
EXTENDS Integers, Functions

CONSTANTS
  Names,      \* user names and role names in requests
  RowLimit,   \* bound: how many ids each table may hand out
  MaxFaults   \* bound: how many failing statements and crashes

TableName == {"Role", "User", "Contact", "Employee", "Supplier", "ProductType",
              "SaleOrder", "SalesOrderRecord"}

ASSUME NamesAssumption == {"user", "admin"} \subseteq Names

ASSUME LimitAssumption ==
  /\ MaxFaults \in Nat
  /\ RowLimit \in [TableName -> Nat]
  /\ \A t \in TableName : RowLimit[t] > 0
  /\ RowLimit["Role"] > 1

VARIABLES
  db,       \* the tables
  task,     \* the request the server thread is executing, with its locals
  faults,   \* how many failures have happened
  renamed   \* history: the roles whose name updateRole has set

vars == <<db, task, faults, renamed>>

Id(t) == 1 .. RowLimit[t]

Table(ids, Row) == UNION {[S -> Row] : S \in SUBSET ids}

\* What the repositories keep.  No column of a contact, an employee, a supplier
\* or a product is read by these modules.
Plain == {"row"}

RoleTable == Table(Id("Role"), Names)

UserTable == Table(Id("User"), [username : Names, roleId : Id("Role")])

ContactTable == Table(Id("Contact"), Plain)

EmployeeTable == Table(Id("Employee"), Plain)

SupplierTable == Table(Id("Supplier"), Plain)

SaleOrderTable ==
  Table(Id("SaleOrder"),
        [userId : Id("User"), contactId : Id("Contact"), employeeId : Id("Employee")])

SalesOrderRecordTable ==
  Table(Id("SalesOrderRecord"),
        [orderId : Id("SaleOrder"), productTypeId : Id("ProductType")])

Database ==
  [Role             : RoleTable,
   User             : UserTable,
   Contact          : ContactTable,
   Employee         : EmployeeTable,
   Supplier         : SupplierTable,
   ProductType      : Table(Id("ProductType"), Plain),
   SaleOrder        : SaleOrderTable,
   SalesOrderRecord : SalesOrderRecordTable,
   sequence         : [TableName -> Nat]]

-----------------------------------------------------------------------------
(* Statements.                                                              *)

\* AUTOINCREMENT: one more than the largest id the table ever held.
NextId(d, t) == d.sequence[t] + 1

Insert(d, t, row) ==
  LET id == NextId(d, t)
  IN  [d EXCEPT ![t] = [i \in DOMAIN d[t] \cup {id} |-> IF i = id THEN row ELSE d[t][i]],
                !.sequence = [d.sequence EXCEPT ![t] = d.sequence[t] + 1]]

\* UPDATE ... WHERE id = ? changes nothing when no row has the id.
Update(d, t, id, row) == [d EXCEPT ![t] = [d[t] EXCEPT ![id] = row]]

Delete(d, t, id) == [d EXCEPT ![t] = Restrict(d[t], DOMAIN d[t] \ {id})]

RoomFor(t) == db.sequence[t] < RowLimit[t]

\* UNIQUE on User.username, as an INSERT (id 0) or an UPDATE of row id meets it.
UsernameFree(d, id, name) ==
  \A u \in DOMAIN d.User : u # id => d.User[u].username # name

\* FOREIGN KEY without an action: a row that is referenced is not deleted.
Referenced(d, t, id) ==
  CASE t = "Role" -> \E u \in DOMAIN d.User : d.User[u].roleId = id
    [] t = "User" -> \E o \in DOMAIN d.SaleOrder : d.SaleOrder[o].userId = id
    [] t = "Contact" -> \E o \in DOMAIN d.SaleOrder : d.SaleOrder[o].contactId = id
    [] t = "Employee" -> \E o \in DOMAIN d.SaleOrder : d.SaleOrder[o].employeeId = id
    [] t = "ProductType" ->
         \E r \in DOMAIN d.SalesOrderRecord : d.SalesOrderRecord[r].productTypeId = id
    [] t = "SaleOrder" ->
         \E r \in DOMAIN d.SalesOrderRecord : d.SalesOrderRecord[r].orderId = id
    [] OTHER -> FALSE

-----------------------------------------------------------------------------
Idle == [op |-> "idle"]

One(row) == [i \in {1} |-> row]

\* The rows scripts/create_db.sql inserts.  The first account is called admin
\* and has the first role, which is called user.
Init ==
  /\ db = [Role |-> [i \in {1, 2} |-> IF i = 1 THEN "user" ELSE "admin"],
           User |-> One([username |-> "admin", roleId |-> 1]),
           Contact |-> One("row"),
           Employee |-> One("row"),
           Supplier |-> One("row"),
           ProductType |-> One("row"),
           SaleOrder |-> One([userId |-> 1, contactId |-> 1, employeeId |-> 1]),
           SalesOrderRecord |-> One([orderId |-> 1, productTypeId |-> 1]),
           sequence |-> [t \in TableName |-> IF t = "Role" THEN 2 ELSE 1]]
  /\ task = Idle
  /\ faults = 0
  /\ renamed = {}

Fault == faults < MaxFaults /\ faults' = faults + 1
=============================================================================

---------------------------- MODULE OfficeProofs ----------------------------
(***************************************************************************)
(* Proofs about OfficeCore for every set of names, every size of the       *)
(* tables and any number of faults.                                        *)
(***************************************************************************)
EXTENDS OfficeCore, TLAPS, FiniteSetTheorems

\* The rows of each table.
Rows(t) ==
  CASE t = "Role" -> Names
    [] t = "User" -> [username : Names, roleId : Id("Role")]
    [] t = "SaleOrder" ->
         [userId : Id("User"), contactId : Id("Contact"), employeeId : Id("Employee")]
    [] t = "SalesOrderRecord" ->
         [orderId : Id("SaleOrder"), productTypeId : Id("ProductType")]
    [] OTHER -> Plain

-----------------------------------------------------------------------------
(* Tables.                                                                  *)

LEMMA TableIff ==
  ASSUME NEW ids, NEW Row, NEW f
  PROVE  f \in Table(ids, Row) <=> (DOMAIN f \subseteq ids /\ f \in [DOMAIN f -> Row])
BY DEF Table

LEMMA TableOf ==
  ASSUME NEW d \in Database, NEW t \in TableName
  PROVE  d[t] \in Table(Id(t), Rows(t))
BY DEF Database, TableName, Rows, RoleTable, UserTable, ContactTable, EmployeeTable,
       SupplierTable, SaleOrderTable, SalesOrderRecordTable

Inserted(d, t, row) ==
  [i \in DOMAIN d[t] \cup {NextId(d, t)} |-> IF i = NextId(d, t) THEN row ELSE d[t][i]]

LEMMA InsertLooks ==
  ASSUME NEW d \in Database, NEW t \in TableName, NEW row \in Rows(t),
         d.sequence[t] < RowLimit[t]
  PROVE  /\ Insert(d, t, row) \in Database
         /\ Insert(d, t, row)[t] = Inserted(d, t, row)
         /\ Insert(d, t, row).sequence = [d.sequence EXCEPT ![t] = d.sequence[t] + 1]
         /\ \A u \in TableName \ {t} : Insert(d, t, row)[u] = d[u]
<1> DEFINE s == [d.sequence EXCEPT ![t] = d.sequence[t] + 1]
           f == Inserted(d, t, row)
           e == Insert(d, t, row)
<1>1. /\ d.sequence \in [TableName -> Nat]
      /\ RowLimit[t] \in Nat
  BY LimitAssumption DEF Database
<1>2. s \in [TableName -> Nat] /\ NextId(d, t) \in Id(t)
  BY <1>1 DEF NextId, Id
<1>3. f \in Table(Id(t), Rows(t))
  BY <1>2, TableIff, TableOf DEF Inserted
<1>4. e = [d EXCEPT ![t] = f, !.sequence = s]
  BY DEF Insert, Inserted
<1> HIDE DEF s, f, e
<1>5. e \in Database
  BY <1>2, <1>3, <1>4 DEF Database, TableName, Rows, RoleTable, UserTable, ContactTable,
         EmployeeTable, SupplierTable, SaleOrderTable, SalesOrderRecordTable
<1>6. e[t] = f /\ e.sequence = s /\ \A u \in TableName \ {t} : e[u] = d[u]
  BY <1>2, <1>3, <1>4 DEF Database, TableName
<1> QED
  BY <1>5, <1>6 DEF s, f, e

LEMMA InsertTables ==
  ASSUME NEW d \in Database, NEW t \in TableName, NEW row \in Rows(t),
         d.sequence[t] < RowLimit[t], NEW e, e = Insert(d, t, row)
  PROVE  /\ e[t] = Inserted(d, t, row)
         /\ \A u \in TableName \ {t} : e[u] = d[u]
<1> DEFINE s == [d.sequence EXCEPT ![t] = d.sequence[t] + 1]
           f == Inserted(d, t, row)
<1>1. e = [d EXCEPT ![t] = f, !.sequence = s]
  BY DEF Insert, Inserted
<1> HIDE DEF s, f
<1>2. e[t] = f /\ \A u \in TableName \ {t} : e[u] = d[u]
  BY <1>1 DEF Database, TableName
<1> QED
  BY <1>2 DEF f

LEMMA UpdateLooks ==
  ASSUME NEW d \in Database, NEW t \in TableName, NEW id, NEW row \in Rows(t)
  PROVE  /\ Update(d, t, id, row) \in Database
         /\ Update(d, t, id, row)[t] = [i \in DOMAIN d[t] |-> IF i = id THEN row ELSE d[t][i]]
         /\ Update(d, t, id, row).sequence = d.sequence
         /\ \A u \in TableName \ {t} : Update(d, t, id, row)[u] = d[u]
<1> DEFINE f == [i \in DOMAIN d[t] |-> IF i = id THEN row ELSE d[t][i]]
           e == Update(d, t, id, row)
<1>1. f \in Table(Id(t), Rows(t))
  BY TableIff, TableOf
<1>2. e = [d EXCEPT ![t] = f]
  <2>1. [d[t] EXCEPT ![id] = row] = f
    BY TableIff, TableOf
  <2> QED
    BY <2>1 DEF Update
<1> HIDE DEF f, e
<1>3. e \in Database
  BY <1>1, <1>2 DEF Database, TableName, Rows, RoleTable, UserTable, ContactTable,
         EmployeeTable, SupplierTable, SaleOrderTable, SalesOrderRecordTable
<1>4. e[t] = f /\ e.sequence = d.sequence /\ \A u \in TableName \ {t} : e[u] = d[u]
  BY <1>1, <1>2 DEF Database, TableName
<1> QED
  BY <1>3, <1>4 DEF f, e

LEMMA DeleteLooks ==
  ASSUME NEW d \in Database, NEW t \in TableName, NEW id
  PROVE  /\ Delete(d, t, id) \in Database
         /\ Delete(d, t, id)[t] = [i \in DOMAIN d[t] \ {id} |-> d[t][i]]
         /\ Delete(d, t, id).sequence = d.sequence
         /\ \A u \in TableName \ {t} : Delete(d, t, id)[u] = d[u]
<1> DEFINE f == [i \in DOMAIN d[t] \ {id} |-> d[t][i]]
           e == Delete(d, t, id)
<1>1. f \in Table(Id(t), Rows(t))
  BY TableIff, TableOf
<1>2. e = [d EXCEPT ![t] = f]
  BY DEF Delete, Restrict
<1> HIDE DEF f, e
<1>3. e \in Database
  BY <1>1, <1>2 DEF Database, TableName, Rows, RoleTable, UserTable, ContactTable,
         EmployeeTable, SupplierTable, SaleOrderTable, SalesOrderRecordTable
<1>4. e[t] = f /\ e.sequence = d.sequence /\ \A u \in TableName \ {t} : e[u] = d[u]
  BY <1>1, <1>2 DEF Database, TableName
<1> QED
  BY <1>3, <1>4 DEF f, e

-----------------------------------------------------------------------------
(* Statements keep references.                                              *)

References(d) ==
  /\ \A u \in DOMAIN d["User"] : d["User"][u].roleId \in DOMAIN d["Role"]
  /\ \A o \in DOMAIN d["SaleOrder"] :
       /\ d["SaleOrder"][o].userId \in DOMAIN d["User"]
       /\ d["SaleOrder"][o].contactId \in DOMAIN d["Contact"]
       /\ d["SaleOrder"][o].employeeId \in DOMAIN d["Employee"]
  /\ \A r \in DOMAIN d["SalesOrderRecord"] :
       /\ d["SalesOrderRecord"][r].orderId \in DOMAIN d["SaleOrder"]
       /\ d["SalesOrderRecord"][r].productTypeId \in DOMAIN d["ProductType"]

\* What a row of a table refers to is there.
Refers(d, t, row) ==
  /\ t = "User" => row.roleId \in DOMAIN d["Role"]
  /\ t = "SaleOrder" =>
       /\ row.userId \in DOMAIN d["User"]
       /\ row.contactId \in DOMAIN d["Contact"]
       /\ row.employeeId \in DOMAIN d["Employee"]
  /\ t = "SalesOrderRecord" =>
       /\ row.orderId \in DOMAIN d["SaleOrder"]
       /\ row.productTypeId \in DOMAIN d["ProductType"]

LEMMA InsertKeepsReferences ==
  ASSUME NEW d \in Database, NEW t \in TableName, NEW row \in Rows(t),
         d.sequence[t] < RowLimit[t], References(d), Refers(d, t, row)
  PROVE  References(Insert(d, t, row))
<1> DEFINE e == Insert(d, t, row)
<1>1. /\ e[t] = Inserted(d, t, row)
      /\ \A u \in TableName \ {t} : e[u] = d[u]
  BY InsertTables
<1>2. /\ DOMAIN d[t] \subseteq DOMAIN e[t]
      /\ \A i \in DOMAIN e[t] : e[t][i] = row \/ (i \in DOMAIN d[t] /\ e[t][i] = d[t][i])
  BY <1>1 DEF Inserted
<1> HIDE DEF e
<1> QED
  BY <1>1, <1>2 DEF References, Refers, TableName, e

LEMMA UpdateKeepsReferences ==
  ASSUME NEW d \in Database, NEW t \in TableName, NEW row \in Rows(t), NEW id,
         References(d), Refers(d, t, row)
  PROVE  References(Update(d, t, id, row))
<1> DEFINE e == Update(d, t, id, row)
<1>1. /\ e[t] = [i \in DOMAIN d[t] |-> IF i = id THEN row ELSE d[t][i]]
      /\ \A u \in TableName \ {t} : e[u] = d[u]
  BY UpdateLooks
<1>2. /\ DOMAIN d[t] = DOMAIN e[t]
      /\ \A i \in DOMAIN e[t] : e[t][i] = row \/ e[t][i] = d[t][i]
  BY <1>1
<1> HIDE DEF e
<1> QED
  BY <1>1, <1>2 DEF References, Refers, TableName, e

LEMMA DeleteKeepsReferences ==
  ASSUME NEW d \in Database, NEW t \in TableName, NEW id, References(d), ~Referenced(d, t, id)
  PROVE  References(Delete(d, t, id))
<1> DEFINE e == Delete(d, t, id)
<1>1. /\ e[t] = [i \in DOMAIN d[t] \ {id} |-> d[t][i]]
      /\ \A u \in TableName \ {t} : e[u] = d[u]
  BY DeleteLooks
<1>2. /\ DOMAIN e[t] = DOMAIN d[t] \ {id}
      /\ \A i \in DOMAIN e[t] : e[t][i] = d[t][i]
  BY <1>1
<1> HIDE DEF e
<1> QED
  BY <1>1, <1>2 DEF References, Referenced, TableName, e

-----------------------------------------------------------------------------
(* Every step of the server is one statement, or none.                      *)

InsertStep(t, row) ==
  /\ task = Idle
  /\ db.sequence[t] < RowLimit[t]
  /\ Refers(db, t, row)
  /\ t = "User" => Accounts(db, row.username) = {}
  /\ t = "Role" => \A r \in DOMAIN db["Role"] : db["Role"][r] # row
  /\ db' = Insert(db, t, row)
  /\ UNCHANGED <<task, faults, renamed>>

UpdateStep(t, id, row) ==
  /\ task = Idle
  /\ id \in DOMAIN db[t]
  /\ Refers(db, t, row)
  /\ t = "User" => UsernameFree(db, id, row.username)
  /\ db' = Update(db, t, id, row)
  /\ renamed' = IF t = "Role" THEN renamed \cup {id} ELSE renamed
  /\ UNCHANGED <<task, faults>>

DeleteStep(t, id) ==
  /\ ~Referenced(db, t, id)
  /\ db' = Delete(db, t, id)
  /\ \/ task = Idle /\ task' = Idle
     \/ /\ t = "SalesOrderRecord"
        /\ task.op = "deleteOrder" /\ id \in task.records
        /\ task' = [task EXCEPT !.records = @ \ {id}]
     \/ task' = Idle
  /\ UNCHANGED <<faults, renamed>>

TaskStep ==
  /\ \/ UNCHANGED <<task, faults>>
     \/ (\E o \in Id("SaleOrder") : DeleteOrder(o)) /\ UNCHANGED faults
     \/ task' = Idle /\ Fault
  /\ UNCHANGED <<db, renamed>>

LEMMA SalesSteps ==
  ASSUME TypeOK, SalesRequest \/ SalesStep \/ StatementFails
  PROVE  \/ \E t \in TableName : \E row \in Rows(t) : InsertStep(t, row)
         \/ \E t \in TableName : \E row \in Rows(t) : \E id \in Id(t) : UpdateStep(t, id, row)
         \/ \E t \in TableName : \E id \in Id(t) : DeleteStep(t, id)
         \/ TaskStep
<1>1. ASSUME NEW u \in Id("User"), NEW c \in Id("Contact"), NEW e \in Id("Employee"),
             AddOrder(u, c, e)
      PROVE  OrderRow(u, c, e) \in Rows("SaleOrder") /\ InsertStep("SaleOrder", OrderRow(u, c, e))
  BY <1>1 DEF AddOrder, OrderRow, Rows, InsertStep, RoomFor, Refers, PartiesExist
<1>2. ASSUME NEW u \in Id("User"), NEW c \in Id("Contact"), NEW e \in Id("Employee"),
             NEW o \in Id("SaleOrder"), EditOrder(o, u, c, e)
      PROVE  OrderRow(u, c, e) \in Rows("SaleOrder") /\ UpdateStep("SaleOrder", o, OrderRow(u, c, e))
  BY <1>2 DEF EditOrder, OrderRow, Rows, UpdateStep, Refers, PartiesExist
<1>3. ASSUME NEW o \in Id("SaleOrder"), NEW p \in Id("ProductType"), AddOrderRecord(o, p)
      PROVE  /\ RecordRow(o, p) \in Rows("SalesOrderRecord")
             /\ InsertStep("SalesOrderRecord", RecordRow(o, p))
  BY <1>3 DEF AddOrderRecord, RecordRow, Rows, InsertStep, RoomFor, Refers
<1>4. ASSUME NEW o \in Id("SaleOrder"), NEW p \in Id("ProductType"),
             NEW r \in Id("SalesOrderRecord"), EditOrderRecord(r, o, p)
      PROVE  /\ RecordRow(o, p) \in Rows("SalesOrderRecord")
             /\ UpdateStep("SalesOrderRecord", r, RecordRow(o, p))
  BY <1>4 DEF EditOrderRecord, RecordRow, Rows, UpdateStep, Refers
<1>5. ASSUME NEW r \in Id("SalesOrderRecord"), DeleteOrderRecord(r) \/ DeleteNextRecord(r)
      PROVE  DeleteStep("SalesOrderRecord", r)
  BY <1>5 DEF DeleteOrderRecord, DeleteNextRecord, DeleteStep, Referenced
<1>6. ASSUME DeleteOrderRow
      PROVE  \E o \in Id("SaleOrder") : DeleteStep("SaleOrder", o)
  BY <1>6 DEF DeleteOrderRow, DeleteStep, TypeOK, Task, Idle
<1>7. ASSUME StatementFails \/ \E o \in Id("SaleOrder") : DeleteOrder(o)
      PROVE  TaskStep
  BY <1>7 DEF StatementFails, DeleteOrder, TaskStep
<1>8. {"SaleOrder", "SalesOrderRecord"} \subseteq TableName
  BY DEF TableName
<1> QED
  BY <1>1, <1>2, <1>3, <1>4, <1>5, <1>6, <1>7, <1>8 DEF SalesRequest, SalesStep

LEMMA UsersSteps ==
  ASSUME TypeOK, UsersRequest
  PROVE  \/ \E t \in TableName : \E row \in Rows(t) : InsertStep(t, row)
         \/ \E t \in TableName : \E row \in Rows(t) : \E id \in Id(t) : UpdateStep(t, id, row)
         \/ \E t \in TableName : \E id \in Id(t) : DeleteStep(t, id)
<1> DEFINE account(name, role) == [username |-> name, roleId |-> role]
<1>1. ASSUME NEW name \in Names, NEW role \in Id("Role") \cup {NoRole, NullId},
             AddUser(name, role)
      PROVE  \E row \in Rows("User") : InsertStep("User", row)
  <2> DEFINE given == IF role = NoRole THEN DefaultRole ELSE role
  <2>1. DOMAIN db.Role \subseteq Id("Role")
    BY TableIff DEF TypeOK, Database, RoleTable
  <2>2. account(name, given) \in Rows("User")
    BY <1>1, <2>1 DEF AddUser, Rows
  <2>3. InsertStep("User", account(name, given))
    BY <1>1 DEF AddUser, InsertStep, RoomFor, Refers
  <2> QED
    BY <2>2, <2>3
<1>2. ASSUME NEW name \in Names, NEW u \in Id("User"), NEW role \in Id("Role"),
             EditUser(u, name, role)
      PROVE  account(name, role) \in Rows("User") /\ UpdateStep("User", u, account(name, role))
  BY <1>2 DEF EditUser, Rows, UpdateStep, Refers
<1>3. ASSUME NEW u \in Id("User"), DeleteUser(u)
      PROVE  DeleteStep("User", u)
  BY <1>3 DEF DeleteUser, DeleteStep
<1>4. ASSUME NEW name \in Names, AddRole(name)
      PROVE  name \in Rows("Role") /\ InsertStep("Role", name)
  BY <1>4 DEF AddRole, Rows, InsertStep, RoomFor, Refers
<1>5. ASSUME NEW name \in Names, NEW r \in Id("Role"), UpdateRole(r, name)
      PROVE  name \in Rows("Role") /\ UpdateStep("Role", r, name)
  BY <1>5 DEF UpdateRole, Rows, UpdateStep, Refers
<1>6. ASSUME NEW r \in Id("Role"), DeleteRole(r)
      PROVE  DeleteStep("Role", r)
  BY <1>6 DEF DeleteRole, DeleteStep
<1>7. {"Role", "User"} \subseteq TableName
  BY DEF TableName
<1> QED
  BY <1>1, <1>2, <1>3, <1>4, <1>5, <1>6, <1>7 DEF UsersRequest

LEMMA ManagementSteps ==
  ASSUME TypeOK, ManagementRequest
  PROVE  \/ \E t \in TableName : \E row \in Rows(t) : InsertStep(t, row)
         \/ \E t \in TableName : \E row \in Rows(t) : \E id \in Id(t) : UpdateStep(t, id, row)
         \/ \E t \in TableName : \E id \in Id(t) : DeleteStep(t, id)
<1> DEFINE tables == {"Contact", "Supplier", "Employee", "ProductType"}
<1>1. PICK t \in tables : AddRow(t) \/ \E id \in Id(t) : EditRow(t, id) \/ DeleteRow(t, id)
  BY DEF ManagementRequest, Contacts, Suppliers, Employees, ProductTypes
<1>2. "row" \in Rows(t) /\ t \in TableName
  BY DEF Rows, Plain, TableName
<1>3. ASSUME AddRow(t)
      PROVE  InsertStep(t, "row")
  BY <1>3 DEF AddRow, InsertStep, RoomFor, Refers
<1>4. ASSUME NEW id \in Id(t), EditRow(t, id)
      PROVE  UpdateStep(t, id, "row")
  BY <1>4 DEF EditRow, UpdateStep, Refers
<1>5. ASSUME NEW id \in Id(t), DeleteRow(t, id)
      PROVE  DeleteStep(t, id)
  BY <1>5 DEF DeleteRow, DeleteStep
<1> QED
  BY <1>1, <1>2, <1>3, <1>4, <1>5

LEMMA Steps ==
  ASSUME TypeOK, [Next]_vars
  PROVE  \/ \E t \in TableName : \E row \in Rows(t) : InsertStep(t, row)
         \/ \E t \in TableName : \E row \in Rows(t) : \E id \in Id(t) : UpdateStep(t, id, row)
         \/ \E t \in TableName : \E id \in Id(t) : DeleteStep(t, id)
         \/ TaskStep
<1>1. CASE UNCHANGED vars \/ ReadRequest
  BY <1>1 DEF TaskStep, ReadRequest, vars
<1> QED
  BY <1>1, SalesSteps, UsersSteps, ManagementSteps DEF Next, Request

-----------------------------------------------------------------------------
(* Types.                                                                   *)

\* Every id a table holds was handed out.
IdsHandedOut(d) == \A t \in TableName : \A i \in DOMAIN d[t] : i <= d.sequence[t]

LEMMA InsertKeepsIds ==
  ASSUME NEW d \in Database, NEW t \in TableName, NEW row \in Rows(t),
         d.sequence[t] < RowLimit[t], IdsHandedOut(d)
  PROVE  IdsHandedOut(Insert(d, t, row))
<1> DEFINE e == Insert(d, t, row)
<1>1. /\ e[t] = Inserted(d, t, row)
      /\ e.sequence = [d.sequence EXCEPT ![t] = d.sequence[t] + 1]
      /\ \A u \in TableName \ {t} : e[u] = d[u]
  <2>1. e.sequence = [d.sequence EXCEPT ![t] = d.sequence[t] + 1]
    BY InsertLooks
  <2> QED
    BY <2>1, InsertTables
<1>2. d.sequence \in [TableName -> Nat]
  BY DEF Database
<1>3. DOMAIN d[t] \subseteq Int
  <2>1. DOMAIN d[t] \subseteq Id(t)
    BY TableIff, TableOf
  <2> QED
    BY <2>1, LimitAssumption DEF Id
<1>6. DOMAIN e[t] = DOMAIN d[t] \cup {d.sequence[t] + 1}
  BY <1>1 DEF Inserted, NextId
<1> HIDE DEF e
<1>4. ASSUME NEW i \in DOMAIN e[t]
      PROVE  i <= e.sequence[t]
  BY <1>1, <1>2, <1>3, <1>6 DEF IdsHandedOut
<1>5. ASSUME NEW u \in TableName \ {t}, NEW i \in DOMAIN e[u]
      PROVE  i <= e.sequence[u]
  BY <1>1, <1>2 DEF IdsHandedOut
<1> QED
  BY <1>4, <1>5 DEF IdsHandedOut, e

LEMMA UpdateKeepsIds ==
  ASSUME NEW d \in Database, NEW t \in TableName, NEW row \in Rows(t), NEW id, IdsHandedOut(d)
  PROVE  IdsHandedOut(Update(d, t, id, row))
<1> DEFINE e == Update(d, t, id, row)
<1>1. /\ e[t] = [i \in DOMAIN d[t] |-> IF i = id THEN row ELSE d[t][i]]
      /\ e.sequence = d.sequence
      /\ \A u \in TableName \ {t} : e[u] = d[u]
  BY UpdateLooks
<1>2. \A u \in TableName : DOMAIN e[u] = DOMAIN d[u]
  BY <1>1
<1> HIDE DEF e
<1> QED
  BY <1>1, <1>2 DEF IdsHandedOut, e

LEMMA DeleteKeepsIds ==
  ASSUME NEW d \in Database, NEW t \in TableName, NEW id, IdsHandedOut(d)
  PROVE  IdsHandedOut(Delete(d, t, id))
<1> DEFINE e == Delete(d, t, id)
<1>1. /\ e[t] = [i \in DOMAIN d[t] \ {id} |-> d[t][i]]
      /\ e.sequence = d.sequence
      /\ \A u \in TableName \ {t} : e[u] = d[u]
  BY DeleteLooks
<1>2. \A u \in TableName : DOMAIN e[u] \subseteq DOMAIN d[u]
  BY <1>1
<1> HIDE DEF e
<1> QED
  BY <1>1, <1>2 DEF IdsHandedOut, e

LEMMA OneTyped ==
  ASSUME NEW ids, 1 \in ids, NEW Row, NEW row \in Row
  PROVE  One(row) \in Table(ids, Row) /\ DOMAIN One(row) = {1}
BY TableIff DEF One

LEMMA InitTyped == Init => TypeOK
<1> SUFFICES ASSUME Init
             PROVE  TypeOK
  OBVIOUS
<1>1. \A t \in TableName : RowLimit[t] \in Nat /\ RowLimit[t] >= 1
  BY LimitAssumption
<1>2. RowLimit["Role"] >= 2 /\ "user" \in Names /\ "admin" \in Names /\ MaxFaults \in Nat
  BY <1>1, LimitAssumption, NamesAssumption DEF TableName
<1>3. (\A t \in TableName : 1 \in Id(t)) /\ 2 \in Id("Role")
  BY <1>1, <1>2 DEF Id, TableName
<1>4. ASSUME NEW t \in TableName
      PROVE  db[t] \in Table(Id(t), Rows(t)) /\ \A i \in DOMAIN db[t] : i <= db.sequence[t]
  <2>1. CASE t = "Role"
    <3>1. db[t] = [i \in {1, 2} |-> IF i = 1 THEN "user" ELSE "admin"]
      BY <2>1 DEF Init
    <3>2. db[t] \in Table(Id(t), Rows(t))
      BY <2>1, <3>1, <1>2, <1>3, TableIff DEF Rows
    <3> QED
      BY <2>1, <3>1, <3>2 DEF Init, TableName
  <2>2. ASSUME t # "Role", NEW row \in Rows(t), db[t] = One(row)
        PROVE  db[t] \in Table(Id(t), Rows(t)) /\ \A i \in DOMAIN db[t] : i <= db.sequence[t]
    BY <2>2, <1>3, OneTyped DEF Init
  <2>3. CASE t = "User"
    <3>1. [username |-> "admin", roleId |-> 1] \in Rows(t)
      BY <2>3, <1>2, <1>3 DEF Rows, TableName
    <3> QED
      BY <2>2, <2>3, <3>1 DEF Init
  <2>4. CASE t = "SaleOrder"
    <3>1. [userId |-> 1, contactId |-> 1, employeeId |-> 1] \in Rows(t)
      BY <2>4, <1>3 DEF Rows, TableName
    <3> QED
      BY <2>2, <2>4, <3>1 DEF Init
  <2>5. CASE t = "SalesOrderRecord"
    <3>1. [orderId |-> 1, productTypeId |-> 1] \in Rows(t)
      BY <2>5, <1>3 DEF Rows, TableName
    <3> QED
      BY <2>2, <2>5, <3>1 DEF Init
  <2>6. CASE t \in {"Contact", "Employee", "Supplier", "ProductType"}
    <3>1. "row" \in Rows(t)
      BY <2>6 DEF Rows, Plain
    <3> QED
      BY <2>2, <2>6, <3>1 DEF Init
  <2> QED
    BY <2>1, <2>3, <2>4, <2>5, <2>6 DEF TableName
<1>5. db.sequence \in [TableName -> Nat]
  BY DEF Init
<1>6. db \in Database
  BY <1>4, <1>5 DEF Init, Database, TableName, Rows, RoleTable, UserTable, ContactTable,
         EmployeeTable, SupplierTable, SaleOrderTable, SalesOrderRecordTable
<1>7. task \in Task /\ faults \in 0 .. MaxFaults /\ renamed \subseteq Id("Role")
  BY <1>2 DEF Init, Task
<1> QED
  BY <1>4, <1>6, <1>7 DEF TypeOK

LEMMA TypesKept == TypeOK /\ [Next]_vars => TypeOK'
<1> SUFFICES ASSUME TypeOK, [Next]_vars
             PROVE  TypeOK'
  OBVIOUS
<1> USE DEF TypeOK
<1>1. ASSUME NEW t \in TableName, NEW row \in Rows(t), InsertStep(t, row)
      PROVE  TypeOK'
  <2>1. db' \in Database
    BY <1>1, InsertLooks DEF InsertStep
  <2>2. IdsHandedOut(db')
    BY <1>1, InsertKeepsIds DEF InsertStep, IdsHandedOut
  <2> QED
    BY <1>1, <2>1, <2>2 DEF InsertStep, IdsHandedOut
<1>2. ASSUME NEW t \in TableName, NEW row \in Rows(t), NEW id \in Id(t), UpdateStep(t, id, row)
      PROVE  TypeOK'
  <2>1. db' \in Database
    BY <1>2, UpdateLooks DEF UpdateStep
  <2>2. IdsHandedOut(db')
    BY <1>2, UpdateKeepsIds DEF UpdateStep, IdsHandedOut
  <2>3. renamed' \subseteq Id("Role")
    BY <1>2 DEF UpdateStep
  <2> QED
    BY <1>2, <2>1, <2>2, <2>3 DEF UpdateStep, IdsHandedOut
<1>3. ASSUME NEW t \in TableName, NEW id \in Id(t), DeleteStep(t, id)
      PROVE  TypeOK'
  <2>1. db' \in Database
    BY <1>3, DeleteLooks DEF DeleteStep
  <2>2. IdsHandedOut(db')
    BY <1>3, DeleteKeepsIds DEF DeleteStep, IdsHandedOut
  <2>3. task' \in Task
    BY <1>3 DEF DeleteStep, Task, Idle
  <2> QED
    BY <1>3, <2>1, <2>2, <2>3 DEF DeleteStep, IdsHandedOut
<1>4. ASSUME TaskStep
      PROVE  TypeOK'
  <2>1. task' \in Task
    BY <1>4 DEF TaskStep, DeleteOrder, Task, RecordsOf, Database, SalesOrderRecordTable, Table
  <2>2. faults' \in 0 .. MaxFaults
    BY <1>4, LimitAssumption DEF TaskStep, Fault
  <2> QED
    BY <1>4, <2>1, <2>2 DEF TaskStep
<1> QED
  BY <1>1, <1>2, <1>3, <1>4, Steps

\* Every table holds rows of its type and only ids it handed out.
THEOREM OfficeTypeCorrect == Spec => []TypeOK
<1>1. Init => TypeOK
  BY InitTyped
<1>2. TypeOK /\ [Next]_vars => TypeOK'
  BY TypesKept
<1> QED
  BY <1>1, <1>2, PTL DEF Spec

-----------------------------------------------------------------------------
(* References.                                                              *)

LEMMA ReferencesKept ==
  ASSUME TypeOK, References(db), [Next]_vars
  PROVE  References(db')
<1>1. ASSUME NEW t \in TableName, NEW row \in Rows(t), InsertStep(t, row)
      PROVE  References(db')
  BY <1>1, InsertKeepsReferences DEF InsertStep, TypeOK
<1>2. ASSUME NEW t \in TableName, NEW row \in Rows(t), NEW id \in Id(t), UpdateStep(t, id, row)
      PROVE  References(db')
  BY <1>2, UpdateKeepsReferences DEF UpdateStep, TypeOK
<1>3. ASSUME NEW t \in TableName, NEW id \in Id(t), DeleteStep(t, id)
      PROVE  References(db')
  BY <1>3, DeleteKeepsReferences DEF DeleteStep, TypeOK
<1>4. ASSUME TaskStep
      PROVE  References(db')
  BY <1>4 DEF TaskStep
<1> QED
  BY <1>1, <1>2, <1>3, <1>4, Steps

\* No row refers to a row that is gone.
THEOREM OfficeReferences == Spec => []ReferencesHold
<1>1. ReferencesHold <=> References(db)
  BY DEF References, ReferencesHold, PartiesExist
<1>2. ReferencesHold' <=> References(db')
  BY DEF References, ReferencesHold, PartiesExist
<1>3. Init => TypeOK /\ ReferencesHold
  BY <1>1, InitTyped DEF Init, References, One, TableName
<1>4. TypeOK /\ ReferencesHold /\ [Next]_vars => TypeOK' /\ ReferencesHold'
  BY <1>1, <1>2, TypesKept, ReferencesKept
<1> QED
  BY <1>3, <1>4, PTL DEF Spec

-----------------------------------------------------------------------------
(* Names.                                                                   *)

LEMMA NamesKept ==
  ASSUME TypeOK, OneAccountPerName, TwinRolesAreRenamed, [Next]_vars
  PROVE  OneAccountPerName' /\ TwinRolesAreRenamed'
<1> USE DEF OneAccountPerName, TwinRolesAreRenamed
<1>1. ASSUME NEW t \in TableName, NEW row \in Rows(t), InsertStep(t, row)
      PROVE  OneAccountPerName' /\ TwinRolesAreRenamed'
  <2>1. /\ db'[t] = Inserted(db, t, row)
        /\ \A u \in TableName \ {t} : db'[u] = db[u]
    <3>1. db \in Database /\ db.sequence[t] < RowLimit[t] /\ db' = Insert(db, t, row)
      BY <1>1 DEF InsertStep, TypeOK
    <3> QED
      BY <3>1, InsertTables
  <2>2. \A i \in DOMAIN db'[t] :
          \/ i = NextId(db, t) /\ db'[t][i] = row
          \/ i \in DOMAIN db[t] /\ db'[t][i] = db[t][i]
    BY <2>1 DEF Inserted
  <2>3. CASE t = "User"
    BY <1>1, <2>1, <2>2, <2>3 DEF InsertStep, Accounts, TableName
  <2>4. CASE t = "Role"
    BY <1>1, <2>1, <2>2, <2>4 DEF InsertStep, TableName
  <2>5. CASE t \notin {"User", "Role"}
    BY <1>1, <2>1, <2>5 DEF InsertStep, TableName
  <2> QED
    BY <2>3, <2>4, <2>5
<1>2. ASSUME NEW t \in TableName, NEW row \in Rows(t), NEW id \in Id(t), UpdateStep(t, id, row)
      PROVE  OneAccountPerName' /\ TwinRolesAreRenamed'
  <2>1. /\ db'[t] = [i \in DOMAIN db[t] |-> IF i = id THEN row ELSE db[t][i]]
        /\ \A u \in TableName \ {t} : db'[u] = db[u]
    BY <1>2, UpdateLooks DEF UpdateStep, TypeOK
  <2>2. CASE t = "User"
    BY <1>2, <2>1, <2>2 DEF UpdateStep, UsernameFree, TableName
  <2>3. CASE t = "Role"
    BY <1>2, <2>1, <2>3 DEF UpdateStep, TableName
  <2>4. CASE t \notin {"User", "Role"}
    BY <1>2, <2>1, <2>4 DEF UpdateStep, TableName
  <2> QED
    BY <2>2, <2>3, <2>4
<1>3. ASSUME NEW t \in TableName, NEW id \in Id(t), DeleteStep(t, id)
      PROVE  OneAccountPerName' /\ TwinRolesAreRenamed'
  <2>1. /\ db'[t] = [i \in DOMAIN db[t] \ {id} |-> db[t][i]]
        /\ \A u \in TableName \ {t} : db'[u] = db[u]
    BY <1>3, DeleteLooks DEF DeleteStep, TypeOK
  <2>2. \A u \in TableName : /\ DOMAIN db'[u] \subseteq DOMAIN db[u]
                             /\ \A i \in DOMAIN db'[u] : db'[u][i] = db[u][i]
    BY <2>1
  <2> QED
    BY <1>3, <2>2 DEF DeleteStep, TableName
<1>4. ASSUME TaskStep
      PROVE  OneAccountPerName' /\ TwinRolesAreRenamed'
  BY <1>4 DEF TaskStep
<1> QED
  BY <1>1, <1>2, <1>3, <1>4, Steps

LEMMA OfficeNames == Spec => [](OneAccountPerName /\ TwinRolesAreRenamed)
<1>1. Init => TypeOK /\ OneAccountPerName /\ TwinRolesAreRenamed
  BY InitTyped DEF Init, One, OneAccountPerName, TwinRolesAreRenamed
<1>2. /\ TypeOK /\ OneAccountPerName /\ TwinRolesAreRenamed /\ [Next]_vars
      => TypeOK' /\ OneAccountPerName' /\ TwinRolesAreRenamed'
  BY TypesKept, NamesKept
<1> QED
  BY <1>1, <1>2, PTL DEF Spec

\* loginUser never finds two accounts of a name.
THEOREM OfficeAccounts == Spec => []OneAccountPerName
BY OfficeNames, PTL

\* Of two roles of one name, one got it from updateRole.
THEOREM OfficeRoles == Spec => []TwinRolesAreRenamed
BY OfficeNames, PTL

-----------------------------------------------------------------------------
(* Deletion of an order, statement by statement.                            *)

LEMMA DeletionKept ==
  ASSUME TypeOK, HalfDeletedIsWhole, [Next]_vars
  PROVE  HalfDeletedIsWhole'
<1> USE DEF HalfDeletedIsWhole
<1>1. ASSUME NEW t \in TableName, NEW row \in Rows(t), InsertStep(t, row)
      PROVE  HalfDeletedIsWhole'
  BY <1>1 DEF InsertStep, Idle
<1>2. ASSUME NEW t \in TableName, NEW row \in Rows(t), NEW id \in Id(t), UpdateStep(t, id, row)
      PROVE  HalfDeletedIsWhole'
  BY <1>2 DEF UpdateStep, Idle
<1>3. ASSUME NEW t \in TableName, NEW id \in Id(t), DeleteStep(t, id)
      PROVE  HalfDeletedIsWhole'
  <2>1. CASE task' = Idle
    BY <2>1 DEF Idle
  <2>2. CASE /\ t = "SalesOrderRecord"
             /\ task.op = "deleteOrder" /\ id \in task.records
             /\ task' = [task EXCEPT !.records = @ \ {id}]
    <3>1. /\ db'["SalesOrderRecord"]
               = [i \in DOMAIN db["SalesOrderRecord"] \ {id} |-> db["SalesOrderRecord"][i]]
          /\ db'["SaleOrder"] = db["SaleOrder"]
      <4>1. db \in Database /\ db' = Delete(db, t, id)
        BY <1>3 DEF DeleteStep, TypeOK
      <4>2. /\ db'[t] = [i \in DOMAIN db[t] \ {id} |-> db[t][i]]
            /\ \A u \in TableName \ {t} : db'[u] = db[u]
        BY <4>1, DeleteLooks
      <4> QED
        BY <2>2, <4>2 DEF TableName
    <3>2. task \in Task
      BY DEF TypeOK
    <3>3. task'.order = task.order /\ task'.records = task.records \ {id}
      BY <2>2, <3>2 DEF Task, Idle
    <3>4. RecordsOf(db', task.order) = RecordsOf(db, task.order) \ {id}
      BY <3>1 DEF RecordsOf
    <3> QED
      BY <2>2, <3>1, <3>3, <3>4
  <2> QED
    BY <1>3, <2>1, <2>2 DEF DeleteStep
<1>4. ASSUME TaskStep
      PROVE  HalfDeletedIsWhole'
  <2>1. CASE UNCHANGED task
    BY <1>4, <2>1 DEF TaskStep, RecordsOf
  <2>2. CASE \E o \in Id("SaleOrder") : DeleteOrder(o)
    BY <2>2 DEF DeleteOrder, RecordsOf
  <2>3. CASE task' = Idle
    BY <2>3 DEF Idle
  <2> QED
    BY <1>4, <2>1, <2>2, <2>3 DEF TaskStep
<1> QED
  BY <1>1, <1>2, <1>3, <1>4, Steps

\* A deletion that stops leaves the order and exactly the lines it did not reach.
THEOREM OfficeHalfDeleted == Spec => []HalfDeletedIsWhole
<1>1. Init => TypeOK /\ HalfDeletedIsWhole
  BY InitTyped DEF Init, Idle, HalfDeletedIsWhole
<1>2. TypeOK /\ HalfDeletedIsWhole /\ [Next]_vars => TypeOK' /\ HalfDeletedIsWhole'
  BY TypesKept, DeletionKept
<1> QED
  BY <1>1, <1>2, PTL DEF Spec

-----------------------------------------------------------------------------
(* What the liveness of a deletion rests on.                                *)

LEMMA RequestsAreIdle ==
  ASSUME Request
  PROVE  task = Idle /\ UNCHANGED faults
<1>1. CASE SalesRequest \/ ReadRequest
  BY <1>1 DEF SalesRequest, AddOrder, EditOrder, DeleteOrder, AddOrderRecord, EditOrderRecord,
              DeleteOrderRecord, ReadRequest, vars
<1>2. CASE UsersRequest
  BY <1>2 DEF UsersRequest, AddRole, UpdateRole, AddUser, EditUser, DeleteUser, DeleteRole
<1>3. CASE ManagementRequest
  BY <1>3 DEF ManagementRequest, Contacts, Suppliers, Employees, ProductTypes,
              AddRow, EditRow, DeleteRow
<1> QED
  BY <1>1, <1>2, <1>3 DEF Request

LEMMA RecordsAreFinite ==
  ASSUME TypeOK, task # Idle
  PROVE  /\ task.op = "deleteOrder"
         /\ IsFiniteSet(task.records) /\ Cardinality(task.records) \in Nat
<1>1. task.op = "deleteOrder" /\ task.records \subseteq Id("SalesOrderRecord")
  BY DEF TypeOK, Task
<1>2. RowLimit["SalesOrderRecord"] \in Int
  BY LimitAssumption DEF TableName
<1>3. IsFiniteSet(Id("SalesOrderRecord"))
  BY <1>2, FS_Interval DEF Id
<1> QED
  BY <1>1, <1>3, FS_Subset, FS_CardinalityType

LEMMA NextRecordTask ==
  ASSUME TypeOK, NEW r, DeleteNextRecord(r)
  PROVE  /\ task # Idle /\ task' # Idle /\ task'.op = "deleteOrder"
         /\ r \in task.records /\ task'.records = task.records \ {r}
<1>1. /\ task.op = "deleteOrder" /\ r \in task.records
      /\ task' = [task EXCEPT !.records = @ \ {r}]
  BY DEF DeleteNextRecord
<1>2. task \in [op : {"deleteOrder"}, order : Id("SaleOrder"),
                records : SUBSET Id("SalesOrderRecord")]
  BY <1>1 DEF TypeOK, Task, Idle
<1>3. task'.op = "deleteOrder" /\ task'.records = task.records \ {r}
  BY <1>1, <1>2
<1> QED
  BY <1>1, <1>3 DEF Idle

\* The last statement of a deletion is never stopped by a foreign key.
THEOREM OfficeWayStaysClear == Spec => []NothingStandsInTheWay
<1>1. HalfDeletedIsWhole => NothingStandsInTheWay
  BY DEF HalfDeletedIsWhole, NothingStandsInTheWay, RecordsOf, Referenced
<1> QED
  BY <1>1, OfficeHalfDeleted, PTL

LEMMA StepDescends ==
  ASSUME TypeOK, SalesStep
  PROVE  StatementsLeft' \in Nat /\ StatementsLeft \in Nat /\ StatementsLeft' < StatementsLeft
<1>1. ASSUME NEW r, DeleteNextRecord(r)
      PROVE  StatementsLeft' \in Nat /\ StatementsLeft \in Nat /\ StatementsLeft' < StatementsLeft
  <2>1. /\ task # Idle /\ task'.op = "deleteOrder"
        /\ r \in task.records /\ task'.records = task.records \ {r}
    BY <1>1, NextRecordTask
  <2>2. /\ task.op = "deleteOrder"
        /\ IsFiniteSet(task.records) /\ Cardinality(task.records) \in Nat
    BY <2>1, RecordsAreFinite
  <2>3. /\ Cardinality(task.records \ {r}) = Cardinality(task.records) - 1
        /\ Cardinality(task.records \ {r}) \in Nat
    BY <2>1, <2>2, FS_RemoveElement, FS_CardinalityType
  <2>4. /\ StatementsLeft = Cardinality(task.records) + 1
        /\ StatementsLeft' = Cardinality(task.records \ {r}) + 1
    BY <2>1, <2>2 DEF StatementsLeft
  <2> QED
    BY <2>2, <2>3, <2>4
<1>2. CASE DeleteOrderRow
  <2>1. task # Idle /\ task' = Idle
    BY <1>2 DEF DeleteOrderRow, Idle
  <2>2. task.op = "deleteOrder" /\ Cardinality(task.records) \in Nat
    BY <2>1, RecordsAreFinite
  <2>3. StatementsLeft = Cardinality(task.records) + 1 /\ StatementsLeft' = 0
    BY <2>1, <2>2 DEF StatementsLeft, Idle
  <2> QED
    BY <2>2, <2>3
<1> QED
  BY <1>1, <1>2 DEF SalesStep

\* Each statement of deleteOrder brings it nearer to its end: no deletion goes
\* on for ever.
THEOREM OfficeHandlersEnd == Spec => HandlersDescend
<1>1. TypeOK /\ [Next]_vars
        => [/\ SalesStep => StatementsLeft' < StatementsLeft
            /\ task # Idle => StatementsLeft' <= StatementsLeft]_vars
  <2> SUFFICES ASSUME TypeOK, Next
               PROVE  /\ SalesStep => StatementsLeft' < StatementsLeft
                      /\ task # Idle => StatementsLeft' <= StatementsLeft
    OBVIOUS
  <2>1. CASE SalesStep
    BY <2>1, StepDescends
  <2>2. CASE ~SalesStep /\ StatementFails
    <3>1. task # Idle /\ task' = Idle
      BY <2>2 DEF StatementFails
    <3>2. task.op = "deleteOrder" /\ Cardinality(task.records) \in Nat
      BY <3>1, RecordsAreFinite
    <3>3. StatementsLeft = Cardinality(task.records) + 1 /\ StatementsLeft' = 0
      BY <3>1, <3>2 DEF StatementsLeft, Idle
    <3> QED
      BY <2>2, <3>2, <3>3
  <2>3. CASE ~SalesStep /\ Request
    BY <2>3, RequestsAreIdle
  <2> QED
    BY <2>1, <2>2, <2>3 DEF Next
<1> QED
  BY <1>1, OfficeTypeCorrect, PTL DEF Spec, HandlersDescend

\* deleteOrder that returns without a fault leaves nothing of the order.
THEOREM OfficeHandlersFinish == Spec => FinishedMeansDone
<1>1. TypeOK /\ [Next]_vars
        => [task # Idle /\ task' = Idle /\ faults' = faults =>
              task.order \notin DOMAIN db'.SaleOrder /\ RecordsOf(db', task.order) = {}]_vars
  <2> SUFFICES ASSUME TypeOK, Next, task # Idle, task' = Idle, faults' = faults
               PROVE  task.order \notin DOMAIN db'.SaleOrder /\ RecordsOf(db', task.order) = {}
    OBVIOUS
  <2>1. ~Request
    BY RequestsAreIdle
  <2>2. ~StatementFails
    BY DEF StatementFails, Fault, TypeOK
  <2>3. DeleteOrderRow
    BY <2>1, <2>2, NextRecordTask DEF Next, SalesStep
  <2>4. /\ db'["SaleOrder"] = [i \in DOMAIN db["SaleOrder"] \ {task.order} |-> db["SaleOrder"][i]]
        /\ db'["SalesOrderRecord"] = db["SalesOrderRecord"]
    <3>1. db \in Database /\ db' = Delete(db, "SaleOrder", task.order)
      BY <2>3 DEF DeleteOrderRow, TypeOK
    <3>2. {"SaleOrder", "SalesOrderRecord"} \subseteq TableName
      BY DEF TableName
    <3>3. /\ db'["SaleOrder"]
               = [i \in DOMAIN db["SaleOrder"] \ {task.order} |-> db["SaleOrder"][i]]
          /\ \A u \in TableName \ {"SaleOrder"} : db'[u] = db[u]
      BY <3>1, <3>2, DeleteLooks
    <3> QED
      BY <3>2, <3>3
  <2>5. RecordsOf(db, task.order) = {}
    BY <2>3 DEF DeleteOrderRow, Referenced, RecordsOf
  <2> QED
    BY <2>4, <2>5 DEF RecordsOf
<1> QED
  BY <1>1, OfficeTypeCorrect, PTL DEF Spec, FinishedMeansDone
=============================================================================

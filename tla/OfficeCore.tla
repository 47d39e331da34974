----------------------------- MODULE OfficeCore -----------------------------
(***************************************************************************)
(* Sales, accounts and management over one database: what the single       *)
(* server thread does with the requests of all three modules.              *)
(***************************************************************************)
EXTENDS SalesModule, UsersModule, ManagementModule, FiniteSets

\* A GET, or a request that is refused, changes nothing.
ReadRequest == task = Idle /\ UNCHANGED vars

Request == SalesRequest \/ UsersRequest \/ ManagementRequest \/ ReadRequest

Next == Request \/ SalesStep \/ StatementFails

\* The server thread goes on with the handler it is in.
Spec == Init /\ [][Next]_vars /\ WF_vars(SalesStep)

-----------------------------------------------------------------------------
Task ==
  {Idle} \cup [op : {"deleteOrder"}, order : Id("SaleOrder"),
               records : SUBSET Id("SalesOrderRecord")]

\* Every table holds rows of its type, and every id it holds was handed out.
TypeOK ==
  /\ db \in Database
  /\ \A t \in TableName : \A i \in DOMAIN db[t] : i <= db.sequence[t]
  /\ task \in Task
  /\ faults \in 0 .. MaxFaults
  /\ renamed \subseteq Id("Role")

\* No row refers to a row that is gone, whatever the order of deletions,
\* moves of lines and half-done deletions of orders (the checks of the modules
\* together with the foreign keys of scripts/create_db.sql).
ReferencesHold ==
  /\ \A u \in DOMAIN db.User : db.User[u].roleId \in DOMAIN db.Role
  /\ \A o \in DOMAIN db.SaleOrder :
       PartiesExist(db.SaleOrder[o].userId, db.SaleOrder[o].contactId,
                    db.SaleOrder[o].employeeId)
  /\ \A r \in DOMAIN db.SalesOrderRecord :
       /\ db.SalesOrderRecord[r].orderId \in DOMAIN db.SaleOrder
       /\ db.SalesOrderRecord[r].productTypeId \in DOMAIN db.ProductType

\* loginUser takes the first account of a name: there is never a second one,
\* although editUser does not look for it.
OneAccountPerName ==
  \A u, v \in DOMAIN db.User : db.User[u].username = db.User[v].username => u = v

\* addRole refuses a name that is taken and updateRole does not: of two roles
\* of one name, one got it from updateRole.
TwinRolesAreRenamed ==
  \A r, s \in DOMAIN db.Role :
    r # s /\ db.Role[r] = db.Role[s] => {r, s} \cap renamed # {}

\* A deletion that stops half-way can be asked for again: until its last
\* statement the order is there, and the lines it still has are exactly those
\* the handler has left to delete.
HalfDeletedIsWhole ==
  task.op = "deleteOrder" =>
    /\ task.order \in DOMAIN db.SaleOrder
    /\ RecordsOf(db, task.order) = task.records

-----------------------------------------------------------------------------
(* What the liveness of a deletion rests on.                                *)

\* How many statements the handler under way issues yet.
StatementsLeft == IF task.op = "deleteOrder" THEN Cardinality(task.records) + 1 ELSE 0

\* Each statement of deleteOrder brings it nearer to its end, and nothing but
\* another request puts statements before the thread.
HandlersDescend ==
  [][/\ SalesStep => StatementsLeft' < StatementsLeft
     /\ task # Idle => StatementsLeft' <= StatementsLeft]_vars

\* The foreign key of the lines never stops the last statement of a deletion:
\* when the handler has no line left to delete, the order has none.
NothingStandsInTheWay ==
  task.op = "deleteOrder" /\ task.records = {} => ~Referenced(db, "SaleOrder", task.order)

\* deleteOrder that returns without a fault leaves neither the order nor one of
\* its lines, those that were moved to it by an edit included.
FinishedMeansDone ==
  [][task # Idle /\ task' = Idle /\ faults' = faults =>
       task.order \notin DOMAIN db'.SaleOrder /\ RecordsOf(db', task.order) = {}]_vars

\* Once nothing fails any more, an order whose deletion has begun goes away with
\* all its lines.
DeletionCompletes ==
  \A o \in Id("SaleOrder") :
    task.op = "deleteOrder" /\ task.order = o /\ faults = MaxFaults
      ~> o \notin DOMAIN db.SaleOrder
=============================================================================

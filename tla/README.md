# A TLA+ model of SageStore

SageStore is an ERP for small shops: a C++ server that keeps users, suppliers,
employees, products, stocks, purchase and sales orders in one SQLite file and
answers JSON requests over HTTP, and a Qt client. This directory models both,
checks the models with TLC on small instances, and proves every safety property of
the runs that pass with TLAPS for all sizes. Seven specifications look at the system
from different sides:

* `ErpCore`: purchase and inventory over the database, statement by statement;
* `OfficeCore`: accounts, roles, contacts, people and sales, the same way;
* `DatabaseStartup`: server processes coming up on one database file;
* `RequestServer`: a request from the connection to the audit entry and back;
* `Workspace`: the tabs of a client, the lists they show, and the network;
* `OrderDesk`: the sales and the purchase view in full;
* `ClientSession`: the login, registration and message dialogs.

Paths below are relative to `src/`.

## The system

| Component | State | Operations | Talks to |
|---|---|---|---|
| HTTP server (`_server/src/Network`) | one `io_context` on one thread; a transaction object per connection | accept, read, handle, write, close | hands each request to BusinessLogic and gets one callback |
| Dispatch and audit log (`BusinessLogic.cpp`, `LogsModule.cpp`) | the module table | `executeTask`: run the module, add an audit entry, call back | modules, LogRepository |
| Purchase (`PurchaseModule.cpp`) | none of its own: `PurchaseOrder`, `PurchaseOrderRecord`, `Inventory` rows | add, edit, delete orders and lines; receive an order | repositories, `runInTransaction` |
| Inventory (`InventoryModule.cpp`) | `ProductType`, `Inventory`, `SuppliersProductInfo` | add, edit, delete each | repositories |
| Sales (`SalesModule.cpp`) | `SaleOrder`, `SalesOrderRecord` | add, edit, delete | repositories |
| Users, roles, contacts, suppliers, employees (`UsersModule.cpp`, `ManagementModule.cpp`) | their tables | login, add, edit, delete | repositories |
| Analytics (`AnalyticsModule.cpp`) | none | sums over tables | repositories |
| Database (`SqliteDatabaseManager.cpp`, `RepositoryManager.cpp`, repositories, `scripts/create_db.sql`) | the file, the connection, an open transaction | open and create the schema, one statement, begin, commit, rollback | SQLite |
| Client network (`_client/src/Network`) | requests in flight | send, reply, error | HTTP server, models |
| Client models and view models (`_client/src/Ui/Models`, `ViewModels`) | copies of the server's lists, the order whose lines were fetched last | fetch, replace, fetch again after a confirmed change | network layer, views |
| Client views (`_client/src/Ui/Views`, `MainWindow.cpp`) | open tabs, tables, selections, the invoice preview | open, close, select, filter, edit a cell, press a button | view models |
| Client dialogs (`_client/src/Ui/Dialogs`) | the dialogs shown, `m_isAuthenticated` | log in, register, cancel, messages | network layer |

What is hard here: a receipt writes several rows in a transaction after reading
and checking them outside it; a delete of an order is several statements with no
transaction; any statement can fail and the process can die between any two; a
`ROLLBACK` can itself fail and is then ignored, which leaves the connection in a
transaction for all later requests; several rules (unique product codes, frozen
received orders, one stock for a product) are kept only by look-ups in the
handlers; clients repeat requests whose answer they lost; two processes may be
started on one missing file. On the client every reply comes back when it likes,
failed requests are told to nobody, and a list that arrives is put where the user
looks now, not where he looked when it was asked for. What is not hard: the
server runs one handler at a time to its end, so two handlers never interleave.
`PROJECT.json` lists each hazard with its line and the properties aimed at it.

What makes each component correct:

* purchase: a receipt is atomic, adds exactly its lines' quantities, happens at
  most once and freezes the order; deletes and receipts that start, finish;
* inventory: one stock for a product, one product for a code, no quantity out of
  range;
* database: no dangling reference, no statement left in an open transaction when
  the client has its answer;
* dispatch: requests done one at a time and once, one answer per request, an audit entry for each mutation;
* sales, users: references hold, names unique where the handlers say so, a
  deletion broken off half-way can be asked for again;
* start-up: the script's effects happen once, and a success means all that was
  read of the script;
* HTTP: every request that was read is answered or its connection closed;
* client: at rest, what is shown is what the server has, of the order that is
  selected, and what was entered last is what the server keeps, or there is a
  cause that can be named; the client comes to rest; nobody gets past the dialogs
  without a login or is left without one.

## The modules

| Module | Models | How |
|---|---|---|
| `ErpStore` | schema, SQLite connection, server thread | `db` is the record of the tables (a table is a function from ids to rows) as the connection reads it; `journal` is the copy SQLite plays back while a transaction is open; `task` holds the locals of a handler that issues more than one writing statement; `faults` counts failures. `Insert`, `Update`, `Delete` are the repositories' statements; `Begin`, `Commit`, `Rollback` those of `runInTransaction` |
| `PurchaseModule` | `PurchaseModule.cpp` | one action per writing handler; `deleteOrder` and `receiveOrder` have an action for the reading part and one for each statement |
| `InventoryModule` | `InventoryModule.cpp` | one action per writing handler |
| `People` | deletions of users, suppliers, employees | one action each, decided by the foreign keys |
| `ErpCore` | the modules above on one database in one thread | `Next`, the invariants, the properties, the refinement mapping |
| `StockLedger` | what a receipt promises, abstractly | orders that ask, stocks that hold, a set of received orders; `Receive` is one step |
| `RequestServer` | `HttpServer`, `HttpTransaction`, `BusinessLogic::executeTask`, `LogsModule` | `link` is how far each connection has come, `ready` the completion handlers the `io_context` has queued, `thread` where `executeTask` is; `log` is the `Log` table by the connection that made the entry, `accounts` the ids of `User` |
| `RequestQueue` | what `RequestServer` promises, abstractly | requests that wait, each done in one step and at most once, and what the client is told |
| `DatabaseStartup` | `SqliteDatabaseManager::open`, `initializeDatabaseSchema`, `main`, the acceptor | `pc` is how far each process has come, `existed` its `fileExists`, `read` how many statements of `scripts/create_db.sql` its stream gave it, `step` the one it is at; `applied` counts how often each statement has taken effect on the file, `opened` is what `open()` returned and nobody looks at |
| `SchemaFile` | what `DatabaseStartup` promises, abstractly | candidates that found no file, and the one author that writes the script, one effect at a time |
| `OfficeStore` | the other tables and their repositories | as `ErpStore`, without a transaction: `NextId` is AUTOINCREMENT, `Referenced` the foreign keys, `UsernameFree` the `UNIQUE` of user names |
| `SalesModule`, `UsersModule`, `ManagementModule` | the files of these names | one action per writing handler, `deleteOrder` with one for each statement |
| `OfficeCore` | the three on one database in one thread | `Next`, the invariants, the properties |
| `ApiContract` | `ApiManager`'s requests and list handlers, the views' validators, the checks of the server modules | per list the fields sent with what may be in them, the fields asked for, answered and read; `Forms` is whether a request can be ill-formed |
| `Workspace` | `MainWindow`'s tabs, all models, view models and views, `NetworkService` | a list is its version on the server; `known` is what each model holds, `drawn` what each view's widgets were filled with; `requests` and `answers` are bags, taken from in any order; `blame` records why a list may be out of date |
| `OrderDesk` | `SalesView`, `PurchaseView` with their models and view models | `selected`, `context`, `last`, `current`, `shown`, `preview` are the members of these names (`m_recordsContext`, `m_lastOrderId`, `m_currentRecords`, `m_invoicePreview`); `store` is what the server has, `seen` and `behind` tell whether the newest list of lines has arrived |
| `ClientSession` | `DialogManager`, `LoginDialog`, `RegistrationDialog`, `loginUser`, `addUser` | `modal` is the stack of dialogs, `authenticated` is `m_isAuthenticated`, `accounts` the stored text of each password |
| `MC...` | small instances | constants and bounds for the `.cfg` files |
| `ErpCoreProofs` | types, and that every statement keeps a consistent database consistent | proofs |
| `ErpInvariantProofs` | the inductive invariant, what follows from it, finality of receipts, the refinement, and that handlers end | proofs |
| `RequestServerProofs` | the invariant of the request server and what follows from it, the refinement, and that requests get their turn | proofs |
| `OfficeProofs` | types, references, names, half-done deletions and finished ones | proofs |
| `DatabaseStartupProofs` | types, one initialiser, what a successful open() has applied, stuck schemas, the refinement, and that starts end | proofs |
| `WorkspaceProofs` | what is shown is current or under way, and well-formed requests | proofs |
| `OrderDeskProofs` | whose lines are shown, and what becomes of edits | proofs |
| `ClientSessionProofs` | the dialogs, and who may add accounts | proofs |

A handler that throws before its first writing statement changes nothing and is
no step. A handler with one writing statement is one step, because the thread
does nothing else in between and SQLite commits the statement by itself. A
handler with several is `task` plus a step for each, since a failure or a crash
can come between them; requests need `task = Idle`.

`Committed` is the database file as a restart would find it: `db`, or while a
transaction is open the copy in the journal. Most properties are stated of both
`db` and `Committed`.

Left out of rows: dates, prices, contact data, and names no guard reads.
`ErpCore` and `OfficeCore` are two views of one database: each leaves out the
foreign keys that come in from the other's tables (sales lines name product
types, sales orders name users and employees; purchase orders and stocks do too).
They only refuse more deletions than the model does. `UNIQUE (productTypeId)` on
`Inventory` is left out on purpose: `OneStockPerProduct` shows that the handlers
never run into it.

`RequestServer` and `ErpCore` look at the same thread at two levels. In
`RequestServer` what a business module does is only a number of statements that
commit one by one (a receipt's transaction is one, a login none) and perhaps an
account it deletes; in `ErpCore` it is what the statements do, and the requests
of `ErpCore` are those a module is called with. That a `ROLLBACK` may fail and
leave later statements uncommitted belongs to `ErpCore` (run `catalogue`);
`RequestServer` takes it that a statement that returned is in the file. A path
that is not the API's gets no answer: its transaction object, and with it the
connection, just goes. An exception that leaves a handler ends `io_context::run`
and the process; `Crash` stands for it and for every other end of the process,
followed by a start.

The three client models look at one client and at a server that is only as good as
its answers. `Workspace` is all tabs and lists, and knows of a list nothing but its
version; a list of order lines is left to `OrderDesk`, which is one user at one
view with the rows themselves. There the server's guards on orders and lines are
those `ErpCore` and `OfficeCore` have statement by statement, taken as one step.
Messages are a bag in `Workspace`, since two requests for one list are
alike, and numbered in `OrderDesk`, where it matters which is the older. In all
three a request may be lost before the server sees it, and an answer after the
server has done what was asked: `onNetworkReply` logs a reply that is an error and
no slot is called (`NetworkService.cpp:104`). An error the server answers to a
request for a list ends the same way for what is shown: `handleResponse` calls no
handler of lists (`ApiManager.cpp:600`).
`ClientSession` sees of the server only accounts. `ApiContract` has no state:
`Workspace` asks it whether a request can be ill-formed and whether a list that
arrives has the columns its handler looks for.

A line's quantity may be 0 in the model although the handlers ask for a positive
number: the check refuses the text `0` only, so `00` is stored.

## The runs

| Run | Instance | Shows |
|---|---|---|
| `receipts` | two orders, three lines, two products, quantities up to 3, one fault | `TypeOK`, `ReceivedOrdersHaveLines`, `PlanIsFresh`, `IdleMeansCommitted`, `ReceivedIsFinal`, `ImplementsLedger`, `DeleteCompletes`, `ReceiptCompletes` |
| `catalogue` | three product ids for two codes, two stocks, an offer, an order with a line, one account, supplier and employee, two faults, `ROLLBACK` may fail | `ReferentialIntegrity`, `OneStockPerProduct`, `ProductCodesUnique`, and `ImplementsLedger` although later requests run in a transaction nobody will commit |
| `server` | two connections with any requests of up to two statements, one account, two faults | `NothingIsLost`, `AuditFollowsChange`, `AnswersAreTrue`, `LogNamesAccounts`, `MissingEntriesHaveCauses`, `ImplementsQueue`, `RequestsEnd` |
| `server_audit` | two connections, no fault | `MutationsAreAudited` fails: see below |
| `office` | the script's rows and two more, three roles for two names, one fault | `ReferencesHold`, `HalfDeletedIsWhole`, `OneAccountPerName`, `TwinRolesAreRenamed`, `FinishedMeansDone`, `DeletionCompletes` |
| `startup` | three processes, two ports, a script of two tables and a row read whole, as far as its first statement, or not at all, four starts, one fault | `AppliedOnce`, `OpenedMeansApplied`, `NeverMended`, `ImplementsSchemaFile`, `StartsEnd` |
| `startup_ready` | one process, no fault | `ReadyMeansDatabase` fails: see below |
| `workspace` | each tab alone or with the one it shares a model or a list with, up to two changes, two openings, one loss | `QuietMeansCurrent`, `OnlyImportsAreMalformed`, `SettlesDown` |
| `desk` | both views, two orders with a line each, room for one more of each, four acts of the user and losses together, two losses at most | `LinesAreOfTheSelection`, `InvoiceIsOfItsOrder`, `EditsSurvive`, `LinesKeepTheirOrder` |
| `invoice_export` | the sales view, four acts | `ExportsAreOfTheirOrder` fails: see below |
| `session` | two names, two passwords, four requests | `Gate`, `OnlyTheLoggedInAddAccounts`, `CancelKeepsTheSession` |
| `registration` | the same with two requests | `RegistrationsAreAccepted` fails: see below |

Bounds. `RowLimit` is the number of ids each table may hand out (AUTOINCREMENT
never reuses one), so behaviours are finite; when all rows are deleted and no id
is left the model stops, which is why deadlock is not checked in `ErpCore`. The
smallest interesting receipt has two lines of one product and one of another, with
one stock to update and one to create; two orders are needed for lines that move
and for a second receipt of the same stock. `MaxQuantity` stands for the largest
signed 64-bit integer: with lines of 2 and a maximum of 3 two lines of a product
overflow and one does not. One fault reaches every point where a handler can
stop; in `catalogue` there are two, a statement of a receipt and its `ROLLBACK`, and
then a second receipt fails at `BEGIN` or the process dies. One order is enough
there: whatever comes after the failed `ROLLBACK`, the same receipt again included,
runs in the open transaction. One row of each kind of people is enough because a
reference is to be kept or to dangle; who it is to no handler compares.
A connection carries one request; two of them are one that makes an entry and one
that removes it or the account. Two statements are the fewest that can break off
half way, two faults are one for a request and one for its audit entry or a crash.
The account any request names or deletes is the same one, which is the case that
can go wrong; a second account adds nothing that `NoAccount` does not. When all
connections are used up the model stops: again no deadlock is checked.

`office` has room for a third role so that `addRole` can meet a name that
`updateRole` has doubled; `FewAdded` bounds what all requests together add to two rows
of accounts and sales (two orders and a line, or one order with two lines, a new
account with a new role) or one of the tables sales refer to. `ReadRequest` is a
step at any time, so nothing stops and deadlock is checked. `startup` has a third
process to come up on what two others left; two tables and a row are the shortest
script in which a statement can fail because an earlier one has run and because
one has not; four starts are one more than processes, for a restart.
`Found` has a script read as empty, one cut off after the first table, and the whole
one; a file cut off inside a statement is one whose next statement fails, which a
fault does. `PortsUpToNames` keeps, of the behaviours that differ only in the names
of processes and ports, one: no step changes a port or compares it with anything but
another, so two processes on one port and the third on that or the other are all
there is.

`workspace` has one behaviour for each set of tabs in `SmallDesks`, since tabs
share nothing but models and lists: tabs over one model, or with a list in common
that one of them writes, are together. Two changes are one of this client and one
of another, or two that overtake each other; two openings are a tab that is closed
and opened again. The tabs of four and five lists make do with one of each: the
lists a tab only reads behave like one another. The four acts of `desk` are enough
for two selections or two edits of a line, with an act before and one after that
makes the difference, and for one or two of the four to be something that gets lost; `MaxPending`
lets an act happen while one message is on its way, in `invoice_export` two. The four requests of `session` are logins
and new accounts in any mixture, enough for answers to overtake each other. These clients stop when the bounds are used up: no
deadlock is checked.

Fairness. `FairSpec` of `ErpCore` is weakly fair in `PurchaseStep`, the steps of a
handler under way: the thread does not leave a handler before it returns, and a
statement returns or throws. `Spec` of `OfficeCore` is weakly fair in `SalesStep`
for the same reason. In `RequestServer` it is weakly fair in `ServerStep`, since
the `io_context` runs its queue in order and each handler to its end, and in
`Deliver`, since the system sends what was handed to it as long as the client
stays. In `DatabaseStartup` a process that was started goes on (`ComeUp`), and in
`Workspace` a request that was sent is served and its answer delivered or given
up (`Network`), since Qt finishes every reply. Clients are not obliged to send
anything, and faults never have to happen.

Each property of a passing run has a mutant in the module of the definition it
changes, marked `Mutant:`; the property fails when the mutant replaces that
definition.

What `server_audit` shows. `docs/Implementation_Status.md:52` says that
mutations write audit entries. `executeTask` catches whatever the insert of the
entry throws, warns, and answers as if nothing had happened
(`BusinessLogic.cpp:86`). No failure of the machine is needed: the entry takes
its `userId` from the request's dataset, and if that account does not exist any
more, in the trace because the request itself deleted it, the foreign key of
`Log` refuses the insert. `MissingEntriesHaveCauses` says that this, a fault,
and a deleted entry are the only ways to be without one.

What `startup_ready` shows. `docs/Implementation_Status.md:51` calls
`system/health` a readiness probe. `RepositoryManager` drops what `open()`
returns (`RepositoryManager.cpp:24`), so a first start that does not find its
script, or finds one it cannot read, binds its port and answers `ready` without a
table. In the second case `open()` itself succeeds, since only `exists()` is asked
(`SqliteDatabaseManager.cpp:180`) and running no statement is no error;
`OpenedMeansApplied` says what its success does mean. `NeverMended` says
what happens to a file such a start leaves: no later one runs the script again,
because the file is there.

What `invoice_export` shows. `docs/ERP_Testing_Strategy.md:46` says that the
export test checks the file against live data. `onExportInvoice`
(`SalesView.cpp:672`) writes what the preview holds under the name of the
selected invoice, and any list of lines that arrives while invoices are the table
turned to last goes under that heading. In the trace the lines of an order
selected before arrive after those of the invoice; nothing comes to correct it.
`InvoiceIsOfItsOrder` says that as long as the user stays with invoices there is no
other way than that the newest list of lines was overtaken, as here, or lost, or that
a confirmed change was told to nobody.

What `registration` shows. `testRegistrationRoutine`
(`_client/tests/unit/DialogManagerTest.cpp:38`) expects one `userAdded` after the
registration dialog was shown, and `docs/Requirements_Baseline.md:79` keeps
registration as bootstrap behaviour. In the test the server is a mock that answers
every account with `userAdded`. The real server does not: the dialog sends the role
`0` (`RegistrationDialog.cpp:127`), the script has no such row, no request can make
one, and `addUser` fails at the foreign key. The other side of the same line is
`OnlyTheLoggedInAddAccounts`: nothing else keeps somebody who has not logged in from
adding an account, since the server asks nobody who they are. Which of the two is
meant the documents leave open.

What the client's properties except. `QuietMeansCurrent` holds of a list unless
its `blame` names a cause: an answer that was lost or overtaken, a change by
another client, a change of another list (a receipt changes stocks, the log and
the metrics, and refreshes orders only), or a refused edit, whose cell keeps the
refused value. `LinesAreOfTheSelection` and `InvoiceIsOfItsOrder` hold unless the
lines on the screen are `behind`: the newest list asked for was lost or came before
an older one, or a confirmation was lost after which the model would have asked. A
list that fails leaves the order selected before on the screen and in the preview,
and where the reply itself was an error nothing tells the user. `EditsSurvive` holds
of a line unless it is in `undone`: an edit that was refused, lost on its way to the
server, overtaken by an older one, or, which no user would expect, not sent because it equals the lines that arrived last while another is on its way, or
taken back by an edit of the other cell after an old list was filled in. The
causes are recorded by the actions where they arise, so that each of them says
something about the code.

## The proofs

The theorems about the core assume only the three named assumptions of `ErpStore`
(`PeopleAssumption`, `BoundAssumption`, `CatalogueAssumption`) and hold for any
number of rows, products, people, faults, and any largest quantity. Those about
the request server assume `NoAccountAssumption` and
`ServerBoundAssumption` and hold for any sets of connections and accounts. Those
about the office assume `NamesAssumption` and `LimitAssumption`, those about
start-up `ScriptAssumption` and `StartBoundAssumption`: any names, table sizes,
processes, ports and lengths of the script, and any part of it that may be read. Those about the client assume
`DesksAssumption`, `OrderDeskAssumption` and `ClientSessionAssumption`: any desk, any orders and
lines, any names and passwords, and any number of acts, messages and losses.

| Theorem | States |
|---|---|
| `TypeCorrect` | `Spec => []TypeOK` |
| `Invariance` | `Spec => []IInv` |
| `ReferencesHold` | `Spec => []ReferentialIntegrity` |
| `StocksStayUnique` | `Spec => []OneStockPerProduct` |
| `CodesStayUnique` | `Spec => []ProductCodesUnique` |
| `ReceivedKeepLines` | `Spec => []ReceivedOrdersHaveLines` |
| `PlansStayFresh` | `Spec => []PlanIsFresh` |
| `NoTransactionLeftOpen` | `Spec => []IdleMeansCommitted`, if `ROLLBACK` never fails |
| `FinalReceipts` | `Spec => ReceivedIsFinal` |
| `LedgerImplemented` | `Spec => ImplementsLedger` |
| `WayStaysClear` | `Spec => []NothingStandsInTheWay` |
| `HandlersComeToAnEnd` | `Spec => HandlersDescend` |
| `HandlersFinish` | `Spec => FinishedMeansDone`, if `ROLLBACK` never fails |
| `ServerInvariance` | `Spec => []ServerInv` |
| `ServerTypeCorrect` | `Spec => []TypeOK` |
| `EntriesFollowChanges` | `Spec => []AuditFollowsChange` |
| `AnswersStayTrue` | `Spec => []AnswersAreTrue` |
| `EntriesNameAccounts` | `Spec => []LogNamesAccounts` |
| `MissingEntriesStayExplained` | `Spec => []MissingEntriesHaveCauses` |
| `QueueImplemented` | `Spec => ImplementsQueue` |
| `NoRequestIsLost` | `Spec => []NothingIsLost` |
| `WorkComesToAnEnd` | `Spec => WorkDescends` |
| `NobodyIsOvertaken` | `Spec => QueueMovesUp` |
| `OfficeTypeCorrect` | `Spec => []TypeOK` |
| `OfficeReferences` | `Spec => []ReferencesHold` |
| `OfficeAccounts` | `Spec => []OneAccountPerName` |
| `OfficeRoles` | `Spec => []TwinRolesAreRenamed` |
| `OfficeHalfDeleted` | `Spec => []HalfDeletedIsWhole` |
| `OfficeWayStaysClear` | `Spec => []NothingStandsInTheWay` |
| `OfficeHandlersEnd` | `Spec => HandlersDescend` |
| `OfficeHandlersFinish` | `Spec => FinishedMeansDone` |
| `StartupTypeCorrect` | `Spec => []TypeOK` |
| `StartupAppliesOnce` | `Spec => []AppliedOnce` |
| `StartupOpensWithWhatItRead` | `Spec => []OpenedMeansApplied` |
| `StartupNeverMended` | `Spec => NeverMended` |
| `SchemaFileImplemented` | `Spec => ImplementsSchemaFile` |
| `StartsComeToAnEnd` | `Spec => StartsDescend` |
| `WorkspaceTypeCorrect` | `Spec => []TypeOK` |
| `AQuietClientIsCurrent` | `Spec => []QuietMeansCurrent` |
| `ViewsSendWellFormed` | `Spec => []OnlyImportsAreMalformed` |
| `OrderDeskTypeCorrect` | `Spec => []TypeOK` |
| `TheTableShowsItsOrder` | `Spec => []LinesAreOfTheSelection` |
| `ThePreviewIsTheSelection` | `Spec => []InvoiceIsOfItsOrder` |
| `EditsReachTheServer` | `Spec => []EditsSurvive` |
| `LinesStayAtHome` | `Spec => LinesKeepTheirOrder` |
| `SessionTypeCorrect` | `Spec => []TypeOK` |
| `TheGateStaysShut` | `Spec => []Gate` |
| `AccountsNeedALogin` | `Spec => OnlyTheLoggedInAddAccounts` |
| `SessionsAreKept` | `Spec => CancelKeepsTheSession` |

The argument. None of the safety properties is inductive by itself: that a
commit leaves received orders with lines, say, depends on what a handler read
several statements earlier. `IInv` adds, to `TypeOK` and to `Consistent` of both
`db` and the file,

* `IdsWereHandedOut`, so that an insert never overwrites a row;
* `DeleteUnderWay` and `ReceiptUnderWay`: what the running handler found when it
  started is still so;
* `PlanIsFresh`: what a receipt planned still follows from the file;
* `WrittenSoFar`: how far an open receipt is ahead of the file, stock by stock.

`ErpCoreProofs` has one lemma per kind of statement: under the guard its
handler checks, it keeps a database `Consistent`. `ErpInvariantProofs` uses them
action by action. For the ledger it first shows that only a statement outside a
transaction and `COMMIT` change the file (`FileChanges`); statements then are
`AmendOrders` or `EditAnyStock` of the ledger, and `COMMIT` is `Receive`, by
`WrittenSoFar` and `PlanIsFresh`. The sums of quantities stay opaque in the
proofs: that both sides add the same lines is enough. Without the assumption of
`NoTransactionLeftOpen` the statement is false, by `RollbackFails`; the other
theorems need no such assumption.

`ServerInv` adds four facts to the server's three safety properties. The queue
holds a connection once, and only while it waits there (`QueueHoldsTheQueued`):
without it a request might be handled twice. What has not been begun with has
left no trace (`UnhandledLeavesNoTrace`, `ReadMeansRequest`). And
`WorkUnderWay` ties the place the thread has reached in `executeTask` to what is
written: at the audit entry everything is, at the callback the outcome says
whether it is. `AuditFollowsChange` needs it because an entry that is there
before the answer must belong to a request that will be answered "ok".
`RequestServerProofs` has one lemma per action.

`MissingEntriesHaveCauses` counts: connections without their entry on one side,
faults and deletions of entries on the other. `EntriesAreAccountedFor` splits the
left side so that it can be carried through the steps. `Unexplained` is what has
missed its entry for good; a mutation whose entry `executeTask` has yet to write is
not in it. A step adds at most one member, and does so only where it adds a fault
or a removal: an entry is taken away by the request that deletes it, which joins
`Removals` in the same step, and a failing insert spends a fault. An account
that goes takes members away and brings none back, since its id is not given out
again. `Begun` is finite because one connection is opened at a
time, and all sets counted are part of it.

`ImplementsQueue` maps the request in hand to the front of the queue and hides what
it has written until it is answered (`Waiting`, `Effect`). All steps of `executeTask`
are then stutters (`WorkIsUnseen`); `Callback` is `Do`, and `WorkUnderWay` says how
far; a crash is `Stop`, with whatever was written. `HandleRequest` is a stutter too,
or `Do` where it drops a path that is not the API's. What `Ask` demands, that nobody
asks twice, is in `ReadMeansRequest`.

The office. No handler of its modules opens a transaction, so every step is one
`INSERT`, `UPDATE` or `DELETE`, or moves only `task` (`Steps`). Types and references
are then shown for the three kinds of statement and not for each of the
eighteen actions: a row that is inserted or updated refers to rows its handler has
just looked up, one that is deleted is not `Referenced`. `HalfDeletedIsWhole`
needs no strengthening beyond types: while a deletion is under way no other
request is served, and its own steps take a line from the table and from `task`
together. `TwinRolesAreRenamed` is inductive because `addRole` looks names up,
`OneAccountPerName` because the schema does where `editUser` does not.

Start-up. `SafeInv` adds to the two safety properties that one process at most
is past the first statement, and the file holds exactly what that one has run
(`OneInitialiser`), and that only a process that found no file is in the script.
The first `CREATE TABLE` is what makes it inductive: it fails for everybody but
the first, so that whoever gets to the second statement is alone
(`NobodyElse`), and a process that died there has left the first table behind.
`OpenedMeansApplied` is inductive with it: who returns after the last statement it
read has run all before it, who read nothing has nothing to show, and no step takes
an effect away.
`StartupNeverMended` follows since a stuck file means that everybody on the way
found it there, and whoever finds it there does not run the script.

`ImplementsSchemaFile` maps the processes that found no file and have not left
`open()` to the candidates, and the one past the first statement to the author
(`Candidates`, `Authors`). A statement that takes effect is `Write`: `NextStatement`
says which one it is, `NobodyElse` that there is no other author. The last statement an
author read is its last `Write`, be it that of the script or not. Every other way out of
`open()`, and every end of a process in it, is `GiveUp`; binding and what a
process does that found the file are stutters, the latter because the file stays
(`FileStays`).

The tabs. `QuietMeansCurrent` speaks of a client at rest, and no step preserves
it: the one that delivers the last answer makes it true or false. `DeskInv` says
what is so all the time: each list a view draws has a cause in `blame`, or is shown
as the server has it, or something is `Underway` that will bring it
(`CurrentOrUnderway`). That is a request for it, a change of it, whose confirmation
makes the model ask, or an answer with the version the server has now. The steps
then pass this on: sending makes a request, serving turns it into an answer with
the current version, a change on the server that overtakes that answer leaves the
confirmation behind, and delivering the answer shows it. `DrawnIsKnown` is needed
where a view is filled from its model and not from an answer, `AnswersAreOfThePast`
to see that an answer that replaces a current list by another one is blamed as
overtaken, and `ChangesComeFromTables` to know that a confirmation finds a model
that listens. Of a bag only its set of members matters to the proof, so a few lemmas
about `(+)` and `(-)` are all there is about counting. That the views send what the
handlers ask for, and that each list has the columns its handler looks for, is proved
from the table of `ApiContract`, list by list.

The orders and their lines. `OrderDeskInv` is of the same kind. `LinesCome` says that
while a table of lines is in use (`context`), a confirmed change is on its way, or
the newest request for lines is, for the order watched (`LinesAreAskedFor`), or its
answer with what the server has now (`LinesAreOnTheirWay`), or it has arrived.
Newest is meant literally: every other list of lines in flight has a smaller
number, so that whatever comes later is behind it. When the newest is lost, or a
confirmation that would have asked for one, the lines are `behind`, and stay so until
a list arrives that was asked for later than all this (`seen`).
`OneOrderIsWatched` makes the
order asked for after a change (`m_lastOrderId`) the one that is selected: nothing
in the code compares the two, and it is true because a selection sets both.
After an edit the screen is ahead of the server, and what closes the gap is the
edit under way: hence the disjunct `BeingEdited` in `LinesAreShown`, and in
`EditsAreKept` the claim that the newest edit of a line carries what is wanted of
it. `LinesHaveAHome` is what an edit needs that is built from an old row on the
screen: wherever a row of a line is held, in a table, an answer or an edit, it names
the same order, because a line does not change its order and its id is not used
again; `LinesKeepTheirOrder` follows from it. There is one lemma per
action of the user, two or three for each of the network's, and one each for a
request and an answer that is lost.

The dialogs. `SessionInv` adds to `Gate` that a login implies a running client and
that a request with a role in it comes from somebody who is logged in
(`RolesComeFromTheLoggedIn`): the request is what connects the moment `UsersView`
sends it with the moment the server adds the account. That no dialog is twice in
the stack, which `TypeOK` says, is what makes hiding one mean that it is gone.

What liveness rests on. That something happens at last is out of the prover's
reach, since it needs `ENABLED` and an induction over time. Its safe part is
proved for every instance, so that nothing is left but "a step that can be taken
is taken", which is the fairness the code justifies:

* nothing stands in the way of the next step. For a delete, the order has no line
  left when its row is to go; for a receipt, each insert still finds an id
  (`NothingStandsInTheWay`). These are not inductive: `WayIsClear` says that all
  lines the order has are among those the handler has yet to delete, and that
  there is an id for each row the receipt has yet to create (`StillToCreate`),
  and `OpenOnlyInReceipt` that a transaction is open only in a receipt or after
  a failed `ROLLBACK`. A request that was read is where
  the thread will find it (`NothingIsLost`);
* each step comes nearer to the end, and what others do does not undo that:
  `HandlersDescend` counts the statements a handler has left, `WorkDescends` the
  steps of `executeTask`, `StartsDescend` those of a process that comes up.
  `QueueMovesUp` does the same for a request that waits: the queue is in the order
  of reads, so that its place is a number no other client can raise;
* the end is the one that was asked for: `FinishedMeansDone`.

`FinishedMeansDone` of `ErpCore` needs a `ROLLBACK` that does not fail: after one
that did, the next receipt's `BEGIN` fails without a fault of its own. That is also
why the property is checked with TLC for the office, where there are no
transactions, and only proved for the core. The facts of this paragraph that are in
no run, and the type invariants other than that of the core, were checked with TLC
on the instances of the runs before they were proved.

Only model-checked: liveness itself (`DeleteCompletes`, `ReceiptCompletes`,
`RequestsEnd`, `DeletionCompletes`, `StartsEnd`, `SettlesDown`). For `SettlesDown`
the measure is a bag of messages: each step of the network takes one out and
puts in at most one of a lower kind (change, confirmation, request for a list,
list), and the theory of sums over bags it needs is an induction over data. The
four properties that fail have their counterexample.

## Not modelled

* What analytics computes: its handlers read tables and write nothing. That the
  metrics depend on orders, products and stocks, and are not refreshed when these
  change, is in `Workspace`.
* The digits of numbers: `ApiContract` keeps the classes the checks tell apart.
* Generated entity structures, which have no behaviour.
* Reading arguments and environment, which happens once and leaves constants.
* In the client: layout, formatting, shortcuts, localization, the settings and
  status views, the filters of tabs other than orders, table helpers other than
  the restore of an unchanged cell. Several view models show the same error
  message; a second one for the same answer is no step. Closing the main window
  is the end of a client and logging out does not exist.
* The debug CLI, which drives the widgets for tests, and the inspector.


----------------------------- MODULE Workspace -----------------------------
(***************************************************************************)
(* The tabs of the client's main window, the models behind them and the    *)
(* lists they hold. Requests go out side by side, the server takes them in *)
(* any order and their answers come back in any order or not at all; an    *)
(* answer reaches every model that listens to its list. A list is          *)
(* represented by its version on the server.                               *)
(***************************************************************************)
EXTENDS ApiContract, Integers, Bags

CONSTANTS
  Desks   \* the sets of tabs a user works with, one of them per behaviour, each with
          \* bounds: changes sent by this client and others, tabs opened, messages lost

View == {"users", "roles", "products", "stocks", "offers", "management",
         "purchase", "sales", "logs", "analytics"}

\* UsersView and RolesView are two tabs over one model; the others have their own.
Model == (View \ {"users", "roles"}) \cup {"accounts"}
ModelOf(v) == IF v \in {"users", "roles"} THEN "accounts" ELSE v

ASSUME DesksAssumption ==
  Desks \subseteq [tabs : SUBSET View, changes : Nat, openings : Nat, lost : Nat]

VARIABLES
  desk,      \* the tabs in use, with the bounds
  version,   \* the server's version of each list
  known,     \* the version each model holds, Nothing before the first answer
  drawn,     \* the version each view's widgets were filled with
  created,   \* the views that exist; a closed tab's view stays
  open,      \* the tabs in the tab widget
  edited,    \* the lists whose table shows an edit not yet confirmed by a fill
  requests,  \* on their way to the server
  answers,   \* on their way back
  blame,     \* why a list may be out of date
  spent      \* changes, openings and losses so far

vars == <<desk, version, known, drawn, created, open, edited, requests, answers, blame, spent>>

Nothing == 0

-----------------------------------------------------------------------------
\* The models: the lists they take from ApiManager's signals, and those they
\* fetch again when a change of theirs is confirmed.
AccountsModel == [listens |-> {"users", "roles"}, refetches |-> {"users", "roles"}]
ProductTypesModel == [listens |-> {"products"}, refetches |-> {"products"}]
StocksModel == [listens |-> {"stocks", "products"}, refetches |-> {"stocks"}]
SupplierCatalogModel ==
  [listens |-> {"offers", "suppliers", "products"}, refetches |-> {"offers"}]
ManagementModel ==
  [listens |-> {"contacts", "suppliers", "employees"},
   refetches |-> {"contacts", "suppliers", "employees"}]
PurchaseModel ==
  [listens |-> {"purchaseOrders", "users", "suppliers", "employees", "products"},
   refetches |-> {"purchaseOrders"}]
SalesModel ==
  [listens |-> {"salesOrders", "users", "contacts", "employees", "products"},
   refetches |-> {"salesOrders"}]
LogsModel == [listens |-> {"logs", "users"}, refetches |-> {}]
AnalyticsModel ==
  [listens |-> {"salesAnalytics", "inventoryAnalytics", "salesOrders", "purchaseOrders"},
   refetches |-> {}]

TheModel(m) ==
  CASE m = "accounts" -> AccountsModel
    [] m = "products" -> ProductTypesModel
    [] m = "stocks" -> StocksModel
    [] m = "offers" -> SupplierCatalogModel
    [] m = "management" -> ManagementModel
    [] m = "purchase" -> PurchaseModel
    [] m = "sales" -> SalesModel
    [] m = "logs" -> LogsModel
    [] m = "analytics" -> AnalyticsModel

Listens(m) == TheModel(m).listens

\* The lists a view fills its tables from: rows of one, labels from the others.
UsersDraws == {"users", "roles"}
RolesDraws == {"roles"}
ProductTypesDraws == {"products"}
StocksDraws == {"stocks", "products"}
SupplierCatalogDraws == {"offers", "suppliers", "products"}
ManagementDraws == {"contacts", "suppliers", "employees"}
PurchaseDraws == {"purchaseOrders", "users", "suppliers", "employees", "products"}
SalesDraws == {"salesOrders", "users", "contacts", "employees", "products"}
LogsDraws == {"logs", "users"}
AnalyticsDraws == {"salesAnalytics", "inventoryAnalytics", "salesOrders", "purchaseOrders"}

Draws(v) ==
  CASE v = "users" -> UsersDraws
    [] v = "roles" -> RolesDraws
    [] v = "products" -> ProductTypesDraws
    [] v = "stocks" -> StocksDraws
    [] v = "offers" -> SupplierCatalogDraws
    [] v = "management" -> ManagementDraws
    [] v = "purchase" -> PurchaseDraws
    [] v = "sales" -> SalesDraws
    [] v = "logs" -> LogsDraws
    [] v = "analytics" -> AnalyticsDraws

\* What is drawn anew when list l arrives, as the view models pass it on.
UsersManagementRedraws(v, l) == IF v = "users" THEN UsersDraws ELSE {l} \cap RolesDraws
ProductTypesRedraws(l) == ProductTypesDraws
StocksRedraws(l) == StocksDraws
SupplierCatalogRedraws(l) == IF l = "offers" THEN SupplierCatalogDraws ELSE {}
ManagementRedraws(l) == {l}
PurchaseRedraws(l) == PurchaseDraws
SalesRedraws(l) == SalesDraws
LogsRedraws(l) == IF l = "logs" THEN LogsDraws ELSE {}
AnalyticsRedraws(l) == {l}

Redraws(v, l) ==
  IF l \notin Listens(ModelOf(v)) THEN {}
  ELSE CASE v \in {"users", "roles"} -> UsersManagementRedraws(v, l)
         [] v = "products" -> ProductTypesRedraws(l)
         [] v = "stocks" -> StocksRedraws(l)
         [] v = "offers" -> SupplierCatalogRedraws(l)
         [] v = "management" -> ManagementRedraws(l)
         [] v = "purchase" -> PurchaseRedraws(l)
         [] v = "sales" -> SalesRedraws(l)
         [] v = "logs" -> LogsRedraws(l)
         [] v = "analytics" -> AnalyticsRedraws(l)

\* The lists that matter to a desk.
Watched(tabs) == UNION {Listens(ModelOf(v)) : v \in tabs}

\* The lists whose rows a view's buttons and cells change, and the lists it must
\* have received before its Add button has something to fill a new row with.
UsersTable == [rows |-> {"users"}, needs |-> {"roles"}]
RolesTable == [rows |-> {"roles"}, needs |-> {}]
ProductTypesTable == [rows |-> {"products"}, needs |-> {}]
StocksTable == [rows |-> {"stocks"}, needs |-> {"products"}]
SupplierCatalogTable == [rows |-> {"offers"}, needs |-> {"suppliers", "products"}]
ManagementTables == [rows |-> {"contacts", "suppliers", "employees"}, needs |-> {}]
PurchaseTable == [rows |-> {"purchaseOrders"}, needs |-> {"users", "suppliers"}]
SalesTable == [rows |-> {"salesOrders"}, needs |-> {"users", "contacts", "employees"}]

Table(v) ==
  CASE v = "users" -> UsersTable
    [] v = "roles" -> RolesTable
    [] v = "products" -> ProductTypesTable
    [] v = "stocks" -> StocksTable
    [] v = "offers" -> SupplierCatalogTable
    [] v = "management" -> ManagementTables
    [] v = "purchase" -> PurchaseTable
    [] v = "sales" -> SalesTable
    [] OTHER -> [rows |-> {}, needs |-> {}]

\* The lists that change with list l on the server, beside l itself: a receipt
\* writes stocks, the log has an entry of every change, the metrics are computed.
Follows(l, op) ==
  {"logs"}
    \cup (IF op = "receipt" THEN {"stocks"} ELSE {})
    \cup (IF l \in {"salesOrders", "purchaseOrders"} THEN {"salesAnalytics"} ELSE {})
    \cup (IF l \in {"stocks", "products", "purchaseOrders"} THEN {"inventoryAnalytics"} ELSE {})

-----------------------------------------------------------------------------
Get(l) == [list |-> l, op |-> "get", form |-> TRUE]
Gets(ls) == SetToBag({Get(l) : l \in ls})
One(x) == SetToBag({x})

Quiet == requests = EmptyBag /\ answers = EmptyBag

Blame(ls, why) == [l \in DOMAIN blame |-> IF l \in ls THEN blame[l] \cup {why} ELSE blame[l]]
Spend(what) == [spent EXCEPT ![what] = @ + 1]

Init ==
  /\ desk \in Desks
  /\ version = [l \in Watched(desk.tabs) |-> 1]
  /\ known = [m \in {ModelOf(v) : v \in desk.tabs} |-> [l \in Listens(m) |-> Nothing]]
  /\ drawn = [v \in desk.tabs |-> [l \in Draws(v) |-> Nothing]]
  /\ created = {} /\ open = {} /\ edited = {}
  /\ requests = EmptyBag /\ answers = EmptyBag
  /\ blame = [l \in Watched(desk.tabs) |-> {}]
  /\ spent = [changes |-> 0, openings |-> 0, lost |-> 0]

\* What handleMainMenuAction fetches for a tab that was not in the tab widget.
Fetched(v) == Draws(v)

\* A menu entry: the view is made on first use, and its lists are fetched
\* whenever its tab was not there.
OpenTab(v) ==
  /\ v \in desk.tabs \ open
  /\ spent.openings < desk.openings
  /\ open' = open \cup {v}
  /\ created' = created \cup {v}
  /\ requests' = requests (+) Gets(Fetched(v))
  /\ spent' = Spend("openings")
  /\ UNCHANGED <<desk, version, known, drawn, edited, answers, blame>>

\* The tab's close button takes it out of the tab widget; view and model stay
\* and go on listening.
CloseTab(v) ==
  /\ v \in open
  /\ open' = open \ {v}
  /\ UNCHANGED <<desk, version, known, drawn, created, edited, requests, answers, blame, spent>>

Ops(v, l) ==
  {"create", "edit", "delete"} \cup (IF v = "purchase" THEN {"receipt"} ELSE {})
                               \cup (IF v = "offers" THEN {"import"} ELSE {})

Enabled(v, l, op) ==
  CASE op = "create" -> \A x \in Table(v).needs : known[ModelOf(v)][x] # Nothing
    [] op = "import" -> TRUE
    [] op = "receipt" -> drawn[v][l] # Nothing /\ known[ModelOf(v)]["employees"] # Nothing
    [] OTHER -> drawn[v][l] # Nothing

\* A button, or a cell whose editor was committed: the request is sent, and an
\* edited cell shows and remembers its new value at once.
Change(v, l, op) ==
  /\ v \in open
  /\ l \in Table(v).rows
  /\ Enabled(v, l, op)
  /\ spent.changes < desk.changes
  /\ \E form \in Forms(l, op) :
       requests' = requests (+) One([list |-> l, op |-> op, form |-> form])
  /\ edited' = IF op = "edit" THEN edited \cup {l} ELSE edited
  /\ spent' = Spend("changes")
  /\ UNCHANGED <<desk, version, known, drawn, created, open, answers, blame>>

\* The server answers a GET with what it has, and does or refuses a change.
Serve(r) ==
  /\ BagIn(r, requests)
  /\ requests' = requests (-) One(r)
  /\ \/ /\ r.op = "get"
        /\ answers' = answers (+) One([list |-> r.list, op |-> "get", done |-> TRUE,
                                       version |-> version[r.list]])
        /\ UNCHANGED <<version, blame>>
     \/ /\ r.op # "get" /\ r.form
        /\ version' = [l \in DOMAIN version |-> IF l \in {r.list} \cup Follows(r.list, r.op)
                                      THEN version[l] + 1 ELSE version[l]]
        /\ blame' = Blame(Follows(r.list, r.op), "follows")
        /\ answers' = answers (+) One([list |-> r.list, op |-> r.op, done |-> TRUE,
                                       version |-> Nothing])
     \/ /\ r.op # "get"
        /\ answers' = answers (+) One([list |-> r.list, op |-> r.op, done |-> FALSE,
                                       version |-> Nothing])
        /\ UNCHANGED <<version, blame>>
  /\ UNCHANGED <<desk, known, drawn, created, open, edited, spent>>

\* Another client's change.
ChangeElsewhere(l) ==
  /\ spent.changes < desk.changes
  /\ l \in DOMAIN version \ {"salesAnalytics", "inventoryAnalytics", "logs"}
  /\ version' = [x \in DOMAIN version |-> IF x \in {l} \cup Follows(l, "edit")
                                THEN version[x] + 1 ELSE version[x]]
  /\ blame' = Blame({l} \cup Follows(l, "edit"), "elsewhere")
  /\ spent' = Spend("changes")
  /\ UNCHANGED <<desk, known, drawn, created, open, edited, requests, answers>>

\* onNetworkReply logs a failed request and tells nobody.
Lose ==
  /\ spent.lost < desk.lost
  /\ \/ \E r \in BagToSet(requests) :
          /\ requests' = requests (-) One(r)
          /\ blame' = Blame({r.list}, "lost")
          /\ UNCHANGED answers
     \/ \E a \in BagToSet(answers) :
          /\ answers' = answers (-) One(a)
          /\ blame' = Blame({a.list}, "lost")
          /\ UNCHANGED requests
  /\ spent' = Spend("lost")
  /\ UNCHANGED <<desk, version, known, drawn, created, open, edited>>

\* Mutant: models that do not fetch after a deletion.
FetchedAfterWriting(l, op) ==
  IF op \in {"get", "delete"} THEN {}
  ELSE {l} \cap UNION {TheModel(ModelOf(v)).refetches : v \in created}

\* Mutant: models that fetch a list when it arrives.
FetchedAfterAnything(l, op) ==
  {l} \cap UNION {TheModel(ModelOf(v)).refetches : v \in created}

\* What the models fetch in their slots for an answer.
FetchedAfter(l, op) ==
  IF op = "get" THEN {}
  ELSE {l} \cap UNION {TheModel(ModelOf(v)).refetches : v \in created}

\* A list reaches every model that listens and the views that redraw for it.
DeliverList(a) ==
  /\ BagIn(a, answers)
  /\ a.op = "get"
  /\ answers' = answers (-) One(a)
  /\ IF Readable(a.list)
     THEN LET l == a.list
              hear == {m \in {ModelOf(v) : v \in created} : l \in Listens(m)}
              draw == {v \in created : Redraws(v, l) # {}}
          IN  /\ known' = [m \in DOMAIN known |->
                             IF m \in hear THEN [known[m] EXCEPT ![l] = a.version] ELSE known[m]]
              /\ drawn' = [v \in DOMAIN drawn |-> [x \in Draws(v) |->
                             IF v \in draw /\ x \in Redraws(v, l) THEN known'[ModelOf(v)][x]
                                                                  ELSE drawn[v][x]]]
              /\ edited' = {x \in edited : \A v \in draw : ~(x \in Table(v).rows \cap Redraws(v, l))}
              /\ blame' = IF a.version = version[l] THEN [blame EXCEPT ![l] = {}]
                          ELSE IF \E m \in hear : known[m][l] > a.version
                               THEN Blame({l}, "overtaken")
                          ELSE blame
     ELSE UNCHANGED <<known, drawn, edited, blame>>
  /\ requests' = requests (+) Gets(FetchedAfter(a.list, a.op))
  /\ UNCHANGED <<desk, version, created, open, spent>>

\* The answer to a change: the model it belongs to fetches its list again, or a
\* message shows the refusal and the edited cell keeps its value.
DeliverChange(a) ==
  /\ BagIn(a, answers)
  /\ a.op # "get"
  /\ answers' = answers (-) One(a)
  /\ IF a.done
     THEN requests' = requests (+) Gets(FetchedAfter(a.list, a.op)) /\ UNCHANGED blame
     ELSE blame' = Blame({a.list}, "refused") /\ UNCHANGED requests
  /\ UNCHANGED <<desk, version, known, drawn, created, open, edited, spent>>

User ==
  \E v \in desk.tabs :
    \/ OpenTab(v) \/ CloseTab(v)
    \/ \E l \in Table(v).rows, op \in {"create", "edit", "delete", "receipt", "import"} :
         op \in Ops(v, l) /\ Change(v, l, op)

Network ==
  \/ \E r \in BagToSet(requests) : Serve(r)
  \/ \E a \in BagToSet(answers) : DeliverList(a) \/ DeliverChange(a)

Next == User \/ Network \/ Lose \/ \E l \in List : ChangeElsewhere(l)

\* Requests that are sent are served and their answers arrive or are given up.
Spec == Init /\ [][Next]_vars /\ WF_vars(Network)

-----------------------------------------------------------------------------
\* The labels no arrival of their list renews: the names of suppliers and
\* products in the supplier catalogue, and of users in the log.
LateLabels == {<<"offers", "suppliers">>, <<"offers", "products">>, <<"logs", "users">>}

Shown(v, l) == IF <<v, l>> \in LateLabels THEN known[ModelOf(v)][l] ELSE drawn[v][l]

\* When nothing is on its way, every list an open tab shows is the server's
\* current one and no table shows an unconfirmed edit, unless an answer was lost
\* or overtaken, another client or a change of another list changed it, or the
\* server refused the edit.
QuietMeansCurrent ==
  Quiet =>
    \A v \in open : \A l \in Draws(v) :
      blame[l] = {} => Shown(v, l) = version[l] /\ l \notin edited

\* The views let only what the server finds well formed through; a file of
\* offers is sent as it is.
OnlyImportsAreMalformed ==
  \A r \in BagToSet(requests) : ~r.form => r.op = "import"

\* Confirmations fetch lists and lists fetch nothing: the client comes to rest.
SettlesDown == []<>Quiet

-----------------------------------------------------------------------------
\* The inductive invariant.

Op == {"get", "create", "edit", "delete", "receipt", "import"}
Request == [list : List, op : Op, form : BOOLEAN]
Answer == [list : List, op : Op, done : BOOLEAN, version : Nat]
Cause == {"follows", "elsewhere", "lost", "overtaken", "refused"}

\* What is on its way and what is held concerns the lists of the desk, and
\* nothing is spent beyond the bounds.
TypeOK ==
  /\ desk \in Desks
  /\ version \in [Watched(desk.tabs) -> Nat \ {Nothing}]
  /\ DOMAIN known = {ModelOf(v) : v \in desk.tabs}
  /\ \A m \in DOMAIN known : known[m] \in [Listens(m) -> Nat]
  /\ DOMAIN drawn = desk.tabs
  /\ \A v \in DOMAIN drawn : drawn[v] \in [Draws(v) -> Nat]
  /\ open \subseteq created /\ created \subseteq desk.tabs
  /\ edited \subseteq Watched(desk.tabs)
  /\ IsABag(requests) /\ BagToSet(requests) \subseteq Request
  /\ \A r \in BagToSet(requests) : r.list \in Watched(desk.tabs)
  /\ IsABag(answers) /\ BagToSet(answers) \subseteq Answer
  /\ \A a \in BagToSet(answers) : a.list \in Watched(desk.tabs)
  /\ blame \in [Watched(desk.tabs) -> SUBSET Cause]
  /\ spent \in [changes : Nat, openings : Nat, lost : Nat]
  /\ spent.changes <= desk.changes /\ spent.openings <= desk.openings
  /\ spent.lost <= desk.lost

\* A view holds what its model held when it was drawn last, and that is what
\* the model holds now, but for the labels that are not redrawn.
DrawnIsKnown ==
  \A v \in desk.tabs : \A l \in Draws(v) :
    \/ drawn[v][l] = Nothing
    \/ v \in created /\ (<<v, l>> \notin LateLabels => drawn[v][l] = known[ModelOf(v)][l])

AnswersAreOfThePast ==
  \A a \in BagToSet(answers) : a.op = "get" => a.version <= version[a.list]

HasTable(l) == \E v \in created : l \in Table(v).rows

\* What changes a list comes from a view with its table, and so does what an
\* edit left in it.
ChangesComeFromTables ==
  /\ \A r \in BagToSet(requests) : r.op # "get" => HasTable(r.list)
  /\ \A a \in BagToSet(answers) : a.op # "get" => HasTable(a.list)
  /\ \A l \in edited : HasTable(l)

\* Something is on its way that will bring the current list: a request for it,
\* the list itself, or a change, whose confirmation makes its model fetch it.
Underway(l) ==
  \/ \E r \in BagToSet(requests) : r.list = l
  \/ \E a \in BagToSet(answers) : a.list = l /\ (a.op = "get" => a.version = version[l])

CurrentOrUnderway ==
  \A v \in created : \A l \in Draws(v) :
    \/ blame[l] # {}
    \/ Shown(v, l) = version[l] /\ l \notin edited
    \/ Underway(l)

DeskInv ==
  /\ TypeOK
  /\ DrawnIsKnown
  /\ AnswersAreOfThePast
  /\ ChangesComeFromTables
  /\ CurrentOrUnderway
=============================================================================

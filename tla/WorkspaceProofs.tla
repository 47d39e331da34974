-------------------------- MODULE WorkspaceProofs --------------------------
(***************************************************************************)
(* Why a quiet client shows what the server has: proofs for any desks, any *)
(* number of changes, losses and tabs opened.                              *)
(***************************************************************************)
EXTENDS Workspace, TLAPS

-----------------------------------------------------------------------------
(* Bags of messages, of which only the members matter.                      *)

LEMMA MembersOfAUnion ==
  ASSUME NEW A, NEW B, IsABag(A), IsABag(B)
  PROVE  IsABag(A (+) B) /\ BagToSet(A (+) B) = BagToSet(A) \cup BagToSet(B)
BY DEF IsABag, BagToSet, (+)

LEMMA MembersOfOne ==
  ASSUME NEW x
  PROVE  IsABag(One(x)) /\ BagToSet(One(x)) = {x}
BY DEF IsABag, BagToSet, One, SetToBag

LEMMA MembersOfGets ==
  ASSUME NEW ls
  PROVE  IsABag(Gets(ls)) /\ BagToSet(Gets(ls)) = {Get(l) : l \in ls}
BY DEF IsABag, BagToSet, Gets, SetToBag

LEMMA EmptyHasNoMembers == IsABag(EmptyBag) /\ BagToSet(EmptyBag) = {}
BY DEF IsABag, BagToSet, EmptyBag, SetToBag

\* Another copy of a message that is taken may be left; every other message is.
LEMMA MembersWithoutOne ==
  ASSUME NEW A, IsABag(A), NEW x
  PROVE  /\ IsABag(A (-) One(x))
         /\ BagToSet(A (-) One(x)) \subseteq BagToSet(A)
         /\ BagToSet(A) \ {x} \subseteq BagToSet(A (-) One(x))
<1> DEFINE B == [e \in DOMAIN A |-> IF e \in DOMAIN One(x) THEN A[e] - One(x)[e] ELSE A[e]]
<1>1. DOMAIN One(x) = {x} /\ One(x) = [e \in {x} |-> 1]
  BY DEF One, SetToBag
<1>2. A (-) One(x) = [e \in {d \in DOMAIN B : B[d] > 0} |-> B[e]]
  BY DEF (-)
<1>3. \A e \in DOMAIN A : /\ A[e] \in Nat /\ A[e] > 0
                          /\ B[e] \in Int
                          /\ e # x => B[e] = A[e]
  BY <1>1 DEF IsABag
<1>4. DOMAIN B = DOMAIN A
  OBVIOUS
<1> HIDE DEF B
<1>5. DOMAIN (A (-) One(x)) = {d \in DOMAIN A : B[d] > 0}
  BY <1>2, <1>4
<1>6. \A e \in DOMAIN (A (-) One(x)) : (A (-) One(x))[e] = B[e]
  BY <1>2, <1>5, <1>4
<1>7. (A (-) One(x)) \in [DOMAIN (A (-) One(x)) -> {n \in Nat : n > 0}]
  BY <1>2, <1>3, <1>4, <1>5
<1> QED
  BY <1>3, <1>5, <1>7 DEF IsABag, BagToSet

-----------------------------------------------------------------------------
(* What the views and the models share.                                     *)

LEMMA ModelsListenForTheirViews ==
  ASSUME NEW v \in View
  PROVE  Draws(v) \subseteq Listens(ModelOf(v)) /\ Listens(ModelOf(v)) \subseteq List
<1> USE DEF View, Draws, Listens, TheModel, ModelOf, List
<1>1. CASE v = "users"
  BY <1>1 DEF UsersDraws, AccountsModel
<1>2. CASE v = "roles"
  BY <1>2 DEF RolesDraws, AccountsModel
<1>3. CASE v = "products"
  BY <1>3 DEF ProductTypesDraws, ProductTypesModel
<1>4. CASE v = "stocks"
  BY <1>4 DEF StocksDraws, StocksModel
<1>5. CASE v = "offers"
  BY <1>5 DEF SupplierCatalogDraws, SupplierCatalogModel
<1>6. CASE v = "management"
  BY <1>6 DEF ManagementDraws, ManagementModel
<1>7. CASE v = "purchase"
  BY <1>7 DEF PurchaseDraws, PurchaseModel
<1>8. CASE v = "sales"
  BY <1>8 DEF SalesDraws, SalesModel
<1>9. CASE v = "logs"
  BY <1>9 DEF LogsDraws, LogsModel
<1>10. CASE v = "analytics"
  BY <1>10 DEF AnalyticsDraws, AnalyticsModel
<1> QED
  BY <1>1, <1>2, <1>3, <1>4, <1>5, <1>6, <1>7, <1>8, <1>9, <1>10

\* A view draws nothing of others' lists, and all but the late labels of its own.
LEMMA ViewsRedrawTheirLists ==
  ASSUME NEW v \in View, NEW l
  PROVE  /\ Redraws(v, l) \subseteq Draws(v)
         /\ l \in Draws(v) /\ <<v, l>> \notin LateLabels => l \in Redraws(v, l)
<1>1. l \in Draws(v) => l \in Listens(ModelOf(v))
  BY ModelsListenForTheirViews
<1> USE DEF View, Draws, Redraws
<1>2. CASE l \notin Listens(ModelOf(v))
  BY <1>1, <1>2
<1>3. CASE l \in Listens(ModelOf(v))
  <2>1. CASE v = "users"
    BY <1>3, <2>1 DEF UsersDraws, UsersManagementRedraws
  <2>2. CASE v = "roles"
    BY <1>3, <2>2 DEF RolesDraws, UsersManagementRedraws
  <2>3. CASE v = "products"
    BY <1>3, <2>3 DEF ProductTypesDraws, ProductTypesRedraws
  <2>4. CASE v = "stocks"
    BY <1>3, <2>4 DEF StocksDraws, StocksRedraws
  <2>5. CASE v = "offers"
    BY <1>3, <2>5 DEF SupplierCatalogDraws, SupplierCatalogRedraws, LateLabels
  <2>6. CASE v = "management"
    <3>1. Listens(ModelOf(v)) = ManagementDraws
      BY <2>6 DEF Listens, TheModel, ModelOf, ManagementModel, ManagementDraws
    <3> QED
      BY <1>3, <2>6, <3>1 DEF ManagementRedraws
  <2>7. CASE v = "purchase"
    BY <1>3, <2>7 DEF PurchaseDraws, PurchaseRedraws
  <2>8. CASE v = "sales"
    BY <1>3, <2>8 DEF SalesDraws, SalesRedraws
  <2>9. CASE v = "logs"
    BY <1>3, <2>9 DEF LogsDraws, LogsRedraws, LateLabels
  <2>10. CASE v = "analytics"
    <3>1. Listens(ModelOf(v)) = AnalyticsDraws
      BY <2>10 DEF Listens, TheModel, ModelOf, AnalyticsModel, AnalyticsDraws
    <3> QED
      BY <1>3, <2>10, <3>1 DEF AnalyticsRedraws
  <2> QED
    BY <2>1, <2>2, <2>3, <2>4, <2>5, <2>6, <2>7, <2>8, <2>9, <2>10
<1> QED
  BY <1>2, <1>3

\* A table's rows are drawn, redrawn when they arrive, and fetched again by the
\* model when one of them has been changed.
LEMMA TablesAreRefetched ==
  ASSUME NEW v \in View, NEW l \in Table(v).rows
  PROVE  /\ l \in Draws(v) /\ l \in Redraws(v, l) /\ l \in Listens(ModelOf(v))
         /\ l \in TheModel(ModelOf(v)).refetches
<1>1. /\ l \in Draws(v) /\ <<v, l>> \notin LateLabels
      /\ l \in TheModel(ModelOf(v)).refetches
  <2> USE DEF View, Draws, Table, TheModel, ModelOf, LateLabels
  <2>1. CASE v = "users"
    BY <2>1 DEF UsersDraws, UsersTable, AccountsModel
  <2>2. CASE v = "roles"
    BY <2>2 DEF RolesDraws, RolesTable, AccountsModel
  <2>3. CASE v = "products"
    BY <2>3 DEF ProductTypesDraws, ProductTypesTable, ProductTypesModel
  <2>4. CASE v = "stocks"
    BY <2>4 DEF StocksDraws, StocksTable, StocksModel
  <2>5. CASE v = "offers"
    BY <2>5 DEF SupplierCatalogDraws, SupplierCatalogTable, SupplierCatalogModel
  <2>6. CASE v = "management"
    BY <2>6 DEF ManagementDraws, ManagementTables, ManagementModel
  <2>7. CASE v = "purchase"
    BY <2>7 DEF PurchaseDraws, PurchaseTable, PurchaseModel
  <2>8. CASE v = "sales"
    BY <2>8 DEF SalesDraws, SalesTable, SalesModel
  <2>9. CASE v \in {"logs", "analytics"}
    BY <2>9
  <2> QED
    BY <2>1, <2>2, <2>3, <2>4, <2>5, <2>6, <2>7, <2>8, <2>9
<1> QED
  BY <1>1, ViewsRedrawTheirLists, ModelsListenForTheirViews

\* The columns asked of an answer are in it, whatever the list.
LEMMA EveryListIsReadable == \A l \in List : Readable(l)
<1> SUFFICES ASSUME NEW l \in List PROVE Readable(l)
  OBVIOUS
<1> USE DEF Readable
<1>1. CASE l = "users"
  BY <1>1 DEF UsersRead, UsersAnswered
<1>2. CASE l = "roles"
  BY <1>2 DEF RolesRead, RolesAnswered
<1>3. CASE l = "products"
  BY <1>3 DEF ProductsRead, ProductsAnswered, ProductKeys
<1>4. CASE l = "stocks"
  BY <1>4 DEF StocksRead, StocksAnswered
<1>5. CASE l = "offers"
  BY <1>5 DEF OffersRead, OffersAnswered
<1>6. CASE l = "contacts"
  BY <1>6 DEF ContactsRead, ContactsAnswered
<1>7. CASE l = "suppliers"
  BY <1>7 DEF SuppliersRead, SuppliersAnswered
<1>8. CASE l = "employees"
  BY <1>8 DEF EmployeesRead, EmployeesAnswered
<1>9. CASE l = "purchaseOrders"
  BY <1>9 DEF PurchaseOrdersRead, PurchaseOrdersAnswered
<1>10. CASE l = "purchaseRecords"
  BY <1>10 DEF PurchaseRecordsRead, PurchaseRecordsAnswered
<1>11. CASE l = "salesOrders"
  BY <1>11 DEF SalesOrdersRead, SalesOrdersAnswered
<1>12. CASE l = "salesRecords"
  BY <1>12 DEF SalesRecordsRead, SalesRecordsAnswered
<1>13. CASE l = "logs"
  BY <1>13 DEF LogsRead, LogsAnswered
<1>14. CASE l \in {"salesAnalytics", "inventoryAnalytics"}
  BY <1>14 DEF MetricsRead
<1> QED
  BY <1>1, <1>2, <1>3, <1>4, <1>5, <1>6, <1>7, <1>8, <1>9, <1>10, <1>11, <1>12,
     <1>13, <1>14 DEF List

-----------------------------------------------------------------------------
(* What the client sends is what the server asks for, but for imports.      *)

LEMMA TextsNest ==
  Positive \subseteq Natural /\ Natural \subseteq Number /\ Number \subseteq Text /\ Text \subseteq AnyText
BY DEF Natural, Number, Text, AnyText

\* All that is needed is a field that is sent, with a text the server takes.
WellFormed(sent, needed) ==
  \A f \in DOMAIN needed : f \in DOMAIN sent /\ sent[f] \subseteq needed[f]

LEMMA ViewsSendWhatIsNeeded ==
  ASSUME NEW v \in View, NEW l \in Table(v).rows, NEW op \in {"create", "edit", "delete", "receipt"}
  PROVE  Forms(l, op) = {TRUE}
<1>1. l \in {"users", "roles", "products", "stocks", "offers", "contacts", "suppliers",
             "employees", "purchaseOrders", "salesOrders"}
  BY DEF View, Table, UsersTable, RolesTable, ProductTypesTable, StocksTable,
         SupplierCatalogTable, ManagementTables, PurchaseTable, SalesTable
<1>2. SUFFICES WellFormed(Fields(l, op), Needs(l, op))
  BY DEF Forms, WellFormed
<1> USE TextsNest DEF WellFormed
<1>3. CASE l = "users"
  <2> DEFINE typed == [username |-> Text, roleId |-> Positive,
                       password |-> IF op = "create" THEN Text ELSE AnyText]
  <2>1. Fields(l, op) = And(typed, Each(UserKeys, AnyText))
    BY <1>3 DEF Fields, UserFields
  <2>2. DOMAIN typed = {"username", "roleId", "password"}
    OBVIOUS
  <2> HIDE DEF typed
  <2>3. /\ DOMAIN Fields(l, op) = DOMAIN typed \cup UserKeys
        /\ \A k \in DOMAIN typed : Fields(l, op)[k] = typed[k]
    BY <2>1 DEF And, Each
  <2>4. CASE op = "create"
    BY <1>3, <2>2, <2>3, <2>4 DEF Needs, UserNeeds, typed
  <2>5. CASE op # "create"
    BY <1>3, <2>2, <2>3, <2>5 DEF Needs, UserNeeds, typed
  <2> QED
    BY <2>4, <2>5
<1>4. CASE l = "roles"
  <2> DEFINE typed == [name |-> Text]
  <2>1. Fields(l, op) = And(typed, Each(RoleKeys(op), AnyText))
    BY <1>4 DEF Fields, RoleFields
  <2>2. DOMAIN typed = {"name"}
    OBVIOUS
  <2> HIDE DEF typed
  <2>3. /\ DOMAIN Fields(l, op) = DOMAIN typed \cup RoleKeys(op)
        /\ \A k \in DOMAIN typed : Fields(l, op)[k] = typed[k]
    BY <2>1 DEF And, Each
  <2> QED
    BY <1>4, <2>2, <2>3 DEF Needs, RoleNeeds, typed
<1>5. CASE l = "products"
  <2> DEFINE typed == [code |-> Text, name |-> Text, unit |-> Text, lastPrice |-> Number \cup {"empty"}]
  <2>1. Fields(l, op) = And(typed, Each(ProductKeys, AnyText))
    BY <1>5 DEF Fields, ProductFields
  <2>2. DOMAIN typed = {"code", "name", "unit", "lastPrice"}
    OBVIOUS
  <2> HIDE DEF typed
  <2>3. /\ DOMAIN Fields(l, op) = DOMAIN typed \cup ProductKeys
        /\ \A k \in DOMAIN typed : Fields(l, op)[k] = typed[k]
    BY <2>1 DEF And, Each
  <2> QED
    BY <1>5, <2>2, <2>3 DEF Needs, ProductNeeds, typed
<1>6. CASE l = "stocks"
  <2> DEFINE typed == [quantityAvailable |-> Natural]
  <2>1. Fields(l, op) = And(typed, Each(StockKeys, Positive))
    BY <1>6 DEF Fields, StockFields
  <2>2. DOMAIN typed = {"quantityAvailable"}
    OBVIOUS
  <2> HIDE DEF typed
  <2>3. /\ DOMAIN Fields(l, op) = DOMAIN typed \cup StockKeys
        /\ \A k \in DOMAIN typed : Fields(l, op)[k] = typed[k]
        /\ \A k \in StockKeys \ DOMAIN typed : Fields(l, op)[k] = Positive
    BY <2>1 DEF And, Each
  <2> QED
    BY <1>6, <2>2, <2>3 DEF Needs, StockNeeds, typed, StockKeys
<1>7. CASE l = "offers"
  <2> DEFINE typed == [code |-> Text]
  <2>1. Fields(l, op) = And(typed, Each(OfferKeys, Positive))
    BY <1>7 DEF Fields, OfferFields
  <2>2. DOMAIN typed = {"code"}
    OBVIOUS
  <2> HIDE DEF typed
  <2>3. /\ DOMAIN Fields(l, op) = DOMAIN typed \cup OfferKeys
        /\ \A k \in DOMAIN typed : Fields(l, op)[k] = typed[k]
        /\ \A k \in OfferKeys \ DOMAIN typed : Fields(l, op)[k] = Positive
    BY <2>1 DEF And, Each
  <2> QED
    BY <1>7, <2>2, <2>3 DEF Needs, OfferNeeds, typed, OfferKeys
<1>8. CASE l = "contacts"
  <2> DEFINE typed == [name |-> Text]
  <2>1. Fields(l, op) = And(typed, Each(ContactKeys, AnyText))
    BY <1>8 DEF Fields, ContactFields
  <2>2. DOMAIN typed = {"name"}
    OBVIOUS
  <2> HIDE DEF typed
  <2>3. /\ DOMAIN Fields(l, op) = DOMAIN typed \cup ContactKeys
        /\ \A k \in DOMAIN typed : Fields(l, op)[k] = typed[k]
    BY <2>1 DEF And, Each
  <2> QED
    BY <1>8, <2>2, <2>3 DEF Needs, ContactNeeds, typed
<1>9. CASE l = "suppliers"
  <2> DEFINE typed == [name |-> Text]
  <2>1. Fields(l, op) = And(typed, Each(SupplierKeys, AnyText))
    BY <1>9 DEF Fields, SupplierFields
  <2>2. DOMAIN typed = {"name"}
    OBVIOUS
  <2> HIDE DEF typed
  <2>3. /\ DOMAIN Fields(l, op) = DOMAIN typed \cup SupplierKeys
        /\ \A k \in DOMAIN typed : Fields(l, op)[k] = typed[k]
    BY <2>1 DEF And, Each
  <2> QED
    BY <1>9, <2>2, <2>3 DEF Needs, SupplierNeeds, typed
<1>10. CASE l = "employees"
  <2> DEFINE typed == [name |-> Text]
  <2>1. Fields(l, op) = And(typed, Each(EmployeeKeys, AnyText))
    BY <1>10 DEF Fields, EmployeeFields
  <2>2. DOMAIN typed = {"name"}
    OBVIOUS
  <2> HIDE DEF typed
  <2>3. /\ DOMAIN Fields(l, op) = DOMAIN typed \cup EmployeeKeys
        /\ \A k \in DOMAIN typed : Fields(l, op)[k] = typed[k]
    BY <2>1 DEF And, Each
  <2> QED
    BY <1>10, <2>2, <2>3 DEF Needs, EmployeeNeeds, typed
<1>11. CASE l = "purchaseOrders"
  <2> DEFINE typed == [date |-> Text, status |-> Text]
  <2>1. Fields(l, op) = And(typed, Each(PurchaseOrderKeys, Positive))
    BY <1>11 DEF Fields, PurchaseOrderFields
  <2>2. DOMAIN typed = {"date", "status"}
    OBVIOUS
  <2> HIDE DEF typed
  <2>3. /\ DOMAIN Fields(l, op) = DOMAIN typed \cup PurchaseOrderKeys
        /\ \A k \in DOMAIN typed : Fields(l, op)[k] = typed[k]
        /\ \A k \in PurchaseOrderKeys \ DOMAIN typed : Fields(l, op)[k] = Positive
    BY <2>1 DEF And, Each
  <2> QED
    BY <1>11, <2>2, <2>3 DEF Needs, PurchaseOrderNeeds, typed, PurchaseOrderKeys
<1>12. CASE l = "salesOrders"
  <2> DEFINE typed == [date |-> Text, status |-> Text]
  <2>1. Fields(l, op) = And(typed, Each(SalesOrderKeys, Positive))
    BY <1>12 DEF Fields, SalesOrderFields
  <2>2. DOMAIN typed = {"date", "status"}
    OBVIOUS
  <2> HIDE DEF typed
  <2>3. /\ DOMAIN Fields(l, op) = DOMAIN typed \cup SalesOrderKeys
        /\ \A k \in DOMAIN typed : Fields(l, op)[k] = typed[k]
        /\ \A k \in SalesOrderKeys \ DOMAIN typed : Fields(l, op)[k] = Positive
    BY <2>1 DEF And, Each
  <2> QED
    BY <1>12, <2>2, <2>3 DEF Needs, SalesOrderNeeds, typed, SalesOrderKeys
<1> QED
  BY <1>1, <1>3, <1>4, <1>5, <1>6, <1>7, <1>8, <1>9, <1>10, <1>11, <1>12

-----------------------------------------------------------------------------
(* One step.                                                                *)

\* What the types say of a view, a model and a list of the desk.
LEMMA DeskFacts ==
  ASSUME TypeOK
  PROVE  /\ desk.tabs \subseteq View /\ created \subseteq View
         /\ desk.changes \in Nat /\ desk.openings \in Nat /\ desk.lost \in Nat
         /\ Watched(desk.tabs) \subseteq List
         /\ \A v \in desk.tabs : \A l \in Draws(v) :
              /\ l \in Listens(ModelOf(v)) /\ l \in Watched(desk.tabs)
              /\ ModelOf(v) \in DOMAIN known /\ known[ModelOf(v)][l] \in Nat
              /\ drawn[v][l] \in Nat
         /\ DOMAIN version = Watched(desk.tabs) /\ DOMAIN blame = Watched(desk.tabs)
         /\ \A l \in Watched(desk.tabs) : version[l] \in Nat /\ version[l] # Nothing
<1>1. desk \in [tabs : SUBSET View, changes : Nat, openings : Nat, lost : Nat]
  BY DesksAssumption DEF TypeOK
<1>2. desk.tabs \subseteq View /\ created \subseteq View
      /\ desk.changes \in Nat /\ desk.openings \in Nat /\ desk.lost \in Nat
  BY <1>1 DEF TypeOK
<1>3. \A v \in desk.tabs : Draws(v) \subseteq Listens(ModelOf(v)) /\ Listens(ModelOf(v)) \subseteq List
  BY <1>2, ModelsListenForTheirViews
<1>4. Watched(desk.tabs) \subseteq List
  BY <1>3 DEF Watched
<1>5. \A v \in desk.tabs : \A l \in Draws(v) :
        /\ l \in Listens(ModelOf(v)) /\ l \in Watched(desk.tabs)
        /\ ModelOf(v) \in DOMAIN known
  BY <1>3 DEF Watched, TypeOK
<1>6. \A v \in desk.tabs : \A l \in Draws(v) : known[ModelOf(v)][l] \in Nat /\ drawn[v][l] \in Nat
  BY <1>5 DEF TypeOK
<1> QED
  BY <1>2, <1>4, <1>5, <1>6 DEF TypeOK

LEMMA InitEstablishesDeskInv == Init => DeskInv
<1> SUFFICES ASSUME Init PROVE DeskInv
  OBVIOUS
<1>1. desk \in [tabs : SUBSET View, changes : Nat, openings : Nat, lost : Nat]
  BY DesksAssumption DEF Init
<1>2. BagToSet(requests) = {} /\ BagToSet(answers) = {} /\ IsABag(requests) /\ IsABag(answers)
  BY EmptyHasNoMembers DEF Init
<1>3. TypeOK
  <2>1. version \in [Watched(desk.tabs) -> Nat \ {Nothing}]
    BY DEF Init, Nothing
  <2>2. /\ DOMAIN known = {ModelOf(v) : v \in desk.tabs}
        /\ \A m \in DOMAIN known : known[m] \in [Listens(m) -> Nat]
        /\ DOMAIN drawn = desk.tabs
        /\ \A v \in DOMAIN drawn : drawn[v] \in [Draws(v) -> Nat]
    BY DEF Init, Nothing
  <2>3. /\ desk \in Desks /\ open = {} /\ created = {} /\ edited = {}
        /\ blame \in [Watched(desk.tabs) -> SUBSET Cause]
    BY DEF Init
  <2>4. /\ spent \in [changes : Nat, openings : Nat, lost : Nat]
        /\ spent.changes = 0 /\ spent.openings = 0 /\ spent.lost = 0
    BY DEF Init
  <2>5. spent.changes <= desk.changes /\ spent.openings <= desk.openings /\ spent.lost <= desk.lost
    BY <1>1, <2>4
  <2> QED
    BY <1>2, <2>1, <2>2, <2>3, <2>4, <2>5 DEF TypeOK
<1>4. DrawnIsKnown
  BY DEF Init, DrawnIsKnown
<1> QED
  BY <1>2, <1>3, <1>4
  DEF Init, DeskInv, AnswersAreOfThePast, ChangesComeFromTables, CurrentOrUnderway

\* Requests that come on top take nothing away.
LEMMA MoreRequestsKeepUnderway ==
  ASSUME BagToSet(requests) \subseteq BagToSet(requests'), UNCHANGED <<answers, version>>,
         NEW l, Underway(l)
  PROVE  Underway(l)'
BY DEF Underway

\* Spending within the bounds.
LEMMA SpendKeepsBounds ==
  ASSUME TypeOK, NEW what \in {"changes", "openings", "lost"},
         spent' = Spend(what), desk' = desk,
         CASE what = "changes" -> spent.changes < desk.changes
           [] what = "openings" -> spent.openings < desk.openings
           [] what = "lost" -> spent.lost < desk.lost
  PROVE  /\ spent' \in [changes : Nat, openings : Nat, lost : Nat]
         /\ spent'.changes <= desk'.changes /\ spent'.openings <= desk'.openings
         /\ spent'.lost <= desk'.lost
<1>1. desk.changes \in Nat /\ desk.openings \in Nat /\ desk.lost \in Nat
  BY DeskFacts
<1>2. /\ spent \in [changes : Nat, openings : Nat, lost : Nat]
      /\ spent.changes <= desk.changes /\ spent.openings <= desk.openings /\ spent.lost <= desk.lost
  BY DEF TypeOK
<1>3. spent' = [spent EXCEPT ![what] = @ + 1]
  BY DEF Spend
<1>4. CASE what = "changes"
  BY <1>1, <1>2, <1>3, <1>4
<1>5. CASE what = "openings"
  BY <1>1, <1>2, <1>3, <1>5
<1>6. CASE what = "lost"
  BY <1>1, <1>2, <1>3, <1>6
<1> QED
  BY <1>4, <1>5, <1>6

\* A cause is added to the lists it is given for, and to no other.
LEMMA BlameAdds ==
  ASSUME TypeOK, NEW ls, NEW why \in Cause
  PROVE  /\ Blame(ls, why) \in [Watched(desk.tabs) -> SUBSET Cause]
         /\ \A l \in Watched(desk.tabs) :
              Blame(ls, why)[l] = {} => l \notin ls /\ blame[l] = {}
<1>1. DOMAIN blame = Watched(desk.tabs) /\ \A l \in DOMAIN blame : blame[l] \subseteq Cause
  BY DEF TypeOK
<1>2. Blame(ls, why) = [l \in DOMAIN blame |-> IF l \in ls THEN blame[l] \cup {why} ELSE blame[l]]
  BY DEF Blame
<1> QED
  BY <1>1, <1>2

LEMMA OpenTabKeeps ==
  ASSUME DeskInv, NEW v \in desk.tabs, OpenTab(v)
  PROVE  DeskInv'
<1>1. /\ open' = open \cup {v} /\ created' = created \cup {v}
      /\ UNCHANGED <<desk, version, known, drawn, edited, answers, blame>>
      /\ requests' = requests (+) Gets(Draws(v))
      /\ spent' = Spend("openings") /\ spent.openings < desk.openings
  BY DEF OpenTab, Fetched
<1>2. TypeOK
  BY DEF DeskInv
<1>3. /\ IsABag(requests')
      /\ BagToSet(requests') = BagToSet(requests) \cup {Get(l) : l \in Draws(v)}
  BY <1>1, <1>2, MembersOfAUnion, MembersOfGets DEF TypeOK
<1>4. \A l \in Draws(v) : Get(l) \in Request /\ Get(l).list = l /\ Get(l).op = "get"
                          /\ l \in Watched(desk.tabs)
  BY <1>2, DeskFacts DEF Get, Request, Op
<1>5. TypeOK'
  <2>1. /\ spent' \in [changes : Nat, openings : Nat, lost : Nat]
        /\ spent'.changes <= desk'.changes /\ spent'.openings <= desk'.openings
        /\ spent'.lost <= desk'.lost
    BY <1>1, <1>2, SpendKeepsBounds
  <2>2. BagToSet(requests') \subseteq Request /\ \A r \in BagToSet(requests') : r.list \in Watched(desk.tabs)
    BY <1>2, <1>3, <1>4 DEF TypeOK
  <2> QED
    BY <1>1, <1>2, <1>3, <2>1, <2>2 DEF TypeOK
<1>6. DrawnIsKnown'
  BY <1>1 DEF DeskInv, DrawnIsKnown
<1>7. ChangesComeFromTables'
  BY <1>1, <1>3, <1>4 DEF DeskInv, ChangesComeFromTables, HasTable
<1>8. CurrentOrUnderway'
  <2> SUFFICES ASSUME NEW w \in created', NEW l \in Draws(w), blame'[l] = {}
               PROVE  (Shown(w, l)' = version'[l] /\ l \notin edited') \/ Underway(l)'
    BY DEF CurrentOrUnderway
  <2>1. CASE w = v
    BY <1>3, <1>4, <2>1 DEF Underway
  <2>2. CASE w # v
    <3>1. (Shown(w, l) = version[l] /\ l \notin edited) \/ Underway(l)
      BY <1>1, <2>2 DEF DeskInv, CurrentOrUnderway
    <3>2. Underway(l) => Underway(l)'
      BY <1>1, <1>3, MoreRequestsKeepUnderway
    <3> QED
      BY <1>1, <3>1, <3>2 DEF Shown
  <2> QED
    BY <2>1, <2>2
<1> QED
  BY <1>1, <1>5, <1>6, <1>7, <1>8 DEF DeskInv, AnswersAreOfThePast

LEMMA CloseTabKeeps ==
  ASSUME DeskInv, NEW v, CloseTab(v)
  PROVE  DeskInv'
<1>1. /\ open' \subseteq open
      /\ UNCHANGED <<desk, version, known, drawn, created, edited, requests, answers, blame, spent>>
  BY DEF CloseTab
<1> QED
  BY <1>1 DEF DeskInv, TypeOK, DrawnIsKnown, AnswersAreOfThePast, ChangesComeFromTables,
              HasTable, CurrentOrUnderway, Underway, Shown

LEMMA ChangeKeeps ==
  ASSUME DeskInv, NEW v \in desk.tabs, NEW l \in Table(v).rows, NEW op \in Op, op # "get",
         Change(v, l, op)
  PROVE  DeskInv'
<1>1. PICK form \in Forms(l, op) :
        requests' = requests (+) One([list |-> l, op |-> op, form |-> form])
  BY DEF Change
<1> DEFINE r == [list |-> l, op |-> op, form |-> form]
<1>2. /\ edited' \in {edited, edited \cup {l}}
      /\ UNCHANGED <<desk, version, known, drawn, created, open, answers, blame>>
      /\ spent' = Spend("changes") /\ spent.changes < desk.changes
      /\ v \in created
  BY DEF Change, DeskInv, TypeOK
<1>3. TypeOK
  BY DEF DeskInv
<1>4. /\ IsABag(requests')
      /\ BagToSet(requests') = BagToSet(requests) \cup {r}
  BY <1>1, <1>3, MembersOfAUnion, MembersOfOne DEF TypeOK
<1>5. l \in Watched(desk.tabs) /\ l \in List
  BY <1>3, DeskFacts, TablesAreRefetched
<1>6. r \in Request /\ r.list = l
  <2>1. form \in BOOLEAN
    BY DEF Forms
  <2> QED
    BY <1>5, <2>1 DEF Request
<1> HIDE DEF r
<1>7. TypeOK'
  <2>1. /\ spent' \in [changes : Nat, openings : Nat, lost : Nat]
        /\ spent'.changes <= desk'.changes /\ spent'.openings <= desk'.openings
        /\ spent'.lost <= desk'.lost
    BY <1>2, <1>3, SpendKeepsBounds
  <2>2. BagToSet(requests') \subseteq Request /\ \A x \in BagToSet(requests') : x.list \in Watched(desk.tabs)
    BY <1>3, <1>4, <1>5, <1>6 DEF TypeOK
  <2>3. edited' \subseteq Watched(desk.tabs)
    BY <1>2, <1>3, <1>5 DEF TypeOK
  <2> QED
    BY <1>2, <1>3, <1>4, <2>1, <2>2, <2>3 DEF TypeOK
<1>8. ChangesComeFromTables'
  <2>1. HasTable(l)
    BY <1>2 DEF HasTable
  <2> QED
    BY <1>2, <1>4, <1>6, <2>1 DEF DeskInv, ChangesComeFromTables, HasTable
<1>9. CurrentOrUnderway'
  <2> SUFFICES ASSUME NEW w \in created', NEW x \in Draws(w), blame'[x] = {}
               PROVE  (Shown(w, x)' = version'[x] /\ x \notin edited') \/ Underway(x)'
    BY DEF CurrentOrUnderway
  <2>1. CASE x = l
    BY <1>4, <1>6, <2>1 DEF Underway
  <2>2. CASE x # l
    <3>1. (Shown(w, x) = version[x] /\ x \notin edited) \/ Underway(x)
      BY <1>2 DEF DeskInv, CurrentOrUnderway
    <3>2. Underway(x) => Underway(x)'
      BY <1>2, <1>4, MoreRequestsKeepUnderway
    <3> QED
      BY <1>2, <2>2, <3>1, <3>2 DEF Shown
  <2> QED
    BY <2>1, <2>2
<1> QED
  BY <1>2, <1>7, <1>8, <1>9 DEF DeskInv, AnswersAreOfThePast, DrawnIsKnown

\* Whatever the server does with a request leaves an answer to it on its way.
LEMMA ServeKeeps ==
  ASSUME DeskInv, NEW r, Serve(r)
  PROVE  DeskInv'
<1>1. TypeOK /\ r \in BagToSet(requests) /\ r \in Request /\ r.list \in Watched(desk.tabs)
  BY DEF Serve, BagIn, DeskInv, TypeOK
<1>2. requests' = requests (-) One(r) /\ UNCHANGED <<desk, known, drawn, created, open, edited, spent>>
  BY DEF Serve
<1>3. /\ IsABag(requests') /\ BagToSet(requests') \subseteq BagToSet(requests)
      /\ BagToSet(requests) \ {r} \subseteq BagToSet(requests')
  BY <1>1, <1>2, MembersWithoutOne DEF TypeOK
<1>4. version[r.list] \in Nat /\ r.op \in Op /\ r.list \in List
  BY <1>1, DeskFacts DEF Request
<1>5. PICK a \in Answer :
        /\ answers' = answers (+) One(a)
        /\ a.list = r.list /\ a.op = r.op
        /\ a.op = "get" => a.version = version'[r.list] /\ version' = version
  <2>1. CASE /\ r.op = "get"
             /\ answers' = answers (+) One([list |-> r.list, op |-> "get", done |-> TRUE,
                                            version |-> version[r.list]])
             /\ UNCHANGED <<version, blame>>
    <3> DEFINE a == [list |-> r.list, op |-> "get", done |-> TRUE, version |-> version[r.list]]
    <3>1. a \in Answer
      BY <1>4 DEF Answer, Op
    <3> QED
      BY <2>1, <3>1
  <2>2. ASSUME NEW done \in BOOLEAN, r.op # "get",
               answers' = answers (+) One([list |-> r.list, op |-> r.op, done |-> done,
                                            version |-> Nothing])
        PROVE  \E a \in Answer :
                 /\ answers' = answers (+) One(a)
                 /\ a.list = r.list /\ a.op = r.op
                 /\ a.op = "get" => a.version = version'[r.list] /\ version' = version
    <3> DEFINE a == [list |-> r.list, op |-> r.op, done |-> done, version |-> Nothing]
    <3>1. a \in Answer
      BY <1>4 DEF Answer, Nothing
    <3> QED
      BY <2>2, <3>1
  <2> QED
    BY <2>1, <2>2 DEF Serve
<1>6. IsABag(answers') /\ BagToSet(answers') = BagToSet(answers) \cup {a}
  BY <1>1, <1>5, MembersOfAUnion, MembersOfOne DEF TypeOK
<1>7. /\ version' \in [Watched(desk.tabs) -> Nat \ {Nothing}]
      /\ blame' \in [Watched(desk.tabs) -> SUBSET Cause]
      /\ \A l \in Watched(desk.tabs) : /\ version'[l] >= version[l]
                                       /\ blame'[l] = {} /\ l # r.list =>
                                            version'[l] = version[l] /\ blame[l] = {}
                                       /\ blame'[l] = {} => blame[l] = {}
  <2>1. CASE UNCHANGED <<version, blame>>
    BY <1>1, <2>1, DeskFacts DEF TypeOK
  <2>2. CASE /\ version' = [l \in DOMAIN version |-> IF l \in {r.list} \cup Follows(r.list, r.op)
                                      THEN version[l] + 1 ELSE version[l]]
             /\ blame' = Blame(Follows(r.list, r.op), "follows")
    <3>1. /\ DOMAIN version = Watched(desk.tabs)
          /\ \A l \in Watched(desk.tabs) : version[l] \in Nat /\ version[l] # 0
      BY <1>1, DeskFacts DEF Nothing
    <3>2. version' \in [Watched(desk.tabs) -> Nat \ {Nothing}]
      BY <2>2, <3>1 DEF Nothing
    <3>3. \A l \in Watched(desk.tabs) :
            /\ version'[l] >= version[l]
            /\ l \notin {r.list} \cup Follows(r.list, r.op) => version'[l] = version[l]
      BY <2>2, <3>1
    <3>4. /\ blame' \in [Watched(desk.tabs) -> SUBSET Cause]
          /\ \A l \in Watched(desk.tabs) :
               blame'[l] = {} => l \notin Follows(r.list, r.op) /\ blame[l] = {}
      <4>1. "follows" \in Cause
        BY DEF Cause
      <4> HIDE DEF Follows
      <4> QED
        BY <1>1, <2>2, <4>1, BlameAdds
    <3> QED
      BY <3>2, <3>3, <3>4
  <2> QED
    BY <2>1, <2>2 DEF Serve
<1>8. TypeOK'
  <2>1. BagToSet(requests') \subseteq Request /\ \A x \in BagToSet(requests') : x.list \in Watched(desk.tabs)
    BY <1>1, <1>3 DEF TypeOK
  <2>2. BagToSet(answers') \subseteq Answer /\ \A x \in BagToSet(answers') : x.list \in Watched(desk.tabs)
    BY <1>1, <1>5, <1>6 DEF TypeOK
  <2> QED
    BY <1>1, <1>2, <1>3, <1>6, <1>7, <2>1, <2>2 DEF TypeOK
<1>9. AnswersAreOfThePast'
  <2> SUFFICES ASSUME NEW x \in BagToSet(answers'), x.op = "get"
               PROVE  x.version <= version'[x.list]
    BY DEF AnswersAreOfThePast
  <2>1. version'[x.list] \in Nat
    BY <1>8, DeskFacts DEF TypeOK
  <2>2. CASE x = a
    BY <1>5, <1>7, <2>1, <2>2
  <2>3. CASE x \in BagToSet(answers)
    <3>1. x.list \in Watched(desk.tabs) /\ x.version \in Nat /\ x.version <= version[x.list]
      BY <1>1, <2>3 DEF DeskInv, AnswersAreOfThePast, TypeOK, Answer
    <3>2. version'[x.list] >= version[x.list] /\ version[x.list] \in Nat
      BY <1>1, <1>7, <3>1, DeskFacts
    <3> QED
      BY <2>1, <3>1, <3>2
  <2> QED
    BY <1>6, <2>2, <2>3
<1>10. ChangesComeFromTables'
  BY <1>1, <1>2, <1>3, <1>5, <1>6 DEF DeskInv, ChangesComeFromTables, HasTable
<1>11. CurrentOrUnderway'
  <2> SUFFICES ASSUME NEW w \in created', NEW l \in Draws(w), blame'[l] = {}
               PROVE  (Shown(w, l)' = version'[l] /\ l \notin edited') \/ Underway(l)'
    BY DEF CurrentOrUnderway
  <2>1. CASE l = r.list
    BY <1>5, <1>6, <2>1 DEF Underway
  <2>2. CASE l # r.list
    <3>1. l \in Watched(desk.tabs) /\ w \in created
      BY <1>1, <1>2, DeskFacts DEF TypeOK
    <3>2. blame[l] = {} /\ version'[l] = version[l]
      BY <1>7, <2>2, <3>1
    <3>3. (Shown(w, l) = version[l] /\ l \notin edited) \/ Underway(l)
      BY <3>1, <3>2 DEF DeskInv, CurrentOrUnderway
    <3>4. Underway(l) => Underway(l)'
      BY <1>3, <1>6, <2>2, <3>2 DEF Underway
    <3> QED
      BY <1>2, <3>2, <3>3, <3>4 DEF Shown
  <2> QED
    BY <2>1, <2>2
<1> QED
  BY <1>2, <1>8, <1>9, <1>10, <1>11 DEF DeskInv, DrawnIsKnown

LEMMA ChangeElsewhereKeeps ==
  ASSUME DeskInv, NEW l, ChangeElsewhere(l)
  PROVE  DeskInv'
<1> DEFINE touched == {l} \cup Follows(l, "edit")
<1>1. /\ version' = [x \in DOMAIN version |-> IF x \in touched THEN version[x] + 1 ELSE version[x]]
      /\ blame' = Blame(touched, "elsewhere")
      /\ spent' = Spend("changes") /\ spent.changes < desk.changes
      /\ UNCHANGED <<desk, known, drawn, created, open, edited, requests, answers>>
  BY DEF ChangeElsewhere
<1> HIDE DEF touched
<1>2. TypeOK
  BY DEF DeskInv
<1>3. /\ DOMAIN version = Watched(desk.tabs)
      /\ \A x \in Watched(desk.tabs) : version[x] \in Nat /\ version[x] # 0
  BY <1>2, DeskFacts DEF Nothing
<1>4. /\ version' \in [Watched(desk.tabs) -> Nat \ {Nothing}]
      /\ \A x \in Watched(desk.tabs) : version'[x] \in Nat /\ version'[x] >= version[x]
      /\ \A x \in Watched(desk.tabs) \ touched : version'[x] = version[x]
  BY <1>1, <1>3 DEF Nothing
<1>5. /\ blame' \in [Watched(desk.tabs) -> SUBSET Cause]
      /\ \A x \in Watched(desk.tabs) : blame'[x] = {} => x \notin touched /\ blame[x] = {}
  <2>1. "elsewhere" \in Cause
    BY DEF Cause
  <2> QED
    BY <1>1, <1>2, <2>1, BlameAdds
<1>6. TypeOK'
  <2>1. /\ spent' \in [changes : Nat, openings : Nat, lost : Nat]
        /\ spent'.changes <= desk'.changes /\ spent'.openings <= desk'.openings
        /\ spent'.lost <= desk'.lost
    BY <1>1, <1>2, SpendKeepsBounds
  <2> QED
    BY <1>1, <1>2, <1>4, <1>5, <2>1 DEF TypeOK
<1>7. AnswersAreOfThePast'
  <2> SUFFICES ASSUME NEW a \in BagToSet(answers), a.op = "get"
               PROVE  a.version <= version'[a.list]
    BY <1>1 DEF AnswersAreOfThePast
  <2>1. a.list \in Watched(desk.tabs) /\ a.version \in Nat /\ a.version <= version[a.list]
    BY <1>2 DEF DeskInv, AnswersAreOfThePast, TypeOK, Answer
  <2> QED
    BY <1>3, <1>4, <2>1
<1>8. CurrentOrUnderway'
  <2> SUFFICES ASSUME NEW w \in created, NEW x \in Draws(w), blame'[x] = {}
               PROVE  (Shown(w, x)' = version'[x] /\ x \notin edited') \/ Underway(x)'
    BY <1>1 DEF CurrentOrUnderway
  <2>1. x \in Watched(desk.tabs)
    BY <1>2, DeskFacts DEF TypeOK
  <2>2. blame[x] = {} /\ version'[x] = version[x]
    BY <1>4, <1>5, <2>1
  <2>3. \/ Shown(w, x) = version[x] /\ x \notin edited
        \/ Underway(x)
    BY <2>2 DEF DeskInv, CurrentOrUnderway
  <2>4. Shown(w, x)' = Shown(w, x) /\ edited' = edited
    BY <1>1 DEF Shown
  <2>5. Underway(x) => Underway(x)'
    BY <1>1, <2>2 DEF Underway
  <2> QED
    BY <2>2, <2>3, <2>4, <2>5
<1> QED
  BY <1>1, <1>6, <1>7, <1>8 DEF DeskInv, DrawnIsKnown, ChangesComeFromTables, HasTable

\* A message that is lost is to blame for its list, and no other list misses it.
LEMMA LoseKeeps ==
  ASSUME DeskInv, Lose
  PROVE  DeskInv'
<1>1. PICK m :
        /\ \/ /\ m \in BagToSet(requests) /\ requests' = requests (-) One(m)
              /\ UNCHANGED answers
           \/ /\ m \in BagToSet(answers) /\ answers' = answers (-) One(m)
              /\ UNCHANGED requests
        /\ blame' = Blame({m.list}, "lost")
  BY DEF Lose
<1>2. /\ spent' = Spend("lost") /\ spent.lost < desk.lost
      /\ UNCHANGED <<desk, version, known, drawn, created, open, edited>>
  BY DEF Lose
<1>3. TypeOK
  BY DEF DeskInv
<1>4. /\ IsABag(requests') /\ IsABag(answers')
      /\ BagToSet(requests') \subseteq BagToSet(requests)
      /\ BagToSet(answers') \subseteq BagToSet(answers)
      /\ BagToSet(requests) \ {m} \subseteq BagToSet(requests')
      /\ BagToSet(answers) \ {m} \subseteq BagToSet(answers')
  BY <1>1, <1>3, MembersWithoutOne DEF TypeOK
<1>5. /\ blame' \in [Watched(desk.tabs) -> SUBSET Cause]
      /\ \A x \in Watched(desk.tabs) : blame'[x] = {} => x # m.list /\ blame[x] = {}
  <2>1. "lost" \in Cause
    BY DEF Cause
  <2> QED
    BY <1>1, <1>3, <2>1, BlameAdds
<1>6. TypeOK'
  <2>1. /\ spent' \in [changes : Nat, openings : Nat, lost : Nat]
        /\ spent'.changes <= desk'.changes /\ spent'.openings <= desk'.openings
        /\ spent'.lost <= desk'.lost
    BY <1>2, <1>3, SpendKeepsBounds
  <2> QED
    BY <1>2, <1>3, <1>4, <1>5, <2>1 DEF TypeOK
<1>7. AnswersAreOfThePast' /\ ChangesComeFromTables'
  BY <1>2, <1>4 DEF DeskInv, AnswersAreOfThePast, ChangesComeFromTables, HasTable
<1>8. CurrentOrUnderway'
  <2> SUFFICES ASSUME NEW w \in created, NEW x \in Draws(w), blame'[x] = {}
               PROVE  (Shown(w, x)' = version'[x] /\ x \notin edited') \/ Underway(x)'
    BY <1>2 DEF CurrentOrUnderway
  <2>1. x \in Watched(desk.tabs)
    BY <1>3, DeskFacts DEF TypeOK
  <2>2. blame[x] = {} /\ x # m.list
    BY <1>5, <2>1
  <2>3. Underway(x) => Underway(x)'
    BY <1>2, <1>4, <2>2 DEF Underway
  <2> QED
    BY <1>2, <2>2, <2>3 DEF DeskInv, CurrentOrUnderway, Shown
<1> QED
  BY <1>2, <1>6, <1>7, <1>8 DEF DeskInv, DrawnIsKnown

\* A confirmed change is followed by a request for its list, because a view with
\* its table is there and its model fetches what its table shows.
LEMMA DeliverChangeKeeps ==
  ASSUME DeskInv, NEW a, DeliverChange(a)
  PROVE  DeskInv'
<1> DEFINE fetched == IF a.done THEN FetchedAfter(a.list, a.op) ELSE {}
<1>1. TypeOK /\ a \in BagToSet(answers) /\ a \in Answer /\ a.list \in Watched(desk.tabs) /\ a.op # "get"
  BY DEF DeliverChange, BagIn, DeskInv, TypeOK
<1>2. answers' = answers (-) One(a) /\ UNCHANGED <<desk, version, known, drawn, created, open, edited, spent>>
  BY DEF DeliverChange
<1>3. /\ IsABag(answers') /\ BagToSet(answers') \subseteq BagToSet(answers)
      /\ BagToSet(answers) \ {a} \subseteq BagToSet(answers')
  BY <1>1, <1>2, MembersWithoutOne DEF TypeOK
<1>4. fetched \subseteq {a.list} /\ (a.done => a.list \in fetched)
  <2>1. HasTable(a.list)
    BY <1>1 DEF DeskInv, ChangesComeFromTables
  <2>2. PICK v \in created : a.list \in Table(v).rows
    BY <2>1 DEF HasTable
  <2>3. a.list \in TheModel(ModelOf(v)).refetches
    BY <1>1, <2>2, DeskFacts, TablesAreRefetched
  <2> QED
    BY <1>1, <2>3 DEF FetchedAfter
<1>5. /\ IsABag(requests')
      /\ BagToSet(requests') = BagToSet(requests) \cup {Get(l) : l \in fetched}
  <2>1. CASE a.done
    BY <1>1, <2>1, MembersOfAUnion, MembersOfGets DEF DeliverChange, TypeOK
  <2>2. CASE ~a.done
    BY <1>1, <2>2 DEF DeliverChange, TypeOK
  <2> QED
    BY <2>1, <2>2
<1>6. /\ blame' \in [Watched(desk.tabs) -> SUBSET Cause]
      /\ \A x \in Watched(desk.tabs) : blame'[x] = {} => blame[x] = {} /\ (x = a.list => a.done)
  <2>1. CASE a.done
    BY <1>1, <2>1 DEF DeliverChange, TypeOK
  <2>2. CASE ~a.done
    <3>1. blame' = Blame({a.list}, "refused") /\ "refused" \in Cause
      BY <2>2 DEF DeliverChange, Cause
    <3> QED
      BY <1>1, <3>1, BlameAdds
  <2> QED
    BY <2>1, <2>2
<1>7. \A l \in fetched : Get(l) \in Request /\ Get(l).list = l /\ Get(l).op = "get" /\ l \in Watched(desk.tabs)
  BY <1>1, <1>4, DeskFacts DEF Get, Request, Op
<1> HIDE DEF fetched
<1>8. TypeOK'
  <2>1. BagToSet(requests') \subseteq Request /\ \A x \in BagToSet(requests') : x.list \in Watched(desk.tabs)
    BY <1>1, <1>5, <1>7 DEF TypeOK
  <2> QED
    BY <1>1, <1>2, <1>3, <1>5, <1>6, <2>1 DEF TypeOK
<1>9. AnswersAreOfThePast' /\ ChangesComeFromTables'
  BY <1>2, <1>3, <1>5, <1>7 DEF DeskInv, AnswersAreOfThePast, ChangesComeFromTables, HasTable
<1>10. CurrentOrUnderway'
  <2> SUFFICES ASSUME NEW w \in created, NEW x \in Draws(w), blame'[x] = {}
               PROVE  (Shown(w, x)' = version'[x] /\ x \notin edited') \/ Underway(x)'
    BY <1>2 DEF CurrentOrUnderway
  <2>1. x \in Watched(desk.tabs)
    BY <1>1, DeskFacts DEF TypeOK
  <2>2. CASE x = a.list
    BY <1>4, <1>5, <1>6, <1>7, <2>1, <2>2 DEF Underway
  <2>3. CASE x # a.list
    <3>1. Underway(x) => Underway(x)'
      BY <1>2, <1>3, <1>5, <2>3 DEF Underway
    <3> QED
      BY <1>2, <1>6, <2>1, <3>1 DEF DeskInv, CurrentOrUnderway, Shown
  <2> QED
    BY <2>2, <2>3
<1> QED
  BY <1>2, <1>8, <1>9, <1>10 DEF DeskInv, DrawnIsKnown

\* A list that arrives replaces what the models held of it. If it is the current
\* one, every view that draws it shows it. If it is an older one, either a model
\* held a newer one and the list is to blame, or no view had the current one yet
\* and the message that will bring it is another.
LEMMA DeliverListKeeps ==
  ASSUME DeskInv, NEW a, DeliverList(a)
  PROVE  DeskInv'
<1> DEFINE l == a.list
           hear == {m \in {ModelOf(v) : v \in created} : l \in Listens(m)}
           draw == {v \in created : Redraws(v, l) # {}}
<1>1. TypeOK /\ a \in BagToSet(answers) /\ a \in Answer /\ l \in Watched(desk.tabs) /\ a.op = "get"
  BY DEF DeliverList, BagIn, DeskInv, TypeOK
<1>2. answers' = answers (-) One(a) /\ UNCHANGED <<desk, version, created, open, spent>>
  BY DEF DeliverList
<1>3. /\ IsABag(answers') /\ BagToSet(answers') \subseteq BagToSet(answers)
      /\ BagToSet(answers) \ {a} \subseteq BagToSet(answers')
  BY <1>1, <1>2, MembersWithoutOne DEF TypeOK
<1>4. IsABag(requests') /\ BagToSet(requests') = BagToSet(requests)
  <2>1. requests' = requests (+) Gets({})
    BY <1>1 DEF DeliverList, FetchedAfter
  <2>2. BagToSet(Gets({})) = {} /\ IsABag(Gets({}))
    BY MembersOfGets
  <2> QED
    BY <1>1, <2>1, <2>2, MembersOfAUnion DEF TypeOK
<1>5. /\ known' = [m \in DOMAIN known |->
                     IF m \in hear THEN [known[m] EXCEPT ![l] = a.version] ELSE known[m]]
      /\ drawn' = [v \in DOMAIN drawn |-> [x \in Draws(v) |->
                     IF v \in draw /\ x \in Redraws(v, l) THEN known'[ModelOf(v)][x]
                                                          ELSE drawn[v][x]]]
      /\ edited' = {x \in edited : \A v \in draw : ~(x \in Table(v).rows \cap Redraws(v, l))}
      /\ blame' = IF a.version = version[l] THEN [blame EXCEPT ![l] = {}]
                  ELSE IF \E m \in hear : known[m][l] > a.version
                       THEN Blame({l}, "overtaken")
                  ELSE blame
  <2>1. Readable(l)
    BY <1>1, EveryListIsReadable DEF Answer
  <2> QED
    BY <2>1 DEF DeliverList
<1>6. /\ a.version \in Nat /\ a.version <= version[l] /\ version[l] \in Nat /\ version[l] # Nothing
      /\ l \in List
  BY <1>1, DeskFacts DEF DeskInv, AnswersAreOfThePast, Answer
<1> HIDE DEF l
<1>7. \A v \in created : /\ v \in desk.tabs /\ v \in View /\ ModelOf(v) \in DOMAIN known
                         /\ l \in Listens(ModelOf(v)) => ModelOf(v) \in hear
  BY <1>1, DeskFacts DEF TypeOK
<1>8. \A v \in created : \A x \in Draws(v) : x # l => known'[ModelOf(v)][x] = known[ModelOf(v)][x]
  BY <1>5, <1>7
<1>9. \A v \in created : l \in Draws(v) => known'[ModelOf(v)][l] = a.version
  <2> SUFFICES ASSUME NEW v \in created, l \in Draws(v)
               PROVE  known'[ModelOf(v)][l] = a.version
    OBVIOUS
  <2>1. l \in Listens(ModelOf(v)) /\ ModelOf(v) \in DOMAIN known
    BY <1>1, <1>7, DeskFacts
  <2>2. known'[ModelOf(v)] = [known[ModelOf(v)] EXCEPT ![l] = a.version]
    BY <1>5, <1>7, <2>1
  <2>3. DOMAIN known[ModelOf(v)] = Listens(ModelOf(v))
    BY <1>1, <2>1 DEF TypeOK
  <2> QED
    BY <2>1, <2>2, <2>3
<1>10. /\ DOMAIN known' = DOMAIN known
       /\ \A m \in DOMAIN known' : known'[m] \in [Listens(m) -> Nat]
  <2> SUFFICES ASSUME NEW m \in DOMAIN known PROVE known'[m] \in [Listens(m) -> Nat]
    BY <1>5
  <2>1. known[m] \in [Listens(m) -> Nat]
    BY <1>1 DEF TypeOK
  <2>2. known'[m] = known[m] \/ known'[m] = [known[m] EXCEPT ![l] = a.version]
    BY <1>5
  <2> QED
    BY <1>6, <2>1, <2>2
<1>11. /\ DOMAIN drawn' = DOMAIN drawn
       /\ \A v \in DOMAIN drawn' : drawn'[v] \in [Draws(v) -> Nat]
  <2> SUFFICES ASSUME NEW v \in DOMAIN drawn, NEW x \in Draws(v)
               PROVE  (IF v \in draw /\ x \in Redraws(v, l) THEN known'[ModelOf(v)][x]
                                                            ELSE drawn[v][x]) \in Nat
    BY <1>5
  <2>1. v \in desk.tabs
    BY <1>1 DEF TypeOK
  <2>2. ModelOf(v) \in DOMAIN known /\ x \in Listens(ModelOf(v)) /\ drawn[v][x] \in Nat
    BY <1>1, <2>1, DeskFacts
  <2> QED
    BY <1>10, <2>2
<1>12. /\ blame' \in [Watched(desk.tabs) -> SUBSET Cause]
       /\ \A x \in Watched(desk.tabs) : x # l /\ blame'[x] = {} => blame[x] = {}
       /\ blame'[l] = {} => \/ a.version = version[l]
                            \/ /\ a.version # version[l] /\ blame[l] = {}
                               /\ \A m \in hear : ~(known[m][l] > a.version)
  <2>1. blame \in [Watched(desk.tabs) -> SUBSET Cause]
    BY <1>1 DEF TypeOK
  <2>2. CASE a.version = version[l]
    BY <1>5, <2>1, <2>2
  <2>3. CASE a.version # version[l] /\ \E m \in hear : known[m][l] > a.version
    <3>1. blame' = Blame({l}, "overtaken") /\ "overtaken" \in Cause
      BY <1>5, <2>3 DEF Cause
    <3> QED
      BY <1>1, <2>1, <3>1, BlameAdds DEF l
  <2>4. CASE a.version # version[l] /\ ~\E m \in hear : known[m][l] > a.version
    BY <1>5, <2>1, <2>4
  <2> QED
    BY <2>2, <2>3, <2>4
<1>13. TypeOK'
  <2>1. edited' \subseteq edited
    BY <1>5
  <2> QED
    BY <1>1, <1>2, <1>3, <1>4, <1>10, <1>11, <1>12, <2>1 DEF TypeOK
<1>14. \A v \in desk.tabs : \A x \in Draws(v) :
         drawn'[v][x] = IF v \in draw /\ x \in Redraws(v, l) THEN known'[ModelOf(v)][x]
                                                             ELSE drawn[v][x]
  BY <1>1, <1>5 DEF TypeOK
<1> HIDE DEF hear
<1>15. DrawnIsKnown'
  <2> SUFFICES ASSUME NEW v \in desk.tabs, NEW x \in Draws(v)
               PROVE  \/ drawn'[v][x] = Nothing
                      \/ v \in created /\ (<<v, x>> \notin LateLabels => drawn'[v][x] = known'[ModelOf(v)][x])
    BY <1>2 DEF DrawnIsKnown
  <2>1. CASE v \in draw /\ x \in Redraws(v, l)
    BY <1>14, <2>1
  <2>2. CASE ~(v \in draw /\ x \in Redraws(v, l))
    <3>1. drawn'[v][x] = drawn[v][x]
      BY <1>14, <2>2
    <3>2. \/ drawn[v][x] = Nothing
          \/ v \in created /\ (<<v, x>> \notin LateLabels => drawn[v][x] = known[ModelOf(v)][x])
      BY DEF DeskInv, DrawnIsKnown
    <3>3. v \in created /\ <<v, x>> \notin LateLabels => x # l
      BY <1>7, <2>2, ViewsRedrawTheirLists
    <3> QED
      BY <1>8, <3>1, <3>2, <3>3
  <2> QED
    BY <2>1, <2>2
<1>16. AnswersAreOfThePast' /\ ChangesComeFromTables'
  BY <1>2, <1>3, <1>4, <1>5 DEF DeskInv, AnswersAreOfThePast, ChangesComeFromTables, HasTable
<1>17. CurrentOrUnderway'
  <2> SUFFICES ASSUME NEW w \in created, NEW x \in Draws(w), blame'[x] = {}
               PROVE  (Shown(w, x)' = version'[x] /\ x \notin edited') \/ Underway(x)'
    BY <1>2 DEF CurrentOrUnderway
  <2>1. x \in Watched(desk.tabs) /\ w \in desk.tabs /\ w \in View
    BY <1>1, <1>7, DeskFacts
  <2>2. CASE x # l
    <3>1. (Shown(w, x) = version[x] /\ x \notin edited) \/ Underway(x)
      BY <1>12, <2>1, <2>2 DEF DeskInv, CurrentOrUnderway
    <3>2. Underway(x) => Underway(x)'
      BY <1>2, <1>3, <1>4, <2>2 DEF Underway, l
    <3>3. Shown(w, x) = version[x] => Shown(w, x)' = version'[x]
      <4>1. CASE <<w, x>> \in LateLabels
        BY <1>2, <1>8, <2>2, <4>1 DEF Shown
      <4>2. CASE <<w, x>> \notin LateLabels
        <5> SUFFICES ASSUME drawn[w][x] = version[x] PROVE drawn'[w][x] = version[x]
          BY <1>2, <4>2 DEF Shown
        <5>1. drawn[w][x] # Nothing
          BY <1>1, <2>1, DeskFacts
        <5>2. drawn[w][x] = known[ModelOf(w)][x]
          BY <2>1, <4>2, <5>1 DEF DeskInv, DrawnIsKnown
        <5> QED
          BY <1>8, <1>14, <2>1, <2>2, <5>2
      <4> QED
        BY <4>1, <4>2
    <3> QED
      BY <1>5, <3>1, <3>2, <3>3
  <2>3. CASE x = l /\ a.version = version[l]
    <3>1. Shown(w, l)' = version'[l]
      <4>1. CASE <<w, l>> \in LateLabels
        BY <1>2, <1>9, <2>3, <4>1 DEF Shown
      <4>2. CASE <<w, l>> \notin LateLabels
        <5>1. l \in Redraws(w, l) /\ w \in draw
          BY <2>1, <2>3, <4>2, ViewsRedrawTheirLists
        <5> QED
          BY <1>2, <1>9, <1>14, <2>1, <2>3, <4>2, <5>1 DEF Shown
      <4> QED
        BY <4>1, <4>2
    <3>2. l \notin edited'
      <4> SUFFICES ASSUME l \in edited PROVE l \notin edited'
        BY <1>5
      <4>1. PICK v \in created : l \in Table(v).rows
        BY DEF DeskInv, ChangesComeFromTables, HasTable
      <4>2. l \in Redraws(v, l)
        BY <1>7, <4>1, TablesAreRefetched
      <4> QED
        BY <1>5, <4>1, <4>2
    <3> QED
      BY <2>3, <3>1, <3>2
  <2>4. CASE x = l /\ a.version # version[l]
    <3>1. blame[l] = {} /\ \A m \in hear : ~(known[m][l] > a.version)
      BY <1>12, <2>4
    <3>2. known[ModelOf(w)][l] \in Nat /\ known[ModelOf(w)][l] # version[l]
      <4>1. ModelOf(w) \in hear
        BY <1>1, <1>7, <2>1, <2>4, DeskFacts
      <4>2. known[ModelOf(w)][l] \in Nat
        BY <1>1, <2>1, <2>4, DeskFacts
      <4> QED
        BY <1>6, <2>4, <3>1, <4>1, <4>2
    <3>3. Shown(w, l) # version[l]
      BY <1>6, <2>1, <2>4, <3>2 DEF Shown, DeskInv, DrawnIsKnown
    <3>4. Underway(l)
      BY <2>4, <3>1, <3>3 DEF DeskInv, CurrentOrUnderway
    <3> QED
      BY <1>1, <1>2, <1>3, <1>4, <2>4, <3>4 DEF Underway
  <2> QED
    BY <2>2, <2>3, <2>4
<1> QED
  BY <1>13, <1>15, <1>16, <1>17 DEF DeskInv

LEMMA NextKeepsDeskInv ==
  ASSUME DeskInv, [Next]_vars
  PROVE  DeskInv'
<1>1. CASE User
  <2>1. PICK v \in desk.tabs :
          \/ OpenTab(v) \/ CloseTab(v)
          \/ \E l \in Table(v).rows, op \in {"create", "edit", "delete", "receipt", "import"} :
               op \in Ops(v, l) /\ Change(v, l, op)
    BY <1>1 DEF User
  <2>2. CASE OpenTab(v)
    BY <2>2, OpenTabKeeps
  <2>3. CASE CloseTab(v)
    BY <2>3, CloseTabKeeps
  <2>4. ASSUME NEW l \in Table(v).rows, NEW op \in {"create", "edit", "delete", "receipt", "import"},
               Change(v, l, op)
        PROVE  DeskInv'
    <3>1. op \in Op /\ op # "get"
      BY DEF Op
    <3> QED
      BY <2>4, <3>1, ChangeKeeps
  <2> QED
    BY <2>1, <2>2, <2>3, <2>4
<1>2. CASE Network
  BY <1>2, ServeKeeps, DeliverListKeeps, DeliverChangeKeeps DEF Network
<1>3. CASE Lose
  BY <1>3, LoseKeeps
<1>4. CASE \E l \in List : ChangeElsewhere(l)
  BY <1>4, ChangeElsewhereKeeps
<1>5. CASE UNCHANGED vars
  BY <1>5 DEF vars, DeskInv, TypeOK, DrawnIsKnown, AnswersAreOfThePast, ChangesComeFromTables,
              HasTable, CurrentOrUnderway, Underway, Shown
<1> QED
  BY <1>1, <1>2, <1>3, <1>4, <1>5 DEF Next

-----------------------------------------------------------------------------
(* Theorems.                                                                *)

LEMMA DeskInvHolds == Spec => []DeskInv
<1>1. DeskInv /\ [Next]_vars => DeskInv'
  BY NextKeepsDeskInv
<1> QED
  BY InitEstablishesDeskInv, <1>1, PTL DEF Spec

\* What is on its way and what models and views hold is of the lists of the
\* desk, and nothing is spent beyond its bounds.
THEOREM WorkspaceTypeCorrect == Spec => []TypeOK
<1>1. DeskInv => TypeOK
  BY DEF DeskInv
<1> QED
  BY DeskInvHolds, <1>1, PTL

\* A client with nothing on its way shows what the server has, unless one of the
\* named causes is to blame: whatever tabs are opened and closed, in whatever
\* order requests are served and answers arrive (ApiManager, the view models'
\* slots, MainWindow::handleMainMenuAction).
THEOREM AQuietClientIsCurrent == Spec => []QuietMeansCurrent
<1>1. DeskInv => QuietMeansCurrent
  <2> SUFFICES ASSUME DeskInv, Quiet, NEW v \in open, NEW l \in Draws(v), blame[l] = {}
               PROVE  Shown(v, l) = version[l] /\ l \notin edited
    BY DEF QuietMeansCurrent
  <2>1. v \in created
    BY DEF DeskInv, TypeOK
  <2>2. ~Underway(l)
    BY EmptyHasNoMembers DEF Quiet, Underway
  <2> QED
    BY <2>1, <2>2 DEF DeskInv, CurrentOrUnderway
<1> QED
  BY DeskInvHolds, <1>1, PTL

\* What a view's buttons and cells send is well formed for the server, whatever
\* the table and the operation (the views' validation against the modules'
\* required fields); only a file of offers is sent unseen.
THEOREM ViewsSendWellFormed == Spec => []OnlyImportsAreMalformed
<1>1. Init => OnlyImportsAreMalformed
  BY EmptyHasNoMembers DEF Init, OnlyImportsAreMalformed
<1>2. DeskInv /\ OnlyImportsAreMalformed /\ [Next]_vars => OnlyImportsAreMalformed'
  <2> SUFFICES ASSUME DeskInv, OnlyImportsAreMalformed, [Next]_vars,
                      NEW r \in BagToSet(requests'), r \notin BagToSet(requests), ~r.form
               PROVE  r.op = "import"
    BY DEF OnlyImportsAreMalformed
  <2>1. TypeOK
    BY DEF DeskInv
  <2>2. ASSUME NEW ls, requests' = requests (+) Gets(ls)
        PROVE  FALSE
    <3>1. BagToSet(requests') = BagToSet(requests) \cup {Get(l) : l \in ls}
      BY <2>1, <2>2, MembersOfAUnion, MembersOfGets DEF TypeOK
    <3> QED
      BY <3>1 DEF Get
  <2>3. ASSUME NEW x, requests' = requests (-) One(x)
        PROVE  FALSE
    BY <2>1, <2>3, MembersWithoutOne DEF TypeOK
  <2>4. CASE \E v \in desk.tabs : OpenTab(v)
    BY <2>2, <2>4 DEF OpenTab
  <2>5. CASE \E v \in desk.tabs : CloseTab(v)
    BY <2>5 DEF CloseTab
  <2>6. CASE \E v \in desk.tabs : \E l \in Table(v).rows,
                op \in {"create", "edit", "delete", "receipt", "import"} : Change(v, l, op)
    <3>1. PICK v \in desk.tabs : \E l \in Table(v).rows,
                op \in {"create", "edit", "delete", "receipt", "import"} : Change(v, l, op)
      BY <2>6
    <3>2. PICK l \in Table(v).rows, op \in {"create", "edit", "delete", "receipt", "import"} :
            Change(v, l, op)
      BY <3>1
    <3>3. PICK form \in Forms(l, op) :
            requests' = requests (+) One([list |-> l, op |-> op, form |-> form])
      BY <3>2 DEF Change
    <3>4. r = [list |-> l, op |-> op, form |-> form]
      BY <2>1, <3>3, MembersOfAUnion, MembersOfOne DEF TypeOK
    <3>5. v \in View
      BY <2>1, DeskFacts
    <3>6. op # "import" => form = TRUE
      BY <3>5, ViewsSendWhatIsNeeded
    <3> QED
      BY <3>4, <3>6
  <2>7. CASE \E x \in BagToSet(requests) : Serve(x)
    BY <2>3, <2>7 DEF Serve
  <2>8. CASE \E a \in BagToSet(answers) : DeliverList(a) \/ DeliverChange(a)
    BY <2>2, <2>8 DEF DeliverList, DeliverChange
  <2>9. CASE Lose
    BY <2>3, <2>9 DEF Lose
  <2>10. CASE \E l \in List : ChangeElsewhere(l)
    BY <2>10 DEF ChangeElsewhere
  <2>11. CASE UNCHANGED vars
    BY <2>11 DEF vars
  <2> QED
    BY <2>4, <2>5, <2>6, <2>7, <2>8, <2>9, <2>10, <2>11 DEF Next, User, Network
<1> QED
  BY DeskInvHolds, <1>1, <1>2, PTL DEF Spec
=============================================================================

---------------------------- MODULE ApiContract ----------------------------
(***************************************************************************)
(* The fields client and server exchange, list by list, as each side has   *)
(* them: what ApiManager puts into a request and the views let into a      *)
(* field, what the server modules ask of it, what a GET answers and what   *)
(* ApiManager reads of the answer. Nothing else ties the two sides         *)
(* together.                                                               *)
(***************************************************************************)

List == {"users", "roles", "products", "stocks", "offers", "contacts", "suppliers",
         "employees", "purchaseOrders", "purchaseRecords", "salesOrders",
         "salesRecords", "logs", "salesAnalytics", "inventoryAnalytics"}

\* A text by what the server can tell of it: empty, any text, a number, a whole
\* number from zero, a whole number from one.
Positive == {"positive"}
Natural == Positive \cup {"natural"}
Number == Natural \cup {"number"}
Text == Number \cup {"text"}
AnyText == Text \cup {"empty"}

\* A function with value s at every key of S.
Each(S, s) == [k \in S |-> s]
And(f, g) == [k \in DOMAIN f \cup DOMAIN g |-> IF k \in DOMAIN f THEN f[k] ELSE g[k]]

-----------------------------------------------------------------------------
\* The fields the client sends (ApiManager), with what may be in them (views).
UserKeys == {"id", "username", "password", "roleId"}
RoleKeys(op) == IF op = "create" THEN {"name", "id"} ELSE {"name"}
ProductKeys == {"code", "barcode", "name", "description", "lastPrice", "unit", "isImported"}
StockKeys == {"productTypeId", "quantityAvailable", "employeeId"}
OfferKeys == {"supplierId", "productTypeId", "code"}
ContactKeys == {"name", "type", "email", "phone"}
SupplierKeys == {"name", "number", "email", "address"}
EmployeeKeys == {"name", "number", "email", "address"}
PurchaseOrderKeys == {"date", "userId", "supplierId", "status"}
PurchaseRecordKeys == {"orderId", "productTypeId", "quantity", "price"}
SalesOrderKeys == {"date", "userId", "contactId", "employeeId", "status"}
SalesRecordKeys == {"orderId", "productTypeId", "quantity", "price"}

UserFields(op) ==
  And([username |-> Text, roleId |-> Positive,
       password |-> IF op = "create" THEN Text ELSE AnyText], Each(UserKeys, AnyText))
RoleFields(op) == And([name |-> Text], Each(RoleKeys(op), AnyText))
ProductFields ==
  And([code |-> Text, name |-> Text, unit |-> Text, lastPrice |-> Number \cup {"empty"}],
      Each(ProductKeys, AnyText))
StockFields == And([quantityAvailable |-> Natural], Each(StockKeys, Positive))
\* Mutant: onItemChanged of the supplier catalogue without the test for an empty code.
OfferFieldsUnchecked == And([code |-> AnyText], Each(OfferKeys, Positive))
OfferFields == And([code |-> Text], Each(OfferKeys, Positive))
\* A line of a CSV file: three columns of anything, sent as they are.
ImportedOfferFields == Each(OfferKeys, AnyText)
ContactFields == And([name |-> Text], Each(ContactKeys, AnyText))
SupplierFields == And([name |-> Text], Each(SupplierKeys, AnyText))
EmployeeFields == And([name |-> Text], Each(EmployeeKeys, AnyText))
PurchaseOrderFields == And([date |-> Text, status |-> Text], Each(PurchaseOrderKeys, Positive))
PurchaseRecordFields == And([price |-> Number], Each(PurchaseRecordKeys, Positive))
SalesOrderFields == And([date |-> Text, status |-> Text], Each(SalesOrderKeys, Positive))
SalesRecordFields == And([price |-> Number], Each(SalesRecordKeys, Positive))

Fields(l, op) ==
  CASE l = "users" -> UserFields(op)
    [] l = "roles" -> RoleFields(op)
    [] l = "products" -> ProductFields
    [] l = "stocks" -> StockFields
    [] l = "offers" -> IF op = "import" THEN ImportedOfferFields ELSE OfferFields
    [] l = "contacts" -> ContactFields
    [] l = "suppliers" -> SupplierFields
    [] l = "employees" -> EmployeeFields
    [] l = "purchaseOrders" -> PurchaseOrderFields
    [] l = "purchaseRecords" -> PurchaseRecordFields
    [] l = "salesOrders" -> SalesOrderFields
    [] l = "salesRecords" -> SalesRecordFields
    [] OTHER -> Each({}, AnyText)

-----------------------------------------------------------------------------
\* What the handlers of the server ask of a create or an edit.
UserNeeds(op) ==
  IF op = "create" THEN [username |-> Text, password |-> Text]
                   ELSE [username |-> Text, roleId |-> Text]
RoleNeeds == [name |-> Text]
ProductNeeds == [code |-> Text, name |-> Text, unit |-> Text]
StockNeeds == [productTypeId |-> Text, quantityAvailable |-> Natural, employeeId |-> Positive]
OfferNeeds == [supplierId |-> Positive, productTypeId |-> Positive, code |-> Text]
ContactNeeds == [name |-> Text]
SupplierNeeds == [name |-> Text]
EmployeeNeeds == [name |-> Text]
PurchaseOrderNeeds ==
  [date |-> Text, userId |-> Positive, supplierId |-> Positive, status |-> Text]
PurchaseRecordNeeds ==
  [orderId |-> Positive, productTypeId |-> Positive, quantity |-> Positive, price |-> Number]
SalesOrderNeeds ==
  [date |-> Text, userId |-> Positive, contactId |-> Positive, employeeId |-> Positive,
   status |-> Text]
SalesRecordNeeds ==
  [orderId |-> Positive, productTypeId |-> Positive, quantity |-> Positive, price |-> Number]

Needs(l, op) ==
  CASE l = "users" -> UserNeeds(op)
    [] l = "roles" -> RoleNeeds
    [] l = "products" -> ProductNeeds
    [] l = "stocks" -> StockNeeds
    [] l = "offers" -> OfferNeeds
    [] l = "contacts" -> ContactNeeds
    [] l = "suppliers" -> SupplierNeeds
    [] l = "employees" -> EmployeeNeeds
    [] l = "purchaseOrders" -> PurchaseOrderNeeds
    [] l = "purchaseRecords" -> PurchaseRecordNeeds
    [] l = "salesOrders" -> SalesOrderNeeds
    [] l = "salesRecords" -> SalesRecordNeeds
    [] OTHER -> Each({}, AnyText)

\* Whether the server can find a request well formed: always, if the client only
\* lets through what is asked for.
Forms(l, op) ==
  LET sent == Fields(l, op)
      needed == Needs(l, op)
  IN  IF \A f \in DOMAIN needed : f \in DOMAIN sent /\ sent[f] \subseteq needed[f]
      THEN {TRUE}
      ELSE BOOLEAN

-----------------------------------------------------------------------------
\* The columns a GET answers (server) and those ApiManager looks for (client).
UsersAnswered == {"id", "username", "roleId"}
RolesAnswered == {"id", "name"}
ProductsAnswered == {"id"} \cup ProductKeys
StocksAnswered == {"id", "productTypeId", "quantityAvailable", "employeeId"}
OffersAnswered == {"id", "supplierId", "productTypeId", "code"}
ContactsAnswered == {"id", "name", "type", "email", "phone"}
SuppliersAnswered == {"id", "name", "number", "email", "address"}
EmployeesAnswered == {"id", "name", "number", "email", "address"}
PurchaseOrdersAnswered == {"id", "date", "userId", "supplierId", "status"}
PurchaseRecordsAnswered == {"id", "orderId", "productTypeId", "quantity", "price"}
SalesOrdersAnswered == {"id", "date", "userId", "contactId", "employeeId", "status"}
SalesRecordsAnswered == {"id", "orderId", "productTypeId", "quantity", "price"}
LogsAnswered == {"id", "userId", "action", "timestamp"}

UsersRead == {"id", "username", "roleId"}
RolesRead == {"id", "name"}
ProductsRead == {"id", "code", "barcode", "name", "description", "lastPrice", "unit", "isImported"}
StocksRead == {"id", "productTypeId", "quantityAvailable", "employeeId"}
OffersRead == {"id", "supplierId", "productTypeId", "code"}
ContactsRead == {"id", "name", "type", "email", "phone"}
SuppliersRead == {"id", "name", "number", "email", "address"}
EmployeesRead == {"id", "name", "number", "email", "address"}
PurchaseOrdersRead == {"id", "date", "userId", "supplierId", "status"}
PurchaseRecordsRead == {"id", "orderId", "productTypeId", "quantity", "price"}
SalesOrdersRead == {"id", "date", "userId", "contactId", "employeeId", "status"}
SalesRecordsRead == {"id", "orderId", "productTypeId", "quantity", "price"}
LogsRead == {"id", "userId", "action", "timestamp"}
\* The metrics are taken as they come.
MetricsRead == {}

\* The list handlers look for every column they read before they take a row.
Readable(l) ==
  CASE l = "users" -> UsersRead \subseteq UsersAnswered
    [] l = "roles" -> RolesRead \subseteq RolesAnswered
    [] l = "products" -> ProductsRead \subseteq ProductsAnswered
    [] l = "stocks" -> StocksRead \subseteq StocksAnswered
    [] l = "offers" -> OffersRead \subseteq OffersAnswered
    [] l = "contacts" -> ContactsRead \subseteq ContactsAnswered
    [] l = "suppliers" -> SuppliersRead \subseteq SuppliersAnswered
    [] l = "employees" -> EmployeesRead \subseteq EmployeesAnswered
    [] l = "purchaseOrders" -> PurchaseOrdersRead \subseteq PurchaseOrdersAnswered
    [] l = "purchaseRecords" -> PurchaseRecordsRead \subseteq PurchaseRecordsAnswered
    [] l = "salesOrders" -> SalesOrdersRead \subseteq SalesOrdersAnswered
    [] l = "salesRecords" -> SalesRecordsRead \subseteq SalesRecordsAnswered
    [] l = "logs" -> LogsRead \subseteq LogsAnswered
    [] OTHER -> MetricsRead = {}
=============================================================================

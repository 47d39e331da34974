SPECIFICATION FairSpec
CONSTANTS
  c1 = c1
  c2 = c2
  Users = {u1}
  Suppliers = {s1}
  Employees = {e1}
  FirstUser = u1
  FirstSupplier = s1
  FirstEmployee = e1
  Codes = {c1, c2}
  CatalogueSize = 2
  Catalogue <- TwoProducts
  MaxQuantity = 3
  RequestQuantities = {2}
  RowLimit <- ReceiptLimits
  MaxFaults = 1
  RollbackMayFail = FALSE
INVARIANTS
  TypeOK
  ReceivedOrdersHaveLines
  PlanIsFresh
  IdleMeansCommitted
PROPERTIES
  ReceivedIsFinal
  ImplementsLedger
  DeleteCompletes
  ReceiptCompletes
CHECK_DEADLOCK FALSE

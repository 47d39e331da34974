SPECIFICATION Spec
CONSTANTS
  c1 = c1
  c2 = c2
  Users = {u1}
  Suppliers = {s1}
  Employees = {e1}
  FirstUser = u1
  FirstSupplier = s1
  FirstEmployee = e1
  Codes = {c1, c2}
  CatalogueSize = 1
  Catalogue <- OneProduct
  MaxQuantity = 1
  RequestQuantities = {1}
  RowLimit <- CatalogueLimits
  MaxFaults = 2
  RollbackMayFail = TRUE
INVARIANTS
  ReferentialIntegrity
  OneStockPerProduct
  ProductCodesUnique
PROPERTIES
  ImplementsLedger
CHECK_DEADLOCK FALSE

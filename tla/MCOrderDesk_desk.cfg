SPECIFICATION Spec
CONSTANTS
  Order <- MoreOrders
  Line <- Lines
  InitialOrders <- Orders
  InitialLines <- TwoLines
  Kinds <- BothViews
  MaxActs = 4
  MaxPending = 1
  MaxLost = 2
INVARIANTS
  LinesAreOfTheSelection
  InvoiceIsOfItsOrder
  EditsSurvive
PROPERTIES
  LinesKeepTheirOrder
CHECK_DEADLOCK FALSE

SPECIFICATION Spec
CONSTANTS
  Order <- MoreOrders
  Line <- Lines
  InitialOrders <- Orders
  InitialLines <- TwoLines
  Kinds <- TheSalesView
  MaxActs = 4
  MaxPending = 2
  MaxLost = 0
PROPERTIES
  ExportsAreOfTheirOrder
CHECK_DEADLOCK FALSE

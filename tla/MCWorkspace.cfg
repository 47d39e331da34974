SPECIFICATION Spec
CONSTANTS
  Desks <- SmallDesks
INVARIANTS
  QuietMeansCurrent
  OnlyImportsAreMalformed
PROPERTIES
  SettlesDown
CHECK_DEADLOCK FALSE

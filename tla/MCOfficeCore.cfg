SPECIFICATION Spec
CONSTANTS
  Names = {"user", "admin"}
  RowLimit <- OfficeLimits
  MaxFaults = 1
  MaxAdded = 2
CONSTRAINT FewAdded
INVARIANTS
  ReferencesHold
  HalfDeletedIsWhole
  OneAccountPerName
  TwinRolesAreRenamed
PROPERTIES
  FinishedMeansDone
  DeletionCompletes

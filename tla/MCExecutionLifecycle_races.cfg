SPECIFICATION Spec
CONSTANTS
  Quantity = 3
  Offered <- MCAfterIntake
  ByIntake = TRUE
  FillsReported = TRUE
  MaxRevision = 10
  MaxMessages = 2
  None = None
INVARIANTS
  LocalFollowsBroker
PROPERTIES
  FillsOnlyGrow
  AdvancesOnce
CHECK_DEADLOCK FALSE

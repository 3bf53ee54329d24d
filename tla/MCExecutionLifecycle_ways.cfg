SPECIFICATION Spec
CONSTANTS
  Quantity = 2
  Offered <- MCAllInputs
  ByIntake = FALSE
  FillsReported = FALSE
  MaxRevision = 12
  MaxMessages = 1
  None = None
INVARIANTS
  TypeOK
  FlagsAgree
CHECK_DEADLOCK FALSE

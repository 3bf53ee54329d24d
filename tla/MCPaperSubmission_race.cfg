SPECIFICATION Spec
CONSTANTS
  w1 = w1
  w2 = w2
  c1 = c1
  c2 = c2
  c3 = c3
  s1 = s1
  s2 = s2
  s3 = s3
  ref1 = ref1
  ref2 = ref2
  None = None
  Workers = {w1, w2}
  Commands = {c1, c2}
  Submissions = {s1, s2}
  References = {ref1, ref2}
  Requests <- MCAllRequests
  InvalidOrders <- NoInvalidOrders
  ApprovalExpiry <- ExpiresAtOnce
  ControlSettings <- MCSettings
  MaxGeneration = 3
  MaxClock = 1
  Interruptions = TRUE
  StorageFaults = TRUE
SYMMETRY Symmetry
INVARIANTS
  TypeOK
  AtMostOneEffect
  EffectUnderPermit
  VerdictIsTruthful
  StartupChecksPass
  AnswersAreDurable
  LossHasCause
PROPERTIES
  ImplementsOneShot

SPECIFICATION Spec
CONSTANTS
  t1 = t1
  t2 = t2
  aapl = aapl
  msft = msft
  p1 = p1
  p2 = p2
  k1 = k1
  k2 = k2
  k3 = k3
  x1 = x1
  x2 = x2
  None = None
  Threads = {t1, t2}
  Symbols = {aapl}
  Prices = {p1, p2}
  Keys = {k1, k2, k3}
  Correlations = {x1, x2}
  Sizes = {1, 2}
  Requests <- MCCoolingDown
  Unsound <- MCAllSound
  RequireOpen = TRUE
  Window = 1
  MaxClock = 3
  MaxCalls = 3
  PublisherFails = FALSE
  BrokerRaises = TRUE
  ResponseLost = FALSE
  Interruptions = FALSE
SYMMETRY ThreadSymmetry
INVARIANTS
  OneOrderPerTrade
PROPERTIES
  CooldownKept
CHECK_DEADLOCK FALSE

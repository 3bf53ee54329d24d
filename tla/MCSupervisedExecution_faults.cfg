SPECIFICATION FairSpec
CONSTANTS
  t1 = t1
  t2 = t2
  aapl = aapl
  msft = msft
  p1 = p1
  p2 = p2
  k1 = k1
  k2 = k2
  k3 = k3
  x1 = x1
  x2 = x2
  None = None
  Threads = {t1, t2}
  Symbols = {aapl, msft}
  Prices = {p1, p2}
  Keys = {k1, k2, k3}
  Correlations = {x1, x2}
  Sizes = {1, 2}
  Requests <- MCResized
  Unsound <- MCOtherIsUnsound
  RequireOpen = FALSE
  Window = 0
  MaxClock = 0
  MaxCalls = 2
  PublisherFails = TRUE
  BrokerRaises = TRUE
  ResponseLost = TRUE
  Interruptions = TRUE
INVARIANTS
  TypeOK
  NoOverlap
  BooksBalance
  SubmittedIsPlaced
PROPERTIES
  CompletedIsFinal
  SymbolIsFreed
CHECK_DEADLOCK FALSE

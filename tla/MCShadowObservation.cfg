\* Two observers, three results, one failed port call, the strict policy.
CONSTANTS
  o1 = o1
  o2 = o2
  r1 = r1
  r2 = r2
  k1 = k1
  k2 = k2
  Observers = {o1, o2}
  Runs = {r1, r2}
  Offered <- MCOffered
  Deliveries <- MCDeliveries
  Stored <- MCStored
  Described = {0, 1, 2}
  Policy <- StrictPolicy
  MaxObservations = 3
  MaxFaults = 1

SPECIFICATION Spec
SYMMETRY Symmetry

INVARIANTS
  ReadyAccountsForRuns
  AgreedActionsAreMoves

PROPERTY NotReadyIsFinal

\* The harness stops when it has recorded MaxObservations results.
CHECK_DEADLOCK FALSE

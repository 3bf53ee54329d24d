\* One operator beside the harness: two commands that may leave evidence, one
\* failed port call, restarts that recover the same state or reconciliation.
CONSTANTS
  op1 = op1
  k1 = k1
  k2 = k2
  Operators = {op1}
  Harness = harness
  Offered <- MCOffered
  Keys = {k1, k2}
  Recoverable = {"same", "RECONCILIATION_REQUIRED"}
  MaxCommands = 2
  MaxFaults = 1

SPECIFICATION Spec
SYMMETRY Symmetry

INVARIANTS
  TrailIsEvidenced
  ReplayedWasMade
  SentOnce
  PassedWasPerformed

\* The campaign ends when the operators have nothing left to send.
CHECK_DEADLOCK FALSE

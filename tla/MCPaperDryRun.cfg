SPECIFICATION Spec
CONSTANTS
    None = None
    DryRunCommands <- MCCommands
    Policies <- MCPolicies
    FactSets <- MCFactSets
    Loadable <- MCLoadable
    MaxClock = 2
CHECK_DEADLOCK FALSE
INVARIANTS
    DispatchIsEarned
    DispatchedOnce

SPECIFICATION FairSpec
CONSTANTS
    Conns <- MCConns
    Responses <- MCResponses
    MaxRetried = 3
CHECK_DEADLOCK FALSE
INVARIANTS Consistent OneWayForward RetryBudget
PROPERTIES AddressesInOrder AttemptDecided

SPECIFICATION Spec
CONSTANTS
    Conns <- MCConns
    Responses <- MCResponses
    MaxRetried = 3
CHECK_DEADLOCK FALSE
INVARIANTS NotTouchedWhenGone

SPECIFICATION FairSpec
CONSTANTS
    Options <- MCOptions
    nMaxSendBuffer = 2
    MaxOutput = 3
    MaxSends = 3
    MaxQueue = 4
    Sizes <- MCSizes
CHECK_DEADLOCK FALSE
INVARIANTS Consistent NoStaleEvents
PROPERTIES FullIsAnswered GracefulCloseCompletes

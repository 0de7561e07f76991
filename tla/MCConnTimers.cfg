SPECIFICATION FairSpec
CONSTANTS
    Options <- MCOptions
    Pings = {0, 2}
    MaxOutput = 2
    Ages = 4
    ULongMod = 2
CHECK_DEADLOCK FALSE
INVARIANTS Consistent Punctual
PROPERTIES GracefulCloseEnds

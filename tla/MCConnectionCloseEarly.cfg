SPECIFICATION Spec
CONSTANTS
    Options <- MCSilentAfterClose
    nMaxSendBuffer = 2
    MaxOutput = 3
    MaxSends = 3
    MaxQueue = 4
    Sizes <- MCSizes
CHECK_DEADLOCK FALSE
PROPERTIES ClosesWhenEmpty

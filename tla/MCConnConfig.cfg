SPECIFICATION Spec
CONSTANTS
    Descs <- MCDescs
    Samples <- MCSamples
    MaxAnswers = 2
CHECK_DEADLOCK FALSE
INVARIANTS HostsRecognised RoundTrips PortReachesNetwork OnlyThroughProxy FamilyRespected

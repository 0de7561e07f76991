SPECIFICATION FairSpec
CONSTANTS
    Setups <- MCSetups
CHECK_DEADLOCK FALSE
INVARIANTS Consistent NothingWithheld
PROPERTIES MessagesAsPromised StreamDelivered

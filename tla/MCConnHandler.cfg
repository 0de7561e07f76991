SPECIFICATION Spec
CONSTANTS
    MaxSimultaneous = 2
    SizeMod = 100
    MaxConnID = 5
    Limits = {1, 3}
    MaxOffer = 3
    MaxBinds = 1
    Candidates <- MCConnects
INVARIANTS Consistent OutgoingBudget IdsUnique AppViewMatches
PROPERTIES KeepsContract

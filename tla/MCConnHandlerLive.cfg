SPECIFICATION FairSpec
CONSTANTS
    MaxSimultaneous = 2
    SizeMod = 100
    MaxConnID = 4
    Limits = {2}
    MaxOffer = 2
    MaxBinds = 1
    Candidates <- MCLive
INVARIANTS ResolvesTracked
PROPERTIES ShutdownCompletes AttemptsEnd CloseTakesEffect

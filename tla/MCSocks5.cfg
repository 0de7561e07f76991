SPECIFICATION FairSpec
CONSTANTS
    Conns <- MCConns
    Proxies <- MCProxies
    SizeMod = 1024
CHECK_DEADLOCK FALSE
INVARIANTS Consistent OnlyIfGranted PeerDataIntact
PROPERTIES Decided

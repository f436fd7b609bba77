SPECIFICATION Spec
CONSTANTS
    k1 = k1
    Tokens = {1, 2}
    Keys = {k1}
    Sink <- MCSink
    Window <- MCWindow
    Snaps <- MCSnaps
    Requests <- MCRequests
    MaxEntries = 2
    MaxBytes = 3
    MaxSnapshotTokens = 2
    FrontierStride = 0
    CrossKindPrune = TRUE
    IdBound = 2
    MaxInFlight = 1
    Faults = {"lose", "io", "serialize", "crash"}
PROPERTIES
    NothingLostBetweenTiers
    BestOfBothTiers
    ImplementsSnapshotCache

SPECIFICATION Spec
CONSTANTS
    k1 = k1
    k2 = k2
    Tokens = {1, 2}
    Keys = {k1, k2}
    Sink <- MCSink
    Window <- MCWindow
    Snaps <- MCSnaps
    Requests <- MCRequests
    MaxEntries = 3
    MaxBytes = 7
    MaxSnapshotTokens = 3
    FrontierStride = 2
    CrossKindPrune = TRUE
    IdBound = 4
INVARIANTS
    EntriesAccountedFor
    NoDominated
    ResidentPromptIsServed
    LookupIsBest
PROPERTIES
    NothingLost
    ImplementsSnapshotCache

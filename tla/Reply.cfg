SPECIFICATION ReplyFairSpec
CONSTANTS
    Token = {1, 2, 3, 4}
    Stop = {3}
    Suppressed = {4}
    Target <- MCTarget
    Requests <- MCRequests
    Block = 3
    MinBlock = 2
    PrefillStep = 2
    Stride = 2
    SidecarMin = 2
    CopyWindow = 2
    BranchPositions = 2
    MayMatch = TRUE
    None = None
INVARIANTS
    CachesHoldTheText
    DraftSeesEachPositionOnce
    PublishedStatesAreTrue
    RepliesAreRemembered
    ResponsesFollowTheEngine
    RepliesEndWell
PROPERTIES
    ImplementsGreedyDecode
    LoopReturns
CHECK_DEADLOCK FALSE

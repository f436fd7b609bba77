SPECIFICATION OfflineSpec
CONSTANTS
    qproj = qproj
    kproj = kproj
    oproj = oproj
    gpu0 = gpu0
    gpu1 = gpu1
    hidden = hidden
    heads = heads
    None = None
    Partial = Partial
    Scenes = {"layer", "stage B", "draft", "tree", "replay", "trainer", "campaign", "ladder"}
    AllReplays = FALSE
    E = 3
    Devices <- MCDevices
    Chunk <- MCChunk
    Linears <- MCLinears
    InputOf <- MCInputOf
    Batches = 2
    Tokens = {1, 2}
    SampleMax = 1
    Prints <- MCPrints
    Settings = {"low", "high"}
    MaxEpochs = 2
    EpochSteps = 2
    Score <- MCScore
    MaxTrainings = 3
    NumLayers = 2
    Shards <- MCShards
    Pins = {"r1", "r2"}
    MaxCommands = 6
    MaxResults = 2
    PackUnits <- MCUnits
    PackExperts <- MCExperts
    PackExcluded = {"embed"}
    PackFormats <- MCFormats
    MaxPackCrashes = 1
    MaxPackRuns = 3
    DraftSink = 2
    DraftAsked = 1
    DraftReplaySink = 1
    DraftReplayWindow = 3
    DraftSlide = 2
    DraftStep = 4
    MaxDraftContext = 5
    MaxDraftBlock = 3
    MaxDraftCycles = 3
    TreeTokens = {1, 2}
    TreeCandidates <- MCCandidates
    TreeBudgets = {0, 1, 3, 5}
    TreeKernel = 3
    MaxTreeText = 3
INVARIANTS
    EachExpertOnce
    SolvedOnOwnInputs
    ReadyIsCalibrated
    DraftSeesItsContext
    TreeHoldsTheBest
    TreeReadsAsSequences
    ReplayIsSequential
    DistillIsSound
PROPERTIES
    CampaignIsSound
CHECK_DEADLOCK FALSE

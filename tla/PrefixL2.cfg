SPECIFICATION L2Spec
CONSTANTS
    None = None
    i1 = i1
    i2 = i2
    f1 = f1
    f2 = f2
    f3 = f3
    Instances = {i1}
    Names = {f1, f2, f3}
    Size <- MCSize
    MaxBytes = 2
    MaxInFlight = 2
    Faults = {"io", "save", "unlink", "timeout", "crash"}
    InitialFiles = {f3}
    EpochBound = 2
    ActiveBound = 1
INVARIANTS
    WriterAccounts
PROPERTIES
    PublishesWithinBudget
    PublishesNothingStale
    SharedDirectory

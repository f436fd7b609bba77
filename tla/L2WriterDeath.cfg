SPECIFICATION ProgressSpec
CONSTANTS
    h1 = h1
    h2 = h2
    h3 = h3
    h4 = h4
    Handlers = {h1, h2, h3, h4}
    MaxBackend = 2
    None = None
    i1 = i1
    f1 = f1
    f2 = f2
    DiskFaults = {"save"}
    m1 = m1
    m2 = m2
    NumLayers = 3
    TearsTokens = FALSE
    CrashBound = 6
    Scenes = {"disk"}
PROPERTY FlushesBetweenRequests
CHECK_DEADLOCK FALSE

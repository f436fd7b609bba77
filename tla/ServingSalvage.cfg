CONSTANTS
    h1 = h1
    h2 = h2
    h3 = h3
    m1 = m1
    m2 = m2
    t1 = t1
    t2 = t2
    small = small
    large = large
    None = None
    Handlers = {h1, h2, h3}
    Models = {m1, m2}
    ModelOf <- MCModelOf
    Plain = {h2}
    Respelled = {m2}
    RecentMax = 2
    MaxTokens = 1
    Keys <- MCKeys
    MayDisable = {m1}
    Hosts = {t1, t2}
    ManagerBound = 3
SPECIFICATION ServerSpec
INVARIANT SalvagedWithOwnCounts
CHECK_DEADLOCK FALSE

SPECIFICATION LiveSpec
CONSTANTS
    Engines = {e1, e2}
    Callers = {c1, c2}
    NoEngine = NoEngine
    EnableRedis = TRUE
    RedisFailOpen = TRUE
    DynamicRules = TRUE
    MaxClients = 1
    Requests = {c1, c2}
    Starters = {s1}
    Providers = {p1}
    Interval = 1
    UseStore = TRUE
    MaxTime = 1
    Lookers = {c1, c2}
    Refreshers = {r1, r2}
    UseRedis = TRUE
    MaxReaders = 3
INVARIANTS StacksAreShared OneRefresh ReadersAreKept
PROPERTY EveryoneReturns RangesStay
CHECK_DEADLOCK FALSE

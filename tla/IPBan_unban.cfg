SPECIFICATION PSpec
CONSTANTS
    w1 = w1
    c1 = c1
    c2 = c2
    x = x
    NoEntry = NoEntry
    Workers = {w1}
    Callers = {c1, c2}
    Home <- MCHomeOne
    Spellings = {x}
    IPs = {x}
    Canonical <- MCCanonicalX
    Nets = {}
    Members <- MCNoMembers
    Protected = {}
    Durations = {1, 2}
    Cap = 1
    MaxSize = 1
    RedisConfigured = TRUE
    MaxClock = 2
INVARIANT UnbanLifts

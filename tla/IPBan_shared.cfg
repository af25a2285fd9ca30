SPECIFICATION Spec
CONSTANTS
    w1 = w1
    w2 = w2
    c1 = c1
    c2 = c2
    x = x
    xMapped = xMapped
    p = p
    n1 = n1
    n2 = n2
    NoEntry = NoEntry
    Workers = {w1, w2}
    Callers = {c1, c2}
    Home <- MCHome
    Spellings = {x, xMapped, p}
    IPs = {x, p}
    Canonical <- MCCanonical
    Nets = {n1, n2}
    Members <- MCMembers
    Protected = {p}
    Durations = {1, 2}
    Cap = 1
    MaxSize = 1
    RedisConfigured = TRUE
    MaxClock = 2
INVARIANTS TypeOK CacheInSync NoPhantomBan NeverSelfDoS
SYMMETRY Interchangeable

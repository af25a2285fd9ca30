SPECIFICATION Spec
CONSTANTS
    c1 = c1
    c2 = c2
    a = a
    b = b
    d = d
    login = login
    Callers = {c1, c2}
    IPs = {a, b, d}
    Paths = {login}
    NoPath = NoPath
    EndpointLimits <- LoginOnePerTwo
    RouteLimits <- None
    GeoLimits <- None
    Thresholds = {2}
    Deployments <- All
INVARIANTS StoresAreSound BansAreEarned
PROPERTIES LimitEnforced DenialsAreEarned
CHECK_DEADLOCK FALSE

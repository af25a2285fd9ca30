SPECIFICATION Spec
CONSTANTS
    c1 = c1
    c2 = c2
    headers = headers
    ipSecurity = ipSecurity
    userAgent = userAgent
    rateLimit = rateLimit
    plain = plain
    listed = listed
    r1 = r1
    r2 = r2
    Requests = {c1, c2}
    Checks = {headers, ipSecurity, userAgent, rateLimit}
    Before <- MCBefore
    OnExcluded = {ipSecurity, rateLimit}
    Contents = {plain}
    Initial = plain
    Applies <- MCAppliesOne
    SizeOf <- MCSizeOfOne
    Routes = {r1, r2}
    RouteApplies <- MCRouteAppliesTwo
    RedisFailOpen = FALSE
    FailSecure = TRUE
    UpdatesMayFail = FALSE
    MaxUpdates = 0
INVARIANT RoutesAreSeen

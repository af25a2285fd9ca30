SPECIFICATION Spec
CONSTANTS
    c1 = c1
    c2 = c2
    headers = headers
    ipSecurity = ipSecurity
    userAgent = userAgent
    rateLimit = rateLimit
    plain = plain
    listed = listed
    r1 = r1
    r2 = r2
    Requests = {c1, c2}
    Checks = {headers, ipSecurity, userAgent, rateLimit}
    Before <- MCBefore
    OnExcluded = {ipSecurity, rateLimit}
    Contents = {plain, listed}
    Initial = plain
    Applies <- MCAppliesLists
    SizeOf <- MCSizeOfLists
    Routes = {r1}
    RouteApplies <- MCRouteApplies
    RedisFailOpen = FALSE
    FailSecure = TRUE
    UpdatesMayFail = TRUE
    MaxUpdates = 2
INVARIANTS TypeOK FreshMeansCurrent AdmittedIsVetted

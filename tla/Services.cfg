SPECIFICATION Spec
CONSTANTS
    NoEntry = NoEntry  Empty = Empty  Garbled = Garbled  Unset = Unset
    Requests = {"c1", "c2"}
    Categories = {1, 2}
    Threshold <- TwoThenOne
    AutoBanThreshold = 2
    EnableIPBanning = TRUE
    PassiveMode = FALSE
    MaxViolations = 2
    Patterns = {"a", "b", "c"}
    Recorders = {"r1", "r2"}
    Observations <- EachKind
    MaxTracked = 2
    HistorySize = 1
    Window = 3
    MinSamples = 3
    Sigmas = 1
    Slow = 3
    Cooldown = 1
    MaxClock = 1
    MaxRecords = 3
    Callers = {"r1", "r2"}
    CacheKeys = {"/p", "/q"}
    CSPs = {Empty}
    Customs <- GoodOrBad
    HSTSs <- NoneOrEither
    Valid = {"good"}
    Stored <- LeftBehind
    Built <- OnlyHSTS
    MaxSize = 1
    TTL = 0
    Year = 2
    MaxTime = 1
    MaxOrder = 3
    Workers = {"w1"}
    Sources = {"q", "q,r"}
    Texts = {"q,r", "q", "r"}
    Pieces <- RuntimePieces
    Safe = {"q", "q,r"}
    OldSafe = {"r"}
    MaxDefaults = 1
    MaxValidated = 2
    MaxCrashes = 1
    Threads = {"c1", "c2"}
    Clients = {"i", "j"}
    Suspects = {"i"}
    Endpoints = {"e"}
    RouteRules <- OneUsage
    GlobalRules <- TwoGlobal
    Responses <- Answers
    ScanBody = TRUE
    UseRedis = TRUE
    RedisFailOpen = TRUE
    Passive = FALSE
    MaxTrackedEndpoints = 1
    MaxTrackedClients = 1
    MaxTicks = 2
    MaxRequests = 2
    Client = "c"
    ProxyPaths <- Routes
    Forgeries <- Forged
    Depths = {1, 2, 3}
    Listed = {"p1"}
    Ranges = {"p2"}
    UnixSocket = TRUE
    AccessQuestions <- AllAddressed
    CountryOf <- Countries
    CloudOf <- Clouds
    Loopback = {"lo"}
    GuardQuestions <- Checked
    Minutes = 6
    AgentLength = 2
    Exchanges <- AllExchanges
    NoOrigin = ""
    NoResponse = Unset
    NotYet = Unset
    CloudQuestions <- AllMatches
    NoRanges = Unset
    NoRegion = ""
    Unmatched = Unset
    ScanRequests <- AllCarried
    Globals <- Globally
    Overrides <- Overriding
    DefaultExcluded = {"host", "referer"}
    AddressHeaders = {"host", "via"}
    MaxValues = 4
    MaxChars = 5
INVARIANTS
    BooksAreRight MonitorHolds HeadersHold ReactionsAreDue RegistryHolds BehaviorHolds
    IdentityHolds AccessHolds GuardsHold DispatchHolds MatchHolds
    ScanHolds VerdictsAreSound ConfiguredIsInForce
PROPERTY AutoBanKept
CHECK_DEADLOCK FALSE

SPECIFICATION DecisionsSpec
CONSTANTS
    Unset = Unset
    Client = "c"
    ProxyPaths <- Routes
    Forgeries <- Forged
    Depths = {1, 2, 3}
    Listed = {"p1"}
    Ranges = {"p2"}
    UnixSocket = TRUE
    AccessQuestions <- AllAddressed
    CountryOf <- Countries
    CloudOf <- Clouds
    Loopback = {"lo"}
    GuardQuestions <- Checked
    Minutes = 6
    AgentLength = 2
    Exchanges <- AllExchanges
    NoOrigin = ""
    NoResponse = Unset
    NotYet = Unset
    CloudQuestions <- AllMatches
    NoRanges = Unset
    NoRegion = ""
    Unmatched = Unset
    ScanRequests <- AllCarried
    Globals <- Globally
    Overrides <- Overriding
    DefaultExcluded = {"host", "referer"}
    AddressHeaders = {"host", "via"}
    MaxValues = 4
    MaxChars = 5
INVARIANT ExcludedHeadersAreScanned
CHECK_DEADLOCK FALSE

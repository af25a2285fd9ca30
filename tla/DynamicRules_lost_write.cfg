SPECIFICATION Spec
CONSTANTS
    loop1 = loop1
    direct = direct
    m1 = m1
    k1 = k1
    open = open
    closed = closed
    Configs = {k1}
    Managers = {m1}
    ConfigOf <- OneConfig
    Loops = {loop1}
    Direct = {}
    ManagerOf <- TheLoop
    Rules <- Versions
    Values = {open, closed}
    Keep = Keep
    Static <- MCStatic
    Never = Never
    NoRule = NoRule
    UseRedis = TRUE
    UseFile = TRUE
    ReadsMayFail = FALSE
    WritesMayFail = TRUE
    ApplyMayFail = FALSE
    MaxClock = 3
    MaxCrashes = 1
PROPERTY StoredIsHydrated
CHECK_DEADLOCK FALSE

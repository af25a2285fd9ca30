SPECIFICATION Spec
CONSTANTS
    loop1 = loop1
    direct = direct
    m1 = m1
    k1 = k1
    open = open
    closed = closed
    Configs = {k1}
    Managers = {m1}
    ConfigOf <- OneConfig
    Loops = {loop1}
    Direct = {direct}
    ManagerOf <- LoopAndDirect
    Rules <- Fleet
    Values = {open, closed}
    Keep = Keep
    Static <- MCStatic
    Never = Never
    NoRule = NoRule
    UseRedis = TRUE
    UseFile = TRUE
    ReadsMayFail = TRUE
    WritesMayFail = FALSE
    ApplyMayFail = TRUE
    MaxClock = 3
    MaxCrashes = 1
INVARIANT TypeOK NoRuleNoTrace ActiveIsInForce ChangesAreAnnounced
PROPERTY RulesMoveForward
CHECK_DEADLOCK FALSE

SPECIFICATION LiveSpec
CONSTANTS
    Keep = Keep  Never = Never  NoRule = NoRule
    Engines = {"e1", "e2"}
    Children <- Composed
    Otel = {"o"}
    Logfire = {"l1", "l2"}
    Senders = {"c1"}
    Messages <- Sendable
    Reports <- Reported
    Muted = {"muted"}
    EnableEvents = TRUE
    EnableMetrics = TRUE
    BatchSize = 2
    Requests = {"r1", "r2"}
    Sizes = {0, 1}
    DefaultSlots = 2
    MaxCalls = 2
INVARIANTS ExportsAreSeparate ReadsAreCounted
PROPERTIES EventuallyCurrent WorkEnds
CHECK_DEADLOCK FALSE

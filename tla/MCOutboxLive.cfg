CONSTANTS
    e1 = e1
    e2 = e2
    e3 = e3
    u1 = u1
    none = none
    d1 = d1
    d2 = d2
    Events = {e1, e2}
    Users = {u1}
    NoUser = none
    UserOf <- MCUserOf
    Rank <- MCRank
    HandlerCount <- MCHandlerCount
    Dispatchers = {d1}
    BatchSize = 1
    MaxAttempts = 2
    BaseBackoff = 1
    MaxBackoff = 2
    JobTimeout = 1
    StuckAfter = 1
    Retention = 0
    PromptHandlers = FALSE
    MaxFaults = 1
SPECIFICATION FairSpec
PROPERTIES
    EventuallySettled

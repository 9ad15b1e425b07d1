CONSTANTS
    e1 = e1
    e2 = e2
    e3 = e3
    u1 = u1
    none = none
    d1 = d1
    d2 = d2
    Events = {e1, e3}
    Users = {u1}
    NoUser = none
    UserOf <- MCUserOf
    Rank <- MCRank
    HandlerCount <- MCHandlerCount
    Dispatchers = {d1, d2}
    BatchSize = 2
    MaxAttempts = 2
    BaseBackoff = 1
    MaxBackoff = 2
    JobTimeout = 2
    StuckAfter = 0
    Retention = 0
    PromptHandlers = FALSE
    MaxFaults = 0
    MonthlyBudgets = {20000}
    DefaultShares <- MCDefaultShares
    Divisions <- MCDivisions
    CardNames = {"nu"}
    LastWelcomeMonth = 2
    MaxSetbacks = 1
    m1 = m1
    p1 = p1
    p2 = p2
    s1 = s1
    s2 = s2
    RefMonths = {m1}
    Processes = {p1, p2}
    Slots = {s1, s2}
    MaxChanges = 3
    LookbackDays = 1
    MaxLosses = 1
    CardIds = {1, 2}
    Nicknames = {"nu", "it"}
    DueDays = {5, 6}
    Calls <- MCCalls
    HttpSlots = {s1, s2}
    MaxPosts = 1
    InvoiceCards = {1}
    CardDueDays = {1, 3}
    MonthLengths <- MCMonthLengths
    WindowDays = 2
    ScanLimit = 2
    LocalLags = {0, 1}
    CardHosts = {d1, d2}
    Couriers = {d1, d2}
    LastUtcDay = 5
    MaxDueEdits = 1
    MaxCardFaults = 1
CHECK_DEADLOCK FALSE
SPECIFICATION ServiceSpec
INVARIANTS
    PublishedWasDelivered
    StaleIsWatched
    KeyWritesOnce
    KeyMeansOneBody
    InvoiceAnnouncedOnce
PROPERTIES
    PublishedIsFinal
    OnboardedHasPlan
    SummariesConverge
    DueInvoicesAreRemembered

CONSTANTS
    a = a
    b = b
    t1 = t1
    t2 = t2
    r1 = r1
    r2 = r2
    h1 = h1
    h2 = h2
    c1 = c1
    c2 = c2
    n1 = n1
    n2 = n2
    k1 = k1
    k2 = k2
    f1 = f1
    f2 = f2
    e1 = e1
    m1 = m1
    m2 = m2
    Ids = {t1, t2}
    Cards = {a, b}
    Closing <- MCClosing
    LastMonth = 3
    MaxParts = 2
    Inputs <- MCInputs
    Requests = {r1, r2}
    MaxTxVersion <- MCMaxTxVersion
    Templates = {1}
    MonthDays <- MCMonthDays
    TemplateDays = {1, 3}
    Hosts = {h1, h2}
    MaxEdits = 3
    MaxMishaps = 1
    LastCompetence = 2
    Totals = {6, 1001}
    Splits <- MCSplits
    Percentages = {3300}
    BudgetRequests = {r1, r2}
    MaxBudgetRows = 2
    MaxBudgetEdits = 3
    Txs = {t1, t2}
    CreditTxs = {t2}
    Parts = 2
    ExpenseAmounts = {4, 5}
    PlannedCents = 5
    MaxDeliveredAlerts = 1
    MaxCommands = 3
    MaxSeconds = 2
    MaxDeliveryFaults = 1
    SpentCategories = {c1, c2}
    GoalCategories = {}
    AlertHosts = {h1, h2}
    Notifiers = {n1, n2}
    MaxRefDays = 2
    MaxAlertFaults = 1
    Scripts <- MCConversations
    MaxAttempts = 2
    MaxEntryEdits = 1
    MaxFaults = 2
    Tokens = {k1, k2}
    Phones = {f1, f2}
    Mails = {e1}
    BuyerPhone <- MCBuyerPhone
    BuyerMail <- MCBuyerMail
    ShortLived = {k1}
    MessageTexts = {{k1}}
    Attempts = {m1, m2}
    MaxTries = 2
    MaxMisfortunes = 1
SYMMETRY MoneySymmetry
CHECK_DEADLOCK FALSE
SPECIFICATION MoneySpec
INVARIANTS
    InvoicesBillPurchases
    RepeatsArePaidFor
    AllocationsAreWhole
    MirrorIsLedger
    CrossingsAreRight
    NotifiedOnce
    RememberedIsSent
    OneWritePerOrder
    PublishedIsAnswered
    ActivatedOnce
    ExpiredPaidIsSignalled
PROPERTIES
    ConsumedKeepsOwner
    EventCoversChange
    ImplementsPurchaseBook
    EveryMonthServed
    DeletedStaysDeleted
    YesAnswersTheQuestion

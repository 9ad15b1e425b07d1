CONSTANTS
    a = a
    b = b
    t1 = t1
    t2 = t2
    r1 = r1
    r2 = r2
    Ids = {t1}
    Cards = {a, b}
    Closing <- MCClosing
    LastMonth = 3
    MaxParts = 2
    Inputs <- MCInputs
    Requests = {r1}
    MaxTxVersion <- MCMaxTxVersion
SPECIFICATION LedgerSpec
INVARIANTS
    CreditSumIsItems

CONSTANTS
    t1 = t1
    t2 = t2
    Txs = {t1, t2}
    CreditTxs = {t2}
    Parts = 2
    ExpenseAmounts = {4, 5}
    PlannedCents = 5
    MaxDeliveredAlerts = 1
    MaxCommands = 3
    MaxSeconds = 3
    MaxDeliveryFaults = 1
CHECK_DEADLOCK FALSE
SPECIFICATION ExpensesSpec
INVARIANT SpentIsLedger

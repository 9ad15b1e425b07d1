CONSTANTS
    o1 = o1
    o2 = o2
    u1 = u1
    w1 = w1
    w2 = w2
    Orders = {o1, o2}
    Users = {}
    Workers = {}
    Delivered = {"order_approved"}
    Period = 3
    Grace = 1
    Overlap = 2
    Lookback = 1
    MaxTime = 3
    MaxEvents = 3
    MaxFaults = 1
    MaxWait = 0
    SaleIdIsOrderId = TRUE
    ReferenceIsOrderId = FALSE
    Place <- InPlace
    PageSize = 1
    MaxPages = 3
INVARIANTS
    CheckpointCoversSales
SPECIFICATION FairSpec
PROPERTIES
    ReconciliationRepairs

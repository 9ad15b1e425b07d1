CONSTANTS
    o1 = o1
    o2 = o2
    u1 = u1
    w1 = w1
    w2 = w2
    Orders = {o1}
    Users = {}
    Workers = {w1}
    Delivered = {"order_approved", "subscription_renewed", "subscription_late", "subscription_canceled", "order_refunded"}
    Period = 3
    Grace = 1
    Overlap = 1
    Lookback = 0
    MaxTime = 3
    MaxEvents = 4
    MaxFaults = 0
    MaxWait = 0
    SaleIdIsOrderId = TRUE
    ReferenceIsOrderId = FALSE
    Place <- InPlace
    PageSize = 1
    MaxPages = 1
SPECIFICATION Spec
PROPERTIES
    RetroactiveKeepsStatus

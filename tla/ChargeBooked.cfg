\* Fair runs of one order, of which a product may be deleted: PayTR notices
\* are repeated until answered.
SPECIFICATION FairSpec
CONSTANTS
    o1 = o1
    o2 = o2
    a = a
    b = b
    w1 = w1
    w2 = w2
    NoOrder = NoOrder
    NoWorker = NoWorker
    Orders <- OneOrder
    Targets <- MCTargets
    Workers <- MCWorkers
    Qty <- OneQty
    InitStock <- OneStock
    Methods = {"wire"}
    Providers = {"paytr"}
    Deletable = {a}
    Couriers = {}
    MaxAdmin = 1
    MaxCarrier = 0
    MaxCrash = 1
INVARIANT NeverDeductedTwice
PROPERTIES ChargeIsBooked CallsReturn
CHECK_DEADLOCK FALSE

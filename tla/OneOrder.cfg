\* One order under calls of every kind, or two orders that compete for the shelf.
SPECIFICATION MCSpec
CONSTANTS
    o1 = o1
    o2 = o2
    a = a
    b = b
    w1 = w1
    w2 = w2
    NoOrder = NoOrder
    NoWorker = NoWorker
    Orders <- TwoOrders
    Targets <- MCTargets
    Workers <- MCWorkers
    Qty <- TwoQty
    InitStock <- TwoStock
    Methods = {"wire", "cod"}
    Providers = {"paytr", "stripe"}
    Deletable = {}
    Couriers = {"shipped", "delivered", "cancelled"}
    MaxAdmin = 4
    MaxCarrier = 1
    MaxCrash = 1
SYMMETRY WorkerSymmetry
INVARIANTS AllOrNothing UnitsAccounted
PROPERTIES PaymentTakesStock ImplementsFulfilment
CHECK_DEADLOCK FALSE

\* One administrator ships while another cancels.
SPECIFICATION Spec
CONSTANTS
    o1 = o1
    o2 = o2
    a = a
    b = b
    w1 = w1
    w2 = w2
    NoOrder = NoOrder
    NoWorker = NoWorker
    Orders <- OneOrder
    Targets <- MCTargets
    Workers <- MCWorkers
    Qty <- OneQty
    InitStock <- OneStock
    Methods = {"wire"}
    Providers = {"paytr"}
    Deletable = {}
    Couriers = {}
    MaxAdmin = 3
    MaxCarrier = 0
    MaxCrash = 0
SYMMETRY WorkerSymmetry
INVARIANT ApprovedHoldsStock
CHECK_DEADLOCK FALSE

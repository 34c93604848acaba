\* Three overlapping calls on two orders, which may be deleted.
SPECIFICATION Spec
CONSTANTS
    o1 = o1
    o2 = o2
    w1 = w1
    w2 = w2
    w3 = w3
    NoOrder = NoOrder
    NoWorker = NoWorker
    Orders <- MCOrders
    Workers <- TrioWorkers
    Deletable <- MCOrders
    MaxCalls = 5
    MaxCrash = 1
SYMMETRY TrioSymmetry
INVARIANTS Gapless ShopAgrees OrphansExplained StrayedExplained
CHECK_DEADLOCK FALSE

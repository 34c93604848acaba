\* Overlapping checkouts of one customer, with crashes and coupon edits.
SPECIFICATION Spec
CONSTANTS
    o1 = o1
    o2 = o2
    o3 = o3
    NoWorker = NoWorker
    NoOrder = NoOrder
    Orders = {o1, o2, o3}
    Workers = {w1, w2}
    Basket <- MCBasket
    Ask <- MCAsk
    Forms <- MCForms
    Fee = 4990
    Free = 50000
    MaxCrash = 1
    MaxEdits = 1
    MaxDesk = 3
INVARIANT BillHolds
PROPERTIES ImplementsRegister PointsCovered
CHECK_DEADLOCK FALSE

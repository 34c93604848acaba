\* The scheduler's poll beside webhooks and syncs; periods scaled down.
SPECIFICATION SchedSpec
CONSTANTS
    o1 = o1
    o2 = o2
    w1 = w1
    Poller = Poller
    Orders <- TwoOrders
    Requesters <- OneWorker
    Shipped <- OneOrder
    Aging <- OneOrder
    Codes = {"in_transit", "delivered"}
    MaxScans = 2
    MaxCalls = 2
    MaxFail = 1
    LowStockPeriod = 2
    ShipPeriod = 1
    DropshipPeriod = 2
    BackupPeriod = 2
    DayTicks = 2
    Raising = {"alert", "poll", "dropship", "backup"}
INVARIANTS StatusExplained BackupOnTime

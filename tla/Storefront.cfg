\* What the shop shows and computes next to the calls that change it.
SPECIFICATION MCSpec
CONSTANTS
    Numbers = {1, 10}
    Clerks = {w1, w2}
    ReturnDays = 1
    MaxClock = 5
    Editors = {w1, w2}
    Stars = {1, 5}
    MaxReviews = 2
    Carts = {ada, bob}
    Products = {pen, ink}
    Syncs = {w1, w2}
    OnShelf = 1
    Varied = {ink}
    OfVariants = 2
    MaxQty = 2
    MaxSyncs = 3
    Fill = {0, 7}
    MaxCustomers = 5
    MaxProducts = 4
    Revenues = {0, 1, 4, 15, 80}
    Spread = {0, 1, 5, 20, 100}
    Members = {m1, m2}
    Unblocked = {m1, m2}
    Wares = {kit, saw}
    Prices = {1, 2}
    Clients = {w1, w2}
    Forms = {w1, w2}
    MaxCalls = 2
    Bases = {usd, eur}
    Askers = {w1, w2}
    TTL = 2
    MaxTime = 4
    Letters = {x, y, o}
    Blank = o
    MaxText = 3
    Goods = {g1, g2, g3}
    MaxBaskets = 3
    Ratings = {0, 5}
    Listed = {g1, g2}
    Cuts = {1, 500}
    Floors = {15, 90}
    Shelves <- MCShelves
    Weights <- MCWeights
    MaxViewed = 2
    MaxBasket = 1
    MaxLimit = 2
INVARIANTS TimelineTrue RatingTrue CartHeld FavouritesKept RatesTrue FairScores SearchTrue
SYMMETRY MCSymmetry
CHECK_DEADLOCK FALSE

\* Unlocked writers of one product, its ledger, two returns and a waiting list.
SPECIFICATION Spec
CONSTANTS
    o1 = o1
    o2 = o2
    NoRequest = NoRequest
    NoRule = NoRule
    Workers = {w1, w2}
    Orders = {o1, o2}
    Requests = {r1, r2}
    Emails = {e1}
    OfVariant = {o2}
    Bought <- MCBought
    Forms <- MCForms
    Quotes <- MCQuotes
    Rules <- MCRules
    MaxCalls = 2
    MaxDesk = 2
INVARIANTS StockAccounted ToldOnce RuleSettles
PROPERTIES DecidedOnce
SYMMETRY MCSymmetry
CHECK_DEADLOCK FALSE

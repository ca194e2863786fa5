SPECIFICATION Spec
CONSTANTS
    t1 = t1
    t2 = t2
    m1 = m1
    o1 = o1
    o2 = o2
    l1 = l1
    l2 = l2
    l3 = l3
    Traders = {t1, m1}
    MarketOrders = {o1}
    LimitOrders = {l1}
    TraderOf <- OneOrderEach
    DirectionOf <- MakerIsShort
    WithParams = {o1}
    Prices = {1}
    Quantities = {1}
    MaxConnects = 3
    MaxCrashes = 1
    MaxFailures = 1
    Expiring = {o1}
    Deletable = {o1, l1}
INVARIANT MatchedHasMatch
INVARIANT MakerMatchHasTaker
INVARIANT NoLostMatch
INVARIANT OutcomesAgree
CHECK_DEADLOCK FALSE

SPECIFICATION Spec
CONSTANTS
    t1 = t1
    t2 = t2
    m1 = m1
    o1 = o1
    o2 = o2
    l1 = l1
    l2 = l2
    l3 = l3
    Traders = {t1, t2, m1}
    MarketOrders = {o2}
    LimitOrders = {l1, l2, l3}
    TraderOf <- OneOrderEach
    DirectionOf <- MakerIsLong
    WithParams = {}
    Prices = {1, 2}
    Quantities = {1, 2}
    MaxConnects = 0
    MaxCrashes = 0
    MaxFailures = 0
    Expiring = {l1}
    Deletable = {}
PROPERTY MatchedAtBestPrice
CHECK_DEADLOCK FALSE

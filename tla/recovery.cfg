SPECIFICATION FairSpec
CONSTANTS
  TraderOrders = {o1}
  Unanswered = {o1}
  CoordinatorOrders = {}
  NoOrder = NoOrder
  Protocols = {p1, p2, p3}
  NoProtocol = NoProtocol
  Positions = {r1, r2, r3}
  MaxTime = 0
  MaxClock = 0
  MaxDisconnects = 1
  MaxCrashes = 1
INVARIANT TradeOncePerProtocol
PROPERTY ImplementsLedger
PROPERTY MatchedIsResolved
 
 
CHECK_DEADLOCK FALSE

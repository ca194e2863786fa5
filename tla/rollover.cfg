SPECIFICATION Spec
CONSTANTS
  TraderOrders = {o1, o2}
  Unanswered = {}
  CoordinatorOrders = {c1}
  NoOrder = NoOrder
  Protocols = {p1, p2, p3}
  NoProtocol = NoProtocol
  Positions = {r1, r2}
  MaxTime = 1
  MaxClock = 1
  MaxDisconnects = 1
  MaxCrashes = 0
CONSTRAINT Orderly
CONSTRAINT FewOrders
SYMMETRY Symmetry
INVARIANT ContractsAgree
INVARIANT ClosedOnlyBySettlement
INVARIANT AppMirrorsChannel
INVARIANT DatabaseMirrorsChannel
CHECK_DEADLOCK FALSE

SPECIFICATION Spec
CONSTANTS
  Unit = 2400
  MaxPrice = 200
  MaintenanceMarginRate <- Rate_10
  OrderMatchingFeeRate <- Rate_100
  Intervals = 4
  Prices = {40, 60, 80}
  Quantities = {1, 2}
  Leverages = {1, 3}
  Reserves = {40}
  FundingFees <- Fees_Both
  MaxOrders = 3
  MaxFeeEvents = 2
CHECK_DEADLOCK FALSE
INVARIANTS
  CurveIsSound
  ReservesAreNotWagered
  AppInSync
  BooksBalance
  ContractMatchesSettlement
  MaxQuantityIsAccepted

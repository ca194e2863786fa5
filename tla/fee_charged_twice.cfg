SPECIFICATION Spec
CONSTANTS
  Traders = {t1, t2}
  Online = {}
  MaxHour = 1
  MaxPositions = 2
  MaxProtocols = 2
  MaxFaults = 0
INVARIANT ChargedExactlyOnce
CHECK_DEADLOCK FALSE

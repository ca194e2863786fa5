SPECIFICATION Spec
CONSTANTS
  Traders = {t1}
  Online = {t1}
  MaxHour = 2
  MaxPositions = 1
  MaxProtocols = 2
  MaxFaults = 1
INVARIANT ChargedExactlyOnce
 
INVARIANT AppAppliesEvents
CHECK_DEADLOCK FALSE

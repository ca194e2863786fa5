SPECIFICATION Spec
CONSTANTS
  Mainnet = TRUE
  MaxHours = 504
  MaxChecks = 2
  MaxDelay = 3
INVARIANT RollableExactlyInWindow
INVARIANT NeverRolledTwice
INVARIANT HalfWeeksAgree
PROPERTY ExtendedByOnePeriod
CHECK_DEADLOCK FALSE

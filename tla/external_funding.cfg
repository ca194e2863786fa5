SPECIFICATION Spec
CONSTANTS
  MaxInvoices = 1
  MaxExecutions = 2
  MaxFaults = 2
 
INVARIANT ChannelIsPaid
 
CHECK_DEADLOCK FALSE

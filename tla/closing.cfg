SPECIFICATION FairSpec
CONSTANTS
    Protocols = {p1, p2, p3}
    NoProtocol = NoProtocol
    Payouts = {1}
    MaxReverts = 1
    MaxCrashes = 1
INVARIANT ClosedOnlyWhenSpent
 
 
 
CHECK_DEADLOCK FALSE

SPECIFICATION Spec
CONSTANTS
    MaxTasks = 2
    MaxUpdates = 1
    Stages = {1, 2, 3, 4, 5, 8}
    MaxFaults = 1
INVARIANTS
    ChannelIsUsable
    
    RestoreBringsBack
CHECK_DEADLOCK FALSE

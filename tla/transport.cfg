SPECIFICATION Spec
CONSTANTS
    Script <- MCScript
    KernelBuffer = 1
    BufferLimit = 2
    MaxConnections = 2
    MaxFaults = 1
INVARIANTS
    MessagesAreIntact
    SegmentsAreExpected
 
CHECK_DEADLOCK FALSE

SPECIFICATION Spec
CONSTANTS
    Messages <- MCMessages
    InitialBufferSizes <- MCInitialBufferSizes
    MaxGrowth = 5
    SizeMax = 65535
INVARIANTS
    ClosedOnlyIfNotFullySent
CHECK_DEADLOCK FALSE

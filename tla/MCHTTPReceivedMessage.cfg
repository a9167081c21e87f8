SPECIFICATION Spec
CONSTANTS
    Messages <- MCMessages
    InitialBufferSizes <- MCInitialBufferSizes
    MaxGrowth = 5
    SizeMax = 65535
INVARIANTS
    TypeOK
    ResultIsWhatWasSent
    RoomForWhatIsRead
    PastTheEndOnlyAfterAChunk
    ContentLengthIsNotTrusted
    ClosedIsExplained
PROPERTIES
    ImplementsHTTPHelper
    EndsOncePeerHasEnded
    ShortMessageNeedsNoEOF
CHECK_DEADLOCK FALSE

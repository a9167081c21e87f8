SPECIFICATION Spec
CONSTANTS
    MaxBytes = 8
    Capacity = 3
    RecordSizes <- MCRecordSizes
    BufferLengths <- MCBufferLengths
INVARIANTS
    TypeOK
    NeverWritesPastTheBuffer
    RecordsNeverTorn
    EverythingSentIsReturned
    ShortFillOnlyAtTheEnd
PROPERTIES
    ReaderReturnsOnceEnded
    WriterIsNotStuck
CHECK_DEADLOCK FALSE

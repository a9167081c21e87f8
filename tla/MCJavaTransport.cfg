SPECIFICATION Spec
CONSTANTS
    Calls <- MCCalls
    Answers <- MCAnswers
    Files <- MCFiles
    NoFile <- MCNoFile
    BufferSize = 2
INVARIANTS
    TypeOK
    FilesAreKept
PROPERTIES
    ImplementsHTTPCall
CHECK_DEADLOCK FALSE

SPECIFICATION Spec
CONSTANTS
    Calls <- MCCalls
    Answers <- MCAnswers
    Files <- MCFiles
    NoFile <- MCNoFile
    BufferSize = 2
INVARIANTS
    BodyIsReturned
CHECK_DEADLOCK FALSE

SPECIFICATION Spec
CONSTANTS
    Words <- MCWords
    Numbers <- MCNumbers
    Calls <- MCCalls
    AnswerSets <- MCAnswerSets
    Files <- MCFiles
    NoFile = "no file"
    DiskErrors <- AnyError
INVARIANTS
    SavedBodyIsInTheFile
CHECK_DEADLOCK FALSE

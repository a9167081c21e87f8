SPECIFICATION Spec
CONSTANTS
    Words <- MCWords
    Numbers <- MCNumbers
    Calls <- MCCalls
    AnswerSets <- MCAnswerSets
    Files <- MCFiles
    NoFile = "no file"
    DiskErrors <- AnyError
PROPERTIES
    AnyPathStaysOnServer
CHECK_DEADLOCK FALSE

SPECIFICATION Spec
CONSTANTS
    Words <- MCWords
    Numbers <- MCNumbers
    Calls <- MCCalls
    AnswerSets <- MCAnswerSets
    Files <- MCFiles
    NoFile = "no file"
    DiskErrors <- AnyError
INVARIANTS
    TypeOK
    RedirectLoopIsReal
    ResponseIsFromReportedURL
PROPERTIES
    ImplementsHTTPCall
    PlainPathStaysOnServer
    EndsUnlessLedToNewURLs
CHECK_DEADLOCK FALSE

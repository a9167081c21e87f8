SPECIFICATION Spec
CONSTANTS
    Events = {e1, e2}
    Servers = {"a", "b"}
    None = "none"
    MaxSetups = 2
    MaxThreads = {1, 2}
INVARIANTS
    TypeOK
    PostedWhereLogged
    CopiesAreUsable
    WellBehavedAppSurvives
PROPERTIES
    ThreadsEnd
CHECK_DEADLOCK FALSE

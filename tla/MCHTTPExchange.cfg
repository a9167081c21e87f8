SPECIFICATION Spec
CONSTANTS
    Exchanges <- MCExchanges
    MaxGrowth = 2
    SizeMax = 65535
INVARIANTS
    TypeOK
    BothSidesAgree
    NoWriteAfterReset
    NobodyThrowsUnlessFull
    DeadlockOnlyIfFull
PROPERTIES
    EveryRequestIsAnswered
    NeitherSideIsLeftWaiting
CHECK_DEADLOCK FALSE

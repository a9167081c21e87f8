SPECIFICATION Spec
CONSTANTS
    Exchanges <- MCLargePost
    MaxGrowth = 50
    SizeMax = 65535
PROPERTIES
    EveryPostIsAnswered
CHECK_DEADLOCK FALSE

SPECIFICATION Spec
CONSTANTS
    Objects = {o1, o2, o3}
    MaxDescriptor = 3
    MaxFailures = 2
INVARIANTS
    TypeOK
    DescriptorsHaveOneOwner
    LeaksAreKnown
CHECK_DEADLOCK FALSE

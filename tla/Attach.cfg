CONSTANTS
    Instances = {p1, p2}
    Devices = {ttyS1, ttyS2}
    Default = ttyS1
    Shared = {ttyS2}
    Args <- SomeArgs
    MatchFiles <- UpToTwo
    RetryTime = 4
    RetryUnit = 2
    Nobody = nobody
SPECIFICATION Spec
INVARIANTS
    TypeOK
    OneInstance
    AttachedLineIsCbc
    DescriptorOwned
    AttemptsExact
    SameLine
PROPERTY
    StartConcludes

CONSTANTS
    Instances = {p1, p2}
    Devices = {ttyS1, ttyS2}
    Default = ttyS1
    Shared = {ttyS2}
    Args <- SomeArgs
    MatchFiles <- NoLines
    RetryTime = 4
    RetryUnit = 2
    Nobody = nobody
SPECIFICATION Spec
INVARIANT
    ExitRestoresLine

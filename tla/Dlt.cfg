CONSTANTS
    W = 3
    ArgLists <- MixedLists
    Events <- ThreeEvents
    MaxRequests = 2
    Deployments <- Alone
    W64 = 8
    MaxLag = 1
    MaxLagged = 1
    MaxEpoch = 1
    MaxQueue = 1
    MaxArg = 5
    StringSize = 2
    SizeBytes = {0, 9}
SPECIFICATION Spec
INVARIANTS
    TypeOK
    DriftKnown
    ArgumentsArrive
    FirstAnswerSane
    SuccessMeansAsked
PROPERTIES
    TimeNeverGoesBack
    PingConcludes
    ToolEnds

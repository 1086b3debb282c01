CONSTANTS
    IsAcrn = FALSE
    RetryCnt = 2
    Reasons <- OffS5Alive
    Answers <- NoAnswers
    SemMax = 1
    MaxStops = 1
    RtcTimers = FALSE
    TermBeats = {}
SPECIFICATION Spec
CHECK_DEADLOCK FALSE
PROPERTIES
    ImplementsPowerProtocol
    NativeLeaveConcludes
    AgreementTold

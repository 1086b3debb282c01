CONSTANTS
    IsAcrn = TRUE
    RetryCnt = 2
    Reasons <- OffLeaveAlive
    Answers <- SuspendAnswers
    SemMax = 1
    MaxStops = 1
    RtcTimers = TRUE
    TermBeats = {}
SPECIFICATION Spec
CHECK_DEADLOCK FALSE
PROPERTIES
    LeaveConcludes
    OffConcludes

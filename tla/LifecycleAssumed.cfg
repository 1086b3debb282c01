CONSTANTS
    IsAcrn = TRUE
    RetryCnt = 2
    Reasons <- OffLeaveAlive
    Answers <- SuspendAnswers
    SemMax = 1
    MaxStops = 1
    RtcTimers = FALSE
    TermBeats = {}
SPECIFICATION Spec
CHECK_DEADLOCK FALSE
PROPERTY
    AssumeOnlyInDelay

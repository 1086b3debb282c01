CONSTANTS
    IsAcrn = TRUE
    RetryCnt = 2
    Reasons <- OffLeaveAlive
    Answers <- AllAnswers
    SemMax = 1
    MaxStops = 1
    RtcTimers = FALSE
    TermBeats = {"reboot"}
SPECIFICATION Spec
CHECK_DEADLOCK FALSE
INVARIANTS
    TypeOK
    PowerActionGranted
    HeartbeatGranted
    ToldIsDone
    DelayJustified
    AssumeAfterAllRetries
    ResumeBounded
    DelayOwned
PROPERTY
    ImplementsPowerProtocol

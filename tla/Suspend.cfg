CONSTANTS
    IsAcrn = TRUE
    RetryCnt = 2
    Reasons <- WakeOff
    Answers <- Agrees
    SemMax = 1
    RtcTimers = TRUE
    TermBeats = {}
    MaxStops = 1
    MaxField = 3
    Scales <- SmallScales
    Byte = 2
    IntWidth = 256
    Times = {0, 18, 257}
    Setups <- OneByOne
SPECIFICATION CycleSpec
INVARIANTS
    CycleTypeOK
    TimerAsAsked
    TimersNotLost
    ResumedKnowWhy
    NoOldAnswer
    ThermaldAsBefore
    SleepsWithoutThermald

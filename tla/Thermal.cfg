CONSTANTS
    Sensors = {env}
    Readings = {hot}
    Zero = zero
    Users = {u1, u2}
    Texts <- TwoTexts
    Duties <- FanOff
    MaxQueue = 1
    MaxWrites = 2
    MaxDrops = 1
    WritesFail = TRUE
SPECIFICATION Spec
CHECK_DEADLOCK FALSE
INVARIANTS
    TypeOK
    ReadsDoNotBlock
    OneLateFrame
PROPERTY
    FloorRestored

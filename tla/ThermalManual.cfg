CONSTANTS
    Sensors = {env}
    Readings = {cool, hot}
    Zero = zero
    Users = {u1, u2}
    Texts <- TwoTexts
    Duties <- FanOff
    MaxQueue = 1
    MaxWrites = 0
    MaxDrops = 1
    WritesFail = TRUE
SPECIFICATION Spec
CHECK_DEADLOCK FALSE
PROPERTY
    ManualValueStays

SPECIFICATION Spec
CONSTANTS
    a = a
    b = b
    c = c
    Devices <- MCDevices
    WithBLE <- MCWithBLE
    Attempts = 2
INVARIANTS TypeOK AliyunSurvives
PROPERTIES UnboundSettles
CHECK_DEADLOCK FALSE

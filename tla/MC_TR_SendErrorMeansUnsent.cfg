CONSTANTS
    MaxHead = 2
    MaxRetries = 1
    InitialBackoff = 2
    MaxBackoff = 5
    MultNum = 3
    MultDen = 2
    MaxConfirmations = 1

SPECIFICATION Spec

INVARIANT SendErrorMeansUnsent

CHECK_DEADLOCK FALSE

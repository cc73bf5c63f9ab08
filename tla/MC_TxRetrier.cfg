CONSTANTS
    MaxHead = 2
    MaxRetries = 4
    InitialBackoff = 2
    MaxBackoff = 5
    MultNum = 3
    MultDen = 2
    MaxConfirmations = 1

SPECIFICATION FairSpec

INVARIANT TypeOK
PROPERTY SendTerminates BackoffMonotone

CHECK_DEADLOCK FALSE

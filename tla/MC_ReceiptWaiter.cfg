CONSTANTS
    MaxHead = 2
    MaxConsecutiveErrors = 2
    MaxPolls = 4

SPECIFICATION FairSpec

INVARIANT TypeOK
INVARIANT ErrorStreakRespected
PROPERTY ImplementsReceiptWait

CHECK_DEADLOCK FALSE

CONSTANTS
    MaxHead = 3
    MaxConfirmations = 1
    MaxPolls = 6

SPECIFICATION Spec

INVARIANT TypeOK
PROPERTY ImplementsReceiptWait

CHECK_DEADLOCK FALSE

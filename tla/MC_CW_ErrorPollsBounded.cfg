CONSTANTS
    MaxHead = 3
    MaxConfirmations = 1
    MaxPolls = 6

SPECIFICATION Spec

INVARIANT ErrorPollsBounded

CHECK_DEADLOCK FALSE

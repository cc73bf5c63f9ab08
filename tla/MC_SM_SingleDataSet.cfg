\* A lost create answer or a failed creation wait, then the next Upload.
CONSTANTS
    Pieces = {p1}
    MaxClientIds = 3
    MaxRequests = 3
    MaxUploads = 2
SPECIFICATION Spec
INVARIANT SingleDataSet
CHECK_DEADLOCK FALSE

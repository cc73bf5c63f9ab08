\* One caller, one piece uploaded up to three times; up to four requests
\* taken by the server, so that a create and an add, and a failed first
\* Upload followed by a complete one, both fit.
CONSTANTS
    Pieces = {p1}
    MaxClientIds = 3
    MaxRequests = 4
    MaxUploads = 3
SPECIFICATION Spec
INVARIANT TypeOK ResultPieceOnChain AddsSignedForDataSet
CHECK_DEADLOCK FALSE

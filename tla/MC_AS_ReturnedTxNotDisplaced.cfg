\* Two goroutines calling payments / erc20 transact at once.
CONSTANTS
    SPProcs = {}
    PayProcs = {p1, p2}
    MaxNonce = 3
    MaxSends = 3
    NoNonce = NoNonce
SPECIFICATION Spec
INVARIANT ReturnedTxNotDisplaced
CHECK_DEADLOCK FALSE

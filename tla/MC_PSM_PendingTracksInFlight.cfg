CONSTANTS
    Procs = {p1, p2}
    MaxNonce = 3
    MaxSends = 4
    NoNonce = NoNonce
    NoTx = NoTx

SPECIFICATION Spec

INVARIANT PendingTracksInFlight

SYMMETRY ProcSymmetry


CHECK_DEADLOCK FALSE

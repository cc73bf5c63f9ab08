CONSTANTS
    Procs = {p1, p2}
    MaxNonce = 3
    MaxSends = 4
    NoNonce = NoNonce
    NoTx = NoTx

SPECIFICATION Spec

SYMMETRY ProcSymmetry

INVARIANT TypeOK
INVARIANT NoncesExclusive
INVARIANT SentTxNotDisplaced

CHECK_DEADLOCK FALSE

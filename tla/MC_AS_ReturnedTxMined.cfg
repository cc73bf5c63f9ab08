\* spregistry calls alone: a nonce taken from the cached counter and lost
\* to a failed call leaves a gap no later call fills.
CONSTANTS
    SPProcs = {s1, s2}
    PayProcs = {}
    MaxNonce = 3
    MaxSends = 3
    NoNonce = NoNonce
SPECIFICATION FairSpec
PROPERTY ReturnedTxMined
CHECK_DEADLOCK FALSE

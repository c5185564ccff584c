SPECIFICATION PersistSpec
CONSTANTS
    a = a
    b = b
    c = c
    k = k
    NoKey = NoKey
    NoTx = NoTx
    Jobs = {j1, j2}
    Txs <- MCTxs
    NatKey <- MCNatKey
    MaxAttempts = 2
    MaxFaults = 1
SYMMETRY JobSymmetry
CHECK_DEADLOCK FALSE
INVARIANTS
    PersistTypeOK
    WriteExclusive
    OneRowPerKey
    OkCoversBatch
    HalfPostedIsFailure

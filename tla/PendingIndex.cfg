SPECIFICATION PersistSpec
CONSTANTS
    a = a
    b = b
    c = c
    k = k
    NoKey = NoKey
    NoTx = NoTx
    Jobs = {j1, j2}
    Txs <- MCTxs
    NatKey <- MCNatKey
    MaxAttempts = 2
    MaxFaults = 1
CHECK_DEADLOCK FALSE
INVARIANT
    OneRowPerPending

SPECIFICATION JobSpec
CONSTANTS
    a = a
    b = b
    k = k
    i1 = i1
    NoKey = NoKey
    NoTx = NoTx
    Jobs = {j1, j2}
    Txs <- MCTxs
    NatKey <- MCNatKey
    Ingests <- MCIngests
    JobIngest <- MCJobIngest
    TxIngest <- MCTxIngest
    ViaBIngests = {}
    Slots = 1
    MaxAttempts = 2
    MaxFaults = 0
    MaxCrashes = 0
CHECK_DEADLOCK FALSE
INVARIANT
    SlotsAccounted

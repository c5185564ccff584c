SPECIFICATION FairJobSpec
CONSTANTS
    a = a
    c = c
    k = k
    j1 = j1
    j2 = j2
    i1 = i1
    i2 = i2
    NoKey = NoKey
    NoTx = NoTx
    Jobs <- MCJobs
    Txs <- MCTxs
    NatKey <- MCNatKey
    Ingests <- MCIngests
    JobIngest <- MCJobIngest
    TxIngest <- MCTxIngest
    ViaBIngests <- MCViaB
    Slots = 1
    MaxAttempts = 2
    MaxFaults = 1
    MaxCrashes = 1
CHECK_DEADLOCK FALSE
PROPERTIES
    JobSettles
    PermitReturns

CONSTANTS
    Ings = {i1, i2}
    Runs = {r1, r2}
    Fanout = {i2}
    None = None
    Slots = 1
    DocSize = 2
    MaxAttempts = 2
    MaxNodeRetries = 2
    MaxEdits = 1
    MaxFaults = 1
SPECIFICATION Spec
INVARIANTS IngestTypeOK   StagedOncePerAttempt
PROPERTIES LockNeverMoves 
CHECK_DEADLOCK FALSE

SPECIFICATION RouterSpec
CONSTANTS
    MaxRetries = 3
    ContadorBudget = 2
    GlobalFailures = 5
    MaxAuditorRetries = 3
CHECK_DEADLOCK FALSE
INVARIANTS
    RouterTypeOK
    PersistedIsSanctioned
    ReviewHasRecord
    FullAttempts
    BoundedLoops
PROPERTY
    KeepsContract

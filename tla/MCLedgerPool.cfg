CONSTANTS
    Pooled = TRUE
    LateInserts = TRUE
    MaxEntries = 5
    MaxFailures = 1
    MaxRestarts = 2
SPECIFICATION Spec
CHECK_DEADLOCK FALSE
INVARIANTS
    TypeOK
    BreaksOnlyLoaded
    StoredOnce

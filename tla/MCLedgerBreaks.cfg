CONSTANTS
    Pooled = TRUE
    LateInserts = FALSE
    MaxEntries = 3
    MaxFailures = 0
    MaxRestarts = 1
SPECIFICATION Spec
CHECK_DEADLOCK FALSE
INVARIANTS
    ChainUnbroken

SPECIFICATION Spec
CONSTANTS
    MaxAddr = 15
INVARIANT
    CopiesSizeBytes
CHECK_DEADLOCK FALSE

SPECIFICATION Spec
CONSTANTS
    MaxAddr = 15
INVARIANTS
    MoveExact WordsAligned
PROPERTIES
    CopyReturns
CHECK_DEADLOCK FALSE

SPECIFICATION Spec
CONSTANTS
    WORD = 256
    MAX_PART_COUNT <- MCMaxPart
    Tables <- MCTables
    Starts <- MCStarts
    ArgLens <- MCArgLens
    MaxRuns = 2
    MaxFaults = 2
INVARIANTS
    GoodCopiesSound
    RunHonest
PROPERTY
    SwitchOnce
CHECK_DEADLOCK FALSE

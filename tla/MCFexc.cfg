SPECIFICATION Spec
CONSTANTS
    WORD = 16
    SCRIPT_BIN_SECTION_LIMIT = 2
    HexaIds <- MCHexaIds
    Tails <- MCTails
    UserFiles <- MCUserFiles
    MaxRuns = 3
    MaxFaults = 1
INVARIANTS
    BinExact
    RoundTrip
    ExitHonest
CHECK_DEADLOCK FALSE

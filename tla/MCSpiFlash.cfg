SPECIFICATION Spec
CONSTANTS
    FlashSize = 208
    SmallErase = 4
    LargeErase = 16
    ProgramSize = 2
    MaxChunk = 100
    Slack = 64
    Starts = {0, 2, 4, 16}
    ReadLens = {0, 1, 91, 92, 93, 184}
    WriteLens = {0, 1, 2, 5, 16, 23}
    MaxCrashes = 1
INVARIANTS
    ReadExact
    WriteExact
    NeighboursKept
    ChipReady
    CmdFits
    EndFound
PROPERTIES
    Terminates
CHECK_DEADLOCK FALSE

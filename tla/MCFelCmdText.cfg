CONSTANTS
    Ports <- MCPorts
    Board <- MCBoard
    MaxBusChanges = 1
    MaxAddr = 20
    HEADER_SIZE = 1
    SPL_MIN_OFFSET = 4
    UENV_MAGIC = 1
    FileInfo <- MCFileInfo
    Starts <- MCTextStarts
    MaxFileChanges = 1
SPECIFICATION Spec
INVARIANT
    TextsKept
CHECK_DEADLOCK FALSE

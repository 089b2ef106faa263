CONSTANTS
    Ports <- MCPorts
    Board <- MCBoard
    MaxBusChanges = 1
    MaxAddr = 20
    HEADER_SIZE = 1
    SPL_MIN_OFFSET = 4
    UENV_MAGIC = 1
    FileInfo <- MCFileInfo
    Starts <- MCStarts
    MaxFileChanges = 1
SPECIFICATION Spec
INVARIANTS
    RightDevice
    UBootIntact
    StartRight
    ImageLoaded
    NoWordLost
    UploadProgress
CHECK_DEADLOCK FALSE

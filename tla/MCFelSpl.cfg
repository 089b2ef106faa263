SPECIFICATION Spec
CONSTANTS
    AddrMod = 64
    HeaderSize = 2
    ThunkCode = 1
    PointerSize = 1
    EntrySize = 1
    ScratchSize = 1
    TtSize = 4
    Socs <- MCSocs
    MaxAddr = 19
    MaxFile = 12
    MinFile = 2
    SigWord = 0
    LenWord = 1

INVARIANTS TypeOK BromSafe SplComplete ThunkIntact MmuSafe NoFalseSuccess VerdictJustified
PROPERTIES Contained
CHECK_DEADLOCK FALSE

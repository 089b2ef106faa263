SPECIFICATION Spec
CONSTANTS
    AddrMod = 1073741824
    HeaderSize = 20
    ThunkCode = 276
    PointerSize = 4
    EntrySize = 12
    ScratchSize = 1024
    TtSize = 16384
    UnknownIds <- MCUnknownIds

INVARIANTS LookupExact 
PROPERTIES ListComplete
CHECK_DEADLOCK FALSE

SPECIFICATION FairSpec
CONSTANTS
    MaxAddr = 2
    MaxLen = 3
    Val = {v0, v1}
    NoByte = none
    MaxSend = 3
    MaxSendProgress = 2
    IntMax = 4
    UsbReqSize = 4
    FelReqSize = 1
    RespSize = 2
    StatusSize = 1
    VersionSize = 2
INVARIANTS
    TypeOK InStep ResponseIsAWUS PayloadExact ProgressExact
PROPERTIES
    CallReturns ImplementsFelMem
CHECK_DEADLOCK FALSE

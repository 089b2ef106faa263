SPECIFICATION Spec
CONSTANTS
    MaxAddr = 2
    MaxLen = 2
    Val = {v0, v1}
    NoByte = none
    MaxSend = 2
    MaxSendProgress = 1
    IntMax = 1
    UsbReqSize = 1
    FelReqSize = 1
    RespSize = 1
    StatusSize = 1
    VersionSize = 1
INVARIANT
    ResponseIsAWUS
CHECK_DEADLOCK FALSE

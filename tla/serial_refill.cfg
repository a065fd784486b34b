CONSTANTS
    Drv = "zynq"
    Msgs <- MCShortChunks
    FifoSize = 2
    SpFifoSize = 1
    MaxOpen = 1
    MaxTermios = 0
    ZynqClock = 50000000
    Requests <- MCRequests
    MaxPutc = 0
    MaxRx = 0
    PutcByte = PutcByte
SPECIFICATION Spec
PROPERTIES AllDelivered
CHECK_DEADLOCK FALSE

CONSTANTS
    Drv = "ns16550"
    Msgs <- MCTwoChunks
    FifoSize = 2
    SpFifoSize = 1
    MaxOpen = 1
    MaxTermios = 1
    ZynqClock = 50000000
    Requests <- MCRequests
    MaxPutc = 1
    MaxRx = 1
    PutcByte = PutcByte
SPECIFICATION Spec
PROPERTIES IsrUsesOpenTty
CHECK_DEADLOCK FALSE

CONSTANTS
    Drv = "zynq"
    Msgs <- MCTwoChunks
    FifoSize = 2
    SpFifoSize = 1
    MaxOpen = 2
    MaxTermios = 1
    ZynqClock = 50000000
    Requests <- MCRequests
    MaxPutc = 1
    MaxRx = 1
    PutcByte = PutcByte
SPECIFICATION Spec
INVARIANTS TypeOK TxStream
PROPERTIES IsrUsesOpenTty
CHECK_DEADLOCK FALSE

CONSTANTS
    Drv = "zynq"
    Msgs <- MCTwoBytes
    FifoSize = 2
    SpFifoSize = 1
    MaxOpen = 1
    MaxTermios = 0
    ZynqClock = 50000000
    Requests <- MCRequests
    MaxPutc = 1
    MaxRx = 1
    PutcByte = PutcByte
SPECIFICATION Spec
INVARIANTS NoSpuriousTxIrq
CHECK_DEADLOCK FALSE

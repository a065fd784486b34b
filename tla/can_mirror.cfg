CONSTANTS
    RxSize = 2
    TxSize = 2
    MaxFilter = 2
    TxQueue = 1
    MaxFds = 2
    CANFd = 3
SPECIFICATION Spec
INVARIANT ModuleMirrorsDevice
\* the descriptors run out after two inits; the model may stop there
CHECK_DEADLOCK FALSE

CONSTANTS
    Delays <- MCDelays
    Timeouts <- MCTimeouts
    MaxRounds = 2
    ULongMod = 65536
SPECIFICATION Spec

PROPERTIES LinuxWaitContract

\* wait_for_completion_timeout(x, 0): TLC finds TimedWaitReturns violated,
\* the receive with interval 0 (RTEMS_NO_TIMEOUT) waits for ever
CONSTANTS
    Delays <- MCDelays
    Timeouts <- MCTimeouts0
    MaxRounds = 2
    ULongMod = 65536
SPECIFICATION Spec
PROPERTIES TimedWaitReturns

CONSTANTS
    w1 = w1
    w2 = w2
    None = None
    Widgets <- MCWidgets
    Parent <- MCParent
    N = 2
    MaxPost = 2
    MaxTicks = 3
    MaxCycles = 2
SPECIFICATION Spec
INVARIANTS TypeOK ChainsPartition QueueOrder TimerParkedWhileAsleep
\* the bounds end every behaviour with both tasks blocked
CHECK_DEADLOCK FALSE

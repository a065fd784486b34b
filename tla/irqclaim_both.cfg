CONSTANTS
    d1 = d1
    d2 = d2
    a1 = a1
    a2 = a2
    i1 = i1
    i2 = i2
    i3 = i3
    None = None
    Devs <- MCDevs
    Irqs = {5}
    Args <- MCArgs1
    DrIds <- MCDrIds2
    NCPU = 1
    CpuNrs = {0}
SPECIFICATION Spec
INVARIANTS
    HardHandlerDispatched
\* the driver tasks return; a run may end with every device removed
CHECK_DEADLOCK FALSE

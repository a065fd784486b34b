CONSTANTS
    d1 = d1
    d2 = d2
    a1 = a1
    a2 = a2
    i1 = i1
    i2 = i2
    i3 = i3
    None = None
    Devs <- MCDevs1
    Irqs = {5}
    Args <- MCArgs
    DrIds <- MCDrIds2
    NCPU = 1
    CpuNrs = {0}
SYMMETRY MCSymmetry
SPECIFICATION Spec
INVARIANTS
    TypeOK
    ClaimsConsistent
PROPERTIES
    Refinement
\* once every device is removed and the server is idle nothing is left to run
CHECK_DEADLOCK FALSE

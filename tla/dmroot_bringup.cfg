CONSTANTS
    r = r
    a = a
    b = b
    c = c
    ch = ch
    e = e
    f = f
    pl = pl
    None = None
    Nodes <- MCNodes
    FwRoot = r
    Plat = pl
    Sub <- MCSub
    Enabled <- MCEnabled
    AuxPaths <- MCAuxPaths
    Hw <- MCHw
SPECIFICATION Spec
INVARIANTS
    TypeOK
    BringUpMatchesReference
PROPERTIES
    ProbeAll
    BringUpEnds
\* bring-up stops: after dm_uninit, or at a panic
CHECK_DEADLOCK FALSE

\* the trees MCRefTrees leaves out: a device without reg behind a map-less
\* bus; TLC finds MatchesReference violated (of_irq.c:187)
CONSTANTS
    r = r
    b = b
    g = g
    p = p
    d = d
    Dangling = Dangling
    None = None
    Garbage = Garbage
    Nodes <- MCNodes
    Dev = d
    Trees <- MCNoRegTrees
    MaxIndex = 1
    MAX_PHANDLE_ARGS = 4
    CellValues = {0, 1}
    CellMask = 1
    GicIds <- MCGicIds
SPECIFICATION Spec
INVARIANTS
    MatchesReference
\* one call of dev_read_irq_index: it returns and the model stops there
CHECK_DEADLOCK FALSE

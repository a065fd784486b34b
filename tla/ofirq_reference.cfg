CONSTANTS
    r = r
    b = b
    g = g
    p = p
    d = d
    Dangling = Dangling
    None = None
    Garbage = Garbage
    Nodes <- MCNodes
    Dev = d
    Trees <- MCRefTrees
    MaxIndex = 1
    MAX_PHANDLE_ARGS = 4
    CellValues = {0, 1}
    CellMask = 1
    GicIds <- MCGicIds
SPECIFICATION Spec
INVARIANTS
    TypeOK
    MatchesReference
    GicDeterministic
\* one call of dev_read_irq_index: it returns and the model stops there
CHECK_DEADLOCK FALSE

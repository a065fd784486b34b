CONSTANTS
    Plats <- MCPlats
    Pins <- MCPins
    IrqTypes <- MCIrqTypes
    MaxOps = 4
    MaxEdges = 1
    MaxIrqs = 1
SPECIFICATION Spec
PROPERTY DispatchesPendingPins
\* the bounds end every behaviour
CHECK_DEADLOCK FALSE

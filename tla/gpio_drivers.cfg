\* both GPIO drivers: the zynq device of gpio_zynq.cfg and an OMAP bank
CONSTANTS
    Plats <- MCPlats
    Pins <- MCPins
    IrqTypes <- MCIrqTypes
    MaxOps = 4
    MaxEdges = 1
    MaxIrqs = 1
SPECIFICATION GpioSpec
INVARIANTS TypeOK BankPinReference PinConfigHolds OmapTypeOK OmapPinConfigHolds
PROPERTY OmapEventsDispatched
\* the bounds end every behaviour
CHECK_DEADLOCK FALSE

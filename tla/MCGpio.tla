------------------------------- MODULE MCGpio -------------------------------
(***************************************************************************)
(* The two GPIO drivers of UCLASS_GPIO in one model: a device is bound to  *)
(* the driver whose id table holds its compatible, zynq_gpio or gpio_omap, *)
(* and each behaviour is the life of one such device. The zynq device is   *)
(* the one of MCGpioZynq. The OMAP device uses pins 0 and 31 of its bank   *)
(* (31 is the sign bit of `1 << gpio`), with "high" then "rising" on one   *)
(* pin and two edges, so that an edge can arrive between the handler's     *)
(* read and its write back while another pin's event is pending.          *)
(***************************************************************************)
EXTENDS GpioZynq

MCPlats == {"zynq", "zynqmp", "versal", "pmc"}
MCPins == {7, 40, 50, 118}
MCIrqTypes == {"rising", "both", "low", "none"}
OmapPins == {0, 31}
OmapIrqTypes == {"rising", "high", "none"}
OmapMaxEdges == 2
OmapMaxIrqs == 2

VARIABLES
    drv,            \* the driver the device is bound to
    probed, oe, dataout, irqenable, irqstatus, risingdetect, fallingdetect,
    leveldetect0, leveldetect1, handler, hpending,
    omLevel, omRet, omWantDir, omWantVal, omWantType, omLastDispatch,
    omNops, omNedges, omNirqs

O == INSTANCE GpioOmap WITH
        Pins <- OmapPins, IrqTypes <- OmapIrqTypes,
        MaxEdges <- OmapMaxEdges, MaxIrqs <- OmapMaxIrqs,
        probed <- probed, oe <- oe, dataout <- dataout, irqenable <- irqenable,
        irqstatus <- irqstatus, risingdetect <- risingdetect,
        fallingdetect <- fallingdetect, leveldetect0 <- leveldetect0,
        leveldetect1 <- leveldetect1, handler <- handler, hpending <- hpending,
        level <- omLevel, ret <- omRet, wantDir <- omWantDir,
        wantVal <- omWantVal, wantType <- omWantType,
        lastDispatch <- omLastDispatch,
        nops <- omNops, nedges <- omNedges, nirqs <- omNirqs

omVars == <<probed, oe, dataout, irqenable, irqstatus, risingdetect,
            fallingdetect, leveldetect0, leveldetect1, handler, hpending,
            omLevel, omRet, omWantDir, omWantVal, omWantType, omLastDispatch,
            omNops, omNedges, omNirqs>>

\* plat is read only by zynq_gpio; for an OMAP device it is held at one value
GpioInit ==
    /\ drv \in {"zynq_gpio", "gpio_omap"}
    /\ Init /\ O!Init
    /\ drv = "gpio_omap" => plat = "zynq"

GpioNext ==
    \/ drv = "zynq_gpio" /\ Next /\ UNCHANGED <<drv, omVars>>
    \/ drv = "gpio_omap" /\ O!Next /\ UNCHANGED <<drv, vars>>

GpioSpec == GpioInit /\ [][GpioNext]_<<drv, vars, omVars>>

\* The OMAP state has its types.
OmapTypeOK == O!TypeOK

\* An OMAP pin keeps the latch, direction and trigger detection last
\* requested for it through the read-modify-writes of the shared bank
\* registers (GpioOmap!PinConfigHolds).
OmapPinConfigHolds == O!PinConfigHolds

\* omap_gpio_irqhandler never clears an edge event it did not pass on,
\* also when the edge arrives between its read and its write back
\* (GpioOmap!EventsDispatched).
OmapEventsDispatched == O!EventsDispatched
=============================================================================

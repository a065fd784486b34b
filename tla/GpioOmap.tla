------------------------------ MODULE GpioOmap ------------------------------
(***************************************************************************)
(* The TI OMAP/AM43xx GPIO driver (drivers/gpio/omap_gpio.c): one device   *)
(* is one bank of 32 pins. Modelled are of_to_plat and probe, the          *)
(* dm_gpio_ops and gpio_irqchip operations on the bank registers, and the  *)
(* interrupt handler, against the register semantics of the controller.    *)
(*                                                                         *)
(* Registers are 32-bit words, each the set of its bits that are 1. The    *)
(* register header is not in the repository; its offsets follow the TRM,   *)
(* where SETDATAOUT is CLEARDATAOUT + 4 and DATAOUT is DATAIN + 4, which   *)
(* the driver's offset arithmetic relies on. The uclass calls one          *)
(* operation at a time and each is one step. The interrupt handler         *)
(* preempts tasks; it reads and writes back IRQSTATUS in two steps, and    *)
(* the pins may change between them. `1 << gpio` for gpio = 31 overflows   *)
(* int; GCC for ARM yields bit 31, the only outcome modelled.              *)
(***************************************************************************)
EXTENDS Integers, FiniteSets

CONSTANTS
    Pins,       \* offsets the uclass passes (0 .. GPIO_PER_BANK - 1)
    IrqTypes,   \* IRQ_TYPE_* values the callers request
    MaxOps,     \* bound on driver operations
    MaxEdges,   \* bound on level changes driven from outside
    MaxIrqs     \* bound on runs of the interrupt handler

GPIO_PER_BANK == 32
Bits == 0 .. GPIO_PER_BANK - 1
BIT(n) == {n}
BitOf(x, n) == IF n \in x THEN 1 ELSE 0

ASSUME Pins \subseteq Bits

OMAP_GPIO_DIR_OUT == 0
OMAP_GPIO_DIR_IN == 1
GPIOF_INPUT == 0
GPIOF_OUTPUT == 1
EINVAL == 22
ENOMEM == 12
NoValue == -1       \* wantVal of a pin nothing was written to

VARIABLES
    probed,                 \* probe returned 0: the uclass calls the ops
    oe, dataout,            \* GPIO_OE (1 = input) and the output latch
    irqenable,              \* IRQENABLE_0, written by IRQSTATUS_SET_0/CLR_0
    irqstatus,              \* edge events latched in IRQSTATUS_RAW_0
    risingdetect, fallingdetect, leveldetect0, leveldetect1,
    level,                  \* level[p]: the level driven onto pin p from outside
    ret,                    \* the value the last call returned
    handler, hpending,      \* the interrupt handler: "idle"/"read", what it read
    wantDir, wantVal, wantType,  \* ghost: the last request that succeeded, per pin
    lastDispatch,           \* offsets the last handler run passed on
    nops, nedges, nirqs

regs == <<oe, dataout, irqenable, irqstatus, risingdetect, fallingdetect,
          leveldetect0, leveldetect1>>
detect == <<risingdetect, fallingdetect, leveldetect0, leveldetect1>>
wants == <<wantDir, wantVal, wantType>>
vars == <<probed, regs, level, ret, handler, hpending, wants, lastDispatch,
          nops, nedges, nirqs>>

(***************************************************************************)
(* The controller                                                          *)
(***************************************************************************)

\* DATAIN: an output pin shows its latch, an input pin the level driven
\* onto it (0 on pins nothing drives)
DataIn == {p \in Bits : IF p \notin oe THEN p \in dataout
                        ELSE p \in Pins /\ level[p] = 1}

\* pins whose level matches their level detection: their status stays set
LevelActive == (DataIn \cap leveldetect1) \cup ((Bits \ DataIn) \cap leveldetect0)

\* edges the detect logic latches when DATAIN changes in a step
Edges == ((DataIn' \ DataIn) \cap risingdetect)
         \cup ((DataIn \ DataIn') \cap fallingdetect)

\* IRQSTATUS_0: raw events of the enabled pins; the line is up when non-empty
Status == (irqstatus \cup LevelActive) \cap irqenable

Init ==
    /\ probed = FALSE
    /\ oe = Bits /\ dataout = {} /\ irqenable = {} /\ irqstatus = {}
    /\ risingdetect = {} /\ fallingdetect = {}
    /\ leveldetect0 = {} /\ leveldetect1 = {}
    /\ level = [p \in Pins |-> 0]
    /\ ret = 0 /\ handler = "idle" /\ hpending = {}
    /\ wantDir = [p \in Pins |-> "none"] /\ wantVal = [p \in Pins |-> NoValue]
    /\ wantType = [p \in Pins |-> "none"]
    /\ lastDispatch = {}
    /\ nops = 0 /\ nedges = 0 /\ nirqs = 0

(***************************************************************************)
(* of_to_plat and probe                                                    *)
(***************************************************************************)

\* omap_gpio_of_to_plat, then omap_gpio_probe: no reg gives -EINVAL; a
\* failed strdup -ENOMEM; a failed handler install the positive errno of
\* rtems_status_code_to_errno. An irq that dev_read_irq_index could not
\* read is not caught (it is compared with FDT_ADDR_T_NONE) and fails the
\* install. On success the handler is installed with IRQENABLE still 0.
omap_gpio_probe ==
    /\ ~probed
    /\ \/ probed' = TRUE /\ ret' = 0
       \/ \E e \in {-EINVAL, -ENOMEM, EINVAL} : ret' = e /\ UNCHANGED probed
    /\ UNCHANGED <<regs, level, handler, hpending, wants, lastDispatch, nops,
                   nedges, nirqs>>

(***************************************************************************)
(* dm_gpio_ops                                                             *)
(***************************************************************************)

\* _set_gpio_direction: read-modify-write of GPIO_OE
set_gpio_direction(p, is_input) ==
    oe' = IF is_input = 1 THEN oe \cup BIT(p) ELSE oe \ BIT(p)

\* _get_gpio_direction
get_gpio_direction(p) == BitOf(oe, p)

\* _set_gpio_dataout: BIT(gpio) written to CLEARDATAOUT + (enable << 2),
\* which is SETDATAOUT for enable = 1
set_gpio_dataout(p, enable) ==
    dataout' = IF enable = 0 THEN dataout \ BIT(p) ELSE dataout \cup BIT(p)

\* the word at DATAIN + (v << 2): DATAIN for v = 0, DATAOUT for v = 1
DataReg(v) == IF v = 0 THEN DataIn ELSE dataout

\* mutant: v & BIT(gpio) returned as int without !! (INT_MIN for bit 31)
get_gpio_value_word(p) ==
    IF p \notin DataReg(get_gpio_direction(p)) THEN 0
    ELSE IF p = 31 THEN -2147483647 - 1 ELSE 2 ^ p

\* _get_gpio_value: the register is chosen by the direction bit
get_gpio_value(p) == BitOf(DataReg(get_gpio_direction(p)), p)

omap_gpio_direction_input(p) ==
    /\ set_gpio_direction(p, 1)
    /\ ret' = 0 /\ wantDir' = [wantDir EXCEPT ![p] = "in"]
    /\ UNCHANGED <<dataout, irqenable, detect, wantVal, wantType>>

\* the latch is written before the pin is turned to an output
omap_gpio_direction_output(p, value) ==
    /\ set_gpio_dataout(p, value)
    /\ set_gpio_direction(p, 0)
    /\ ret' = 0
    /\ wantDir' = [wantDir EXCEPT ![p] = "out"]
    /\ wantVal' = [wantVal EXCEPT ![p] = value]
    /\ UNCHANGED <<irqenable, detect, wantType>>

omap_gpio_get_value(p) ==
    /\ ret' = get_gpio_value(p)
    /\ UNCHANGED <<oe, dataout, irqenable, detect, wants>>

omap_gpio_set_value(p, value) ==
    /\ set_gpio_dataout(p, value)
    /\ ret' = 0 /\ wantVal' = [wantVal EXCEPT ![p] = value]
    /\ UNCHANGED <<oe, irqenable, detect, wantDir, wantType>>

omap_gpio_get_function(p) ==
    /\ ret' = IF get_gpio_direction(p) = OMAP_GPIO_DIR_OUT THEN GPIOF_OUTPUT
              ELSE GPIOF_INPUT
    /\ UNCHANGED <<oe, dataout, irqenable, detect, wants>>

(***************************************************************************)
(* gpio_irqchip: called by the uclass for a pin of this device             *)
(***************************************************************************)

\* omap_gpio_irq_mask: BIT(offset) to IRQSTATUS_CLR_0
omap_gpio_irq_mask(p) ==
    /\ irqenable' = irqenable \ BIT(p)
    /\ UNCHANGED <<oe, dataout, detect, ret, wants>>

\* omap_gpio_irq_unmask: BIT(offset) to IRQSTATUS_SET_0
omap_gpio_irq_unmask(p) ==
    /\ irqenable' = irqenable \cup BIT(p)
    /\ UNCHANGED <<oe, dataout, detect, ret, wants>>

\* mutant: IRQ_TYPE_EDGE_RISING leaves LEVELDETECT1 as it was (2 = keep)
DetectBitsKeepLevel ==
    [rising  |-> <<1, 0, 0, 2>>, falling |-> <<0, 1, 0, 0>>,
     both    |-> <<1, 1, 0, 0>>, high    |-> <<0, 0, 0, 1>>,
     low     |-> <<0, 0, 1, 0>>]

\* the bit each IRQ_TYPE_* case of omap_gpio_set_irq_type writes for the
\* pin into <<RISINGDETECT, FALLINGDETECT, LEVELDETECT0, LEVELDETECT1>>:
\* value | reg for its detection, rvalue & reg for the three others
DetectBits ==
    [rising  |-> <<1, 0, 0, 0>>, falling |-> <<0, 1, 0, 0>>,
     both    |-> <<1, 1, 0, 0>>, high    |-> <<0, 0, 0, 1>>,
     low     |-> <<0, 0, 1, 0>>]

SetBit(x, p, v) ==
    CASE v = 1 -> x \cup BIT(p)
      [] v = 0 -> x \ BIT(p)
      [] OTHER -> x

\* omap_gpio_set_irq_type with a table of its cases: the four detect
\* registers are read, then written; an unknown type returns -EINVAL and
\* writes nothing
IrqTypeWrite(p, type, cases) ==
    /\ \/ /\ type \notin DOMAIN cases
          /\ ret' = -EINVAL
          /\ UNCHANGED <<detect, wantType>>
       \/ /\ type \in DOMAIN cases
          /\ risingdetect' = SetBit(risingdetect, p, cases[type][1])
          /\ fallingdetect' = SetBit(fallingdetect, p, cases[type][2])
          /\ leveldetect0' = SetBit(leveldetect0, p, cases[type][3])
          /\ leveldetect1' = SetBit(leveldetect1, p, cases[type][4])
          /\ ret' = 0
          /\ wantType' = [wantType EXCEPT ![p] = type]
    /\ UNCHANGED <<oe, dataout, irqenable, wantDir, wantVal>>

\* mutant: the rising case leaves LEVELDETECT1
omap_gpio_set_irq_type_keeplevel(p, type) == IrqTypeWrite(p, type, DetectBitsKeepLevel)

omap_gpio_set_irq_type(p, type) == IrqTypeWrite(p, type, DetectBits)

(***************************************************************************)
(* omap_gpio_irqhandler                                                    *)
(***************************************************************************)

\* pending = readl(IRQSTATUS1), the status of line 0
IrqRead ==
    /\ probed /\ handler = "idle" /\ nirqs < MaxIrqs
    /\ Status # {}
    /\ hpending' = Status /\ handler' = "read"
    /\ nirqs' = nirqs + 1
    /\ UNCHANGED <<probed, regs, level, ret, wants, lastDispatch, nops, nedges>>

\* mutant: the bits cleared are those set when written, not those read
IrqAckReread ==
    /\ handler = "read"
    /\ irqstatus' = irqstatus \ Status
    /\ lastDispatch' = hpending
    /\ handler' = "idle" /\ hpending' = {}
    /\ UNCHANGED <<probed, oe, dataout, irqenable, detect, level, ret, wants,
                   nops, nedges, nirqs>>

\* writel(pending, IRQSTATUS1) clears what was read; then each pending bit,
\* lowest first, goes to gpio_irq_handler(dev, index)
IrqAck ==
    /\ handler = "read"
    /\ irqstatus' = irqstatus \ hpending
    /\ lastDispatch' = hpending
    /\ handler' = "idle" /\ hpending' = {}
    /\ UNCHANGED <<probed, oe, dataout, irqenable, detect, level, ret, wants,
                   nops, nedges, nirqs>>

(***************************************************************************)
(* The outside world                                                       *)
(***************************************************************************)

\* the level driven onto an input pin changes, also while the handler runs
InputEdge ==
    /\ nedges < MaxEdges
    /\ \E p \in Pins \cap oe :
          /\ level' = [level EXCEPT ![p] = 1 - level[p]]
          /\ UNCHANGED <<probed, oe, dataout, irqenable, detect, ret, handler,
                         hpending, wants, lastDispatch, nops, nirqs>>
          /\ irqstatus' = irqstatus \cup Edges
    /\ nedges' = nedges + 1

\* a task's call into the driver, once probed and not under the handler;
\* a change of DATAIN it causes is latched as an edge
Op(A) ==
    /\ probed /\ handler = "idle" /\ nops < MaxOps
    /\ UNCHANGED <<probed, level, handler, hpending, lastDispatch, nedges, nirqs>>
    /\ A
    /\ irqstatus' = irqstatus \cup Edges
    /\ nops' = nops + 1

Next ==
    \/ omap_gpio_probe
    \/ \E p \in Pins :
          \/ Op(omap_gpio_direction_input(p))
          \/ \E v \in {0, 1} : Op(omap_gpio_direction_output(p, v))
          \/ Op(omap_gpio_get_value(p))
          \/ \E v \in {0, 1} : Op(omap_gpio_set_value(p, v))
          \/ Op(omap_gpio_get_function(p))
          \/ Op(omap_gpio_irq_mask(p))
          \/ Op(omap_gpio_irq_unmask(p))
          \/ \E t \in IrqTypes : Op(omap_gpio_set_irq_type(p, t))
    \/ IrqRead
    \/ IrqAck
    \/ InputEdge

Spec == Init /\ [][Next]_vars

(***************************************************************************)
(* Properties                                                              *)
(***************************************************************************)

TypeOK ==
    /\ probed \in BOOLEAN
    /\ \A r \in {oe, dataout, irqenable, irqstatus, risingdetect,
                 fallingdetect, leveldetect0, leveldetect1, hpending} : r \subseteq Bits
    /\ level \in [Pins -> {0, 1}]
    /\ ret \in {-EINVAL, -ENOMEM, EINVAL, 0, 1}
    /\ handler \in {"idle", "read"}
    /\ wantDir \in [Pins -> {"none", "in", "out"}]
    /\ wantVal \in [Pins -> {NoValue, 0, 1}]
    /\ wantType \in [Pins -> {"none"} \cup DOMAIN DetectBits]
    /\ lastDispatch \subseteq Bits

\* Each pin's output latch, direction and trigger detection are those of
\* the last request for it that succeeded, whatever was since requested for
\* the other pins of the bank: _set_gpio_direction's read-modify-write of
\* GPIO_OE, the SET/CLEARDATAOUT offset arithmetic of _set_gpio_dataout,
\* and omap_gpio_set_irq_type's writes of all four detect registers, which
\* must clear every detection but the one requested.
PinConfigHolds ==
    \A p \in Pins :
        /\ wantVal[p] # NoValue => BitOf(dataout, p) = wantVal[p]
        /\ wantDir[p] = "out" => get_gpio_direction(p) = OMAP_GPIO_DIR_OUT
        /\ wantDir[p] = "in" => get_gpio_direction(p) = OMAP_GPIO_DIR_IN
        /\ wantType[p] # "none" =>
               \A k \in 1 .. 4 : BitOf(detect[k], p) = DetectBits[wantType[p]][k]

\* No edge event is lost: omap_gpio_irqhandler clears a latched event only
\* when it passes that pin to gpio_irq_handler, also when an edge arrives
\* between its read of IRQSTATUS1 and its write back, and also for pins
\* that are masked.
EventsDispatched ==
    [][\A p \in irqstatus \ irqstatus' : p \in lastDispatch']_vars
=============================================================================

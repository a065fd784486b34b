------------------------------ MODULE GpioZynq ------------------------------
(***************************************************************************)
(* The Xilinx Zynq GPIO driver (drivers/gpio/zynq_gpio.c): the bank/pin    *)
(* arithmetic over the four platform tables, the dm_gpio_ops and           *)
(* gpio_irqchip operations on the bank registers, and the interrupt        *)
(* handler, against the register semantics of the controller.              *)
(*                                                                         *)
(* Registers are 32-bit words per bank, each the set of its bits that are  *)
(* 1, so that &, | and ~ are intersection, union and complement. Each     *)
(* driver operation is one step:                                          *)
(* the interrupt handler writes only INTSTS, which no task operation       *)
(* reads and writes back. gpio_irq_handler, in the GPIO uclass outside     *)
(* this repository, is represented by the offsets it is given.             *)
(***************************************************************************)
EXTENDS Integers, Sequences, FiniteSets, FiniteSetsExt, TLC

CONSTANTS
    Plats,      \* the tables a device may match: "zynq", "zynqmp", "versal", "pmc"
    Pins,       \* device pin numbers the callers use (may include invalid ones)
    IrqTypes,   \* IRQ_TYPE_* values the callers request
    MaxOps,     \* bound on driver operations
    MaxEdges,   \* bound on input-level changes
    MaxIrqs     \* bound on runs of the interrupt handler

Bits == 0 .. 31
BIT(n) == {n}
Not32(x) == Bits \ x
BitOf(x, n) == IF n \in x THEN 1 ELSE 0

(***************************************************************************)
(* Platform data                                                           *)
(***************************************************************************)

\* ZYNQ_GPIO_BANKn_PIN_MIN/MAX: each bank starts after the previous one
RECURSIVE BankPinMin(_, _)
BankPinMin(ngpio, b) == IF b = 0 THEN 0 ELSE BankPinMin(ngpio, b - 1) + ngpio[b - 1]
BankPinMax(ngpio, b) == BankPinMin(ngpio, b) + ngpio[b] - 1

ZynqNgpio   == <<32, 22, 32, 32>>
ZynqmpNgpio == <<26, 26, 26, 32, 32, 32>>

\* a table with banks given as [bank |-> <<min, max>>]; absent banks are 0
\* as in a C designated initializer
PData(ngpio, maxBank, ranges) ==
    [ngpio |-> ngpio, max_bank |-> maxBank,
     bank_min |-> [b \in 0 .. 5 |-> IF b \in DOMAIN ranges THEN ranges[b][1] ELSE 0],
     bank_max |-> [b \in 0 .. 5 |-> IF b \in DOMAIN ranges THEN ranges[b][2] ELSE 0]]

Seq0(s) == [b \in 0 .. Len(s) - 1 |-> s[b + 1]]

Tables ==
  [zynq   |-> PData(118, 4, [b \in 0 .. 3 |-> <<BankPinMin(Seq0(ZynqNgpio), b),
                                              BankPinMax(Seq0(ZynqNgpio), b)>>]),
   zynqmp |-> PData(174, 6, [b \in 0 .. 5 |-> <<BankPinMin(Seq0(ZynqmpNgpio), b),
                                              BankPinMax(Seq0(ZynqmpNgpio), b)>>]),
   versal |-> PData(58, 4, (0 :> <<0, 25>>) @@ (3 :> <<26, 57>>)),
   pmc    |-> PData(116, 5, (0 :> <<0, 25>>) @@ (1 :> <<26, 51>>)
                             @@ (3 :> <<52, 83>>) @@ (4 :> <<84, 115>>))]

\* mutant: the upper bound of a bank compared with <
GetBankPinBelowMax(pd, pin) ==
    LET hit == {b \in 0 .. pd.max_bank - 1 : pin >= pd.bank_min[b] /\ pin < pd.bank_max[b]}
    IN  IF hit = {} THEN <<0, 0>>
        ELSE LET b == Min(hit) IN <<b, pin - pd.bank_min[b]>>

\* zynq_gpio_get_bank_pin: the first bank whose range holds the pin; bank 0
\* pin 0 when none does
GetBankPin(pd, pin) ==
    LET hit == {b \in 0 .. pd.max_bank - 1 : pin >= pd.bank_min[b] /\ pin <= pd.bank_max[b]}
    IN  IF hit = {} THEN <<0, 0>>
        ELSE LET b == Min(hit) IN <<b, pin - pd.bank_min[b]>>

gpio_is_valid(pd, gpio) == gpio < pd.ngpio

VARIABLES
    plat,                           \* the zynq_gpio_ids entry the device matched
    dirm, outen, data,              \* DIRM, OUTEN and the output latch, per bank
    intmask, intsts,                \* INTMASK (1 = masked) and INTSTS, per bank
    inttype, intpol, intany,        \* the trigger configuration, per bank
    level,                          \* level[g]: the level driven onto input pin g
    ret,                            \* the value the last operation returned
    wantDir, wantVal, wantType,     \* ghost: the last request that succeeded, per pin
    lastDispatch,                   \* offsets the last handler run passed on
    nops, nedges, nirqs

PD == Tables[plat]
Banks == 0 .. PD.max_bank - 1
BankOf(g) == GetBankPin(PD, g)[1]
PinOf(g) == GetBankPin(PD, g)[2]
Valid == {g \in Pins : gpio_is_valid(PD, g)}

regs == <<dirm, outen, data, intmask, intsts, inttype, intpol, intany>>
wants == <<wantDir, wantVal, wantType>>
vars == <<plat, regs, level, ret, wants, lastDispatch, nops, nedges, nirqs>>

GPIOF_INPUT == 0
GPIOF_OUTPUT == 1
ZYNQ_GPIO_MID_PIN_NUM == 16
ZYNQ_GPIO_UPPER_MASK == 16 .. 31
NoValue == -1      \* wantVal of a pin nothing was written to

(***************************************************************************)
(* The controller                                                          *)
(***************************************************************************)

\* a write to DATA_LSW (half 0) or DATA_MSW (half 1): each of the 16 data
\* bits is written unless its mask bit (16 above it) is set
MaskWrite(old, word, half) ==
    {j \in Bits : IF j \div 16 = half /\ (16 + (j % 16)) \notin word
                  THEN (j % 16) \in word ELSE j \in old}

\* DATA_RO: an output-enabled pin shows its latch, any other pin its input
PinValue(b, j) ==
    IF BitOf(dirm[b], j) = 1 /\ BitOf(outen[b], j) = 1 THEN BitOf(data[b], j)
    ELSE IF \E g \in Valid : BankOf(g) = b /\ PinOf(g) = j
         THEN level[CHOOSE g \in Valid : BankOf(g) = b /\ PinOf(g) = j]
         ELSE 0
DataRO(b) == {j \in Bits : PinValue(b, j) = 1}

\* the event the trigger configuration of bank pin p detects when the
\* pin's level becomes l: any edge, the edge of INTPOL, or the level of INTPOL
Triggers(b, p, l) ==
    IF BitOf(inttype[b], p) = 1
    THEN BitOf(intany[b], p) = 1 \/ BitOf(intpol[b], p) = l
    ELSE BitOf(intpol[b], p) = l

\* level-sensitive pins whose level is active keep their INTSTS bit set
LevelActive(b) ==
    {PinOf(g) :
        g \in {g \in Valid : BankOf(g) = b /\ BitOf(inttype[b], PinOf(g)) = 0
                       /\ BitOf(dirm[b], PinOf(g)) = 0
                       /\ BitOf(intpol[b], PinOf(g)) = level[g]}}

\* zynq_gpio_of_to_plat takes p_data from the matched compatible; the
\* registers are in their reset state, every interrupt masked
Init ==
    /\ plat \in Plats
    /\ dirm = [b \in Banks |-> {}] /\ outen = [b \in Banks |-> {}]
    /\ data = [b \in Banks |-> {}]
    /\ intmask = [b \in Banks |-> Bits] /\ intsts = [b \in Banks |-> {}]
    /\ inttype = [b \in Banks |-> {}] /\ intpol = [b \in Banks |-> {}]
    /\ intany = [b \in Banks |-> {}]
    /\ level = [g \in Valid |-> 0]
    /\ ret = 0
    /\ wantDir = [g \in Valid |-> "none"] /\ wantVal = [g \in Valid |-> NoValue]
    /\ wantType = [g \in Valid |-> "none"]
    /\ lastDispatch = {}
    /\ nops = 0 /\ nedges = 0 /\ nirqs = 0

(***************************************************************************)
(* dm_gpio_ops                                                             *)
(***************************************************************************)

\* check_gpio: an invalid pin returns -1 and touches nothing
Checked(g, A) ==
    IF gpio_is_valid(PD, g) THEN A
    ELSE ret' = -1 /\ UNCHANGED <<regs, wants>>

\* zynq_gpio_set_value writes to DATA_MSW for the upper 16 pins of a bank
SetValueHalf(p) == IF p >= ZYNQ_GPIO_MID_PIN_NUM THEN 1 ELSE 0

\* the word zynq_gpio_set_value writes
SetValueWord(p, value) ==
    LET q == p - ZYNQ_GPIO_MID_PIN_NUM * SetValueHalf(p)
    IN  Not32(BIT(q + ZYNQ_GPIO_MID_PIN_NUM))
        \cap ((IF value # 0 THEN BIT(q) ELSE {}) \cup ZYNQ_GPIO_UPPER_MASK)

SetValue(g, value) ==
    LET b == BankOf(g)  p == PinOf(g)
    IN  /\ data' = [data EXCEPT ![b] = MaskWrite(@, SetValueWord(p, value), SetValueHalf(p))]
        /\ wantVal' = [wantVal EXCEPT ![g] = value]

zynq_gpio_set_value ==
    \E g \in Pins, value \in {0, 1} :
        Checked(g, /\ SetValue(g, value) /\ ret' = 0
                   /\ UNCHANGED <<dirm, outen, intmask, intsts, inttype, intpol,
                                  intany, wantDir, wantType>>)

zynq_gpio_direction_input ==
    \E g \in Pins :
        Checked(g,
            LET b == BankOf(g)  p == PinOf(g)
            IN  \/ /\ b = 0 /\ p \in {7, 8}
                   /\ ret' = -1 /\ UNCHANGED <<regs, wants>>
                \/ /\ ~(b = 0 /\ p \in {7, 8})
                   /\ dirm' = [dirm EXCEPT ![b] = @ \cap Not32(BIT(p))]
                   /\ wantDir' = [wantDir EXCEPT ![g] = "in"]
                   /\ ret' = 0
                   /\ UNCHANGED <<outen, data, intmask, intsts, inttype, intpol,
                                  intany, wantVal, wantType>>)

\* mutant: DIRM and OUTEN written with the pin's bit alone, not read first
zynq_gpio_direction_output_overwrite ==
    \E g \in Pins, value \in {0, 1} :
        Checked(g,
            LET b == BankOf(g)  p == PinOf(g)
            IN  /\ dirm' = [dirm EXCEPT ![b] = BIT(p)]
                /\ outen' = [outen EXCEPT ![b] = BIT(p)]
                /\ SetValue(g, value)
                /\ wantDir' = [wantDir EXCEPT ![g] = "out"]
                /\ ret' = 0
                /\ UNCHANGED <<intmask, intsts, inttype, intpol, intany, wantType>>)

zynq_gpio_direction_output ==
    \E g \in Pins, value \in {0, 1} :
        Checked(g,
            LET b == BankOf(g)  p == PinOf(g)
            IN  /\ dirm' = [dirm EXCEPT ![b] = @ \cup BIT(p)]
                /\ outen' = [outen EXCEPT ![b] = @ \cup BIT(p)]
                /\ SetValue(g, value)
                /\ wantDir' = [wantDir EXCEPT ![g] = "out"]
                /\ ret' = 0
                /\ UNCHANGED <<intmask, intsts, inttype, intpol, intany, wantType>>)

zynq_gpio_get_value ==
    \E g \in Pins :
        Checked(g, /\ ret' = BitOf(DataRO(BankOf(g)), PinOf(g))
                   /\ UNCHANGED <<regs, wants>>)

zynq_gpio_get_function ==
    \E g \in Pins :
        Checked(g, /\ ret' = IF BitOf(dirm[BankOf(g)], PinOf(g)) = 1
                             THEN GPIOF_OUTPUT ELSE GPIOF_INPUT
                   /\ UNCHANGED <<regs, wants>>)

(***************************************************************************)
(* gpio_irqchip: called by the uclass for a pin of this device             *)
(***************************************************************************)

zynq_gpio_irq_mask ==
    \E g \in Valid :
        /\ intmask' = [intmask EXCEPT ![BankOf(g)] = @ \cup BIT(PinOf(g))]
        /\ UNCHANGED <<dirm, outen, data, intsts, inttype, intpol, intany, ret, wants>>

zynq_gpio_irq_unmask ==
    \E g \in Valid :
        /\ intmask' = [intmask EXCEPT ![BankOf(g)] = @ \cap Not32(BIT(PinOf(g)))]
        /\ UNCHANGED <<dirm, outen, data, intsts, inttype, intpol, intany, ret, wants>>

\* INTTYPE, INTPOL and INTANY bits for each IRQ_TYPE_*; Keep leaves the bit
Keep == 2
TypeBits ==
    [rising  |-> <<1, 1, 0>>,      falling |-> <<1, 0, 0>>,
     both    |-> <<1, Keep, 1>>, high    |-> <<0, 1, Keep>>,
     low     |-> <<0, 0, Keep>>]

SetBit(x, p, v) ==
    CASE v = 1 -> x \cup BIT(p)
      [] v = 0 -> x \cap Not32(BIT(p))
      [] OTHER -> x

\* mutant: an unknown type returns EINVAL instead of -EINVAL
zynq_gpio_set_irq_type_posinval ==
    \E g \in Valid, type \in IrqTypes :
        LET b == BankOf(g)  p == PinOf(g)
        IN  \/ /\ type \notin DOMAIN TypeBits
               /\ ret' = 22
               /\ UNCHANGED <<regs, wants>>
            \/ /\ type \in DOMAIN TypeBits
               /\ inttype' = [inttype EXCEPT ![b] = SetBit(@, p, TypeBits[type][1])]
               /\ intpol' = [intpol EXCEPT ![b] = SetBit(@, p, TypeBits[type][2])]
               /\ intany' = [intany EXCEPT ![b] = SetBit(@, p, TypeBits[type][3])]
               /\ wantType' = [wantType EXCEPT ![g] = type]
               /\ ret' = 0
               /\ UNCHANGED <<dirm, outen, data, intmask, intsts, wantDir, wantVal>>

zynq_gpio_set_irq_type ==
    \E g \in Valid, type \in IrqTypes :
        LET b == BankOf(g)  p == PinOf(g)
        IN  \/ /\ type \notin DOMAIN TypeBits
               /\ ret' = -22
               /\ UNCHANGED <<regs, wants>>
            \/ /\ type \in DOMAIN TypeBits
               /\ inttype' = [inttype EXCEPT ![b] = SetBit(@, p, TypeBits[type][1])]
               /\ intpol' = [intpol EXCEPT ![b] = SetBit(@, p, TypeBits[type][2])]
               /\ intany' = [intany EXCEPT ![b] = SetBit(@, p, TypeBits[type][3])]
               /\ wantType' = [wantType EXCEPT ![g] = type]
               /\ ret' = 0
               /\ UNCHANGED <<dirm, outen, data, intmask, intsts, wantDir, wantVal>>

\* zynq_gpio_irqhandler: per bank, read INTSTS and INTMASK, clear the
\* pending bits, and pass each unmasked one, lowest first, to
\* gpio_irq_handler(dev, index) with its index in the bank
zynq_gpio_irqhandler ==
    /\ nirqs < MaxIrqs
    /\ \E b \in Banks : intsts[b] \cap Not32(intmask[b]) # {}
    /\ lastDispatch' =
           UNION {intsts[b] \cap Not32(intmask[b]) : b \in Banks}
    /\ intsts' = [b \in Banks |-> (intsts[b] \cap Not32(intsts[b])) \cup LevelActive(b)]
    /\ nirqs' = nirqs + 1
    /\ UNCHANGED <<plat, dirm, outen, data, intmask, inttype, intpol, intany,
                   level, ret, wants, nops, nedges>>

(***************************************************************************)
(* The outside world                                                       *)
(***************************************************************************)

\* the level on an input pin changes; the controller latches what its
\* trigger configuration detects
InputEdge ==
    /\ nedges < MaxEdges
    /\ \E g \in Valid :
        LET b == BankOf(g)  p == PinOf(g)  l == 1 - level[g]
        IN  /\ BitOf(dirm[b], p) = 0
            /\ level' = [level EXCEPT ![g] = l]
            /\ intsts' = [intsts EXCEPT ![b] = IF Triggers(b, p, l) THEN @ \cup BIT(p) ELSE @]
    /\ nedges' = nedges + 1
    /\ UNCHANGED <<plat, dirm, outen, data, intmask, inttype, intpol, intany,
                   ret, wants, lastDispatch, nops, nirqs>>

Op(A) ==
    /\ nops < MaxOps /\ A /\ nops' = nops + 1
    /\ UNCHANGED <<plat, level, lastDispatch, nedges, nirqs>>

Next ==
    \/ Op(zynq_gpio_set_value)
    \/ Op(zynq_gpio_direction_input)
    \/ Op(zynq_gpio_direction_output)
    \/ Op(zynq_gpio_get_value)
    \/ Op(zynq_gpio_get_function)
    \/ Op(zynq_gpio_irq_mask)
    \/ Op(zynq_gpio_irq_unmask)
    \/ Op(zynq_gpio_set_irq_type)
    \/ zynq_gpio_irqhandler
    \/ InputEdge

Spec == Init /\ [][Next]_vars

(***************************************************************************)
(* Properties                                                              *)
(***************************************************************************)

TypeOK ==
    /\ \A r \in {dirm, outen, data, intmask, intsts, inttype, intpol, intany} :
           DOMAIN r = Banks /\ \A b \in Banks : r[b] \subseteq Bits
    /\ level \in [Valid -> {0, 1}]
    /\ ret \in {-22, -1, 0, 1}
    /\ wantDir \in [Valid -> {"none", "in", "out"}]
    /\ wantVal \in [Valid -> {NoValue, 0, 1}]
    /\ wantType \in [Valid -> {"none"} \cup DOMAIN TypeBits]
    /\ lastDispatch \subseteq Bits

\* The bank layout of each controller, from the hardware: pins are numbered
\* across the banks in order, and an absent bank has no pins.
RefBankSizes ==
    [zynq |-> <<32, 22, 32, 32>>, zynqmp |-> <<26, 26, 26, 32, 32, 32>>,
     versal |-> <<26, 0, 0, 32>>, pmc |-> <<26, 26, 0, 32, 32>>]
PinsBefore(sz, b) == MapThenSumSet(LAMBDA c : sz[c + 1], 0 .. b - 1)
RefBank(sz, g) == Min({b \in 0 .. Len(sz) - 1 : g < PinsBefore(sz, b + 1)})

\* For the platform table the device matched, check_gpio accepts exactly the pins of the
\* banks, and zynq_gpio_get_bank_pin maps each of them to its bank and its
\* index there, through the bank_min/bank_max tables and the first-match loop.
RefAgrees ==
    [pl \in DOMAIN Tables |->
        LET pd == Tables[pl]  sz == RefBankSizes[pl]
        IN  /\ pd.ngpio = PinsBefore(sz, Len(sz))
            /\ pd.max_bank = Len(sz)
            /\ \A g \in 0 .. pd.ngpio - 1 :
                   GetBankPin(pd, g) = <<RefBank(sz, g), g - PinsBefore(sz, RefBank(sz, g))>>]
BankPinReference == RefAgrees[plat]

\* Each pin's output latch, direction and trigger configuration are those of
\* the last request for it that succeeded, whatever was since requested for
\* other pins sharing its bank registers (set_value's mask/data word,
\* direction_input/output's read-modify-write of DIRM and OUTEN, and
\* set_irq_type's of INTTYPE/INTPOL/INTANY).
PinConfigHolds ==
    \A g \in Valid :
        LET b == BankOf(g)  p == PinOf(g)
        IN  /\ wantVal[g] # NoValue => BitOf(data[b], p) = wantVal[g]
            /\ wantDir[g] = "out" => BitOf(dirm[b], p) = 1 /\ BitOf(outen[b], p) = 1
            /\ wantDir[g] = "in" => BitOf(dirm[b], p) = 0
            /\ wantType[g] # "none" =>
                   \A k \in 1 .. 3 :
                       TypeBits[wantType[g]][k] # Keep =>
                           BitOf(<<inttype, intpol, intany>>[k][b], p) = TypeBits[wantType[g]][k]

\* The pins an interrupt is pending and unmasked on are the pins
\* zynq_gpio_irqhandler passes to gpio_irq_handler, by their number in the
\* device, as irq_mask and irq_unmask take them.
PendingPins == {g \in Valid : PinOf(g) \in intsts[BankOf(g)] \cap Not32(intmask[BankOf(g)])}
DispatchesPendingPins ==
    [][nirqs' # nirqs => lastDispatch' = PendingPins]_vars

====

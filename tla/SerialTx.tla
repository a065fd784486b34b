------------------------------- MODULE SerialTx -------------------------------
(***************************************************************************)
(* Interrupt-driven transmission of the serial uclass                      *)
(* (drivers/serial/serial-uclass.c) over a UART driver (ns16550 or zynq). *)
(*                                                                         *)
(* Actors, on one processor:                                               *)
(*  - termios, in task context: hands a chunk of its raw output buffer to  *)
(*    serial_class_xmit_start when its transmitter is idle (it holds the   *)
(*    device lock, so the call is one step);                               *)
(*  - a task printing through serial_class_putc_poll (printk), whose three *)
(*    parts (disable, poll-write, re-enable) are separate steps;           *)
(*  - the UART interrupt handler, which preempts tasks and calls           *)
(*    serial_class_dequeue; when a chunk is finished it calls              *)
(*    rtems_termios_dequeue_characters, and termios then calls the write   *)
(*    handler again, with its next chunk or with length 0;                 *)
(*  - the UART itself, shifting bytes out of its transmit FIFO.            *)
(* A byte is <<k, i>> (byte i of chunk k) or PutcByte.                     *)
(***************************************************************************)
EXTENDS Naturals, Sequences, SequencesExt

CONSTANTS
    Drv,        \* "ns16550" or "zynq": the driver under the uclass
    Msgs,       \* Msgs[k]: the length of the k-th chunk termios writes
    FifoSize,   \* depth of the UART's transmit FIFO
    SpFifoSize, \* SP_FIFO_SIZE: the bytes ns16550_fifo_write writes at most
    MaxPutc,    \* bound on putc_poll calls
    MaxRx,      \* bound on received characters (each raises an interrupt)
    MaxOpen,    \* bound on first opens of the tty
    MaxTermios, \* bound on set_attributes calls
    ZynqClock,  \* ZYNQ_CLOCK_UART, a BSP option
    Requests,   \* the termios settings set_attributes is called with
    PutcByte    \* the character putc_poll writes

ASSUME Drv \in {"ns16550", "zynq"} /\ FifoSize \in Nat \ {0}
ASSUME SpFifoSize \in Nat \ {0}
ASSUME Msgs \in Seq(Nat \ {0})
\* the bauds asked for stay below ZYNQ_CLOCK_UART / 255, where every
\* divisor the search of zynq_uart_calc_baudrate tries is non-zero
ASSUME \A t \in Requests : t.baud > 0 /\ t.baud * 255 <= ZynqClock

NChunks == Len(Msgs)

VARIABLES
    wire,       \* the bytes the UART has sent, in order
    fifo,       \* the transmit FIFO
    txie,       \* the transmit interrupt enabled in the UART
    rxie,       \* the receive interrupt enabled in the UART
    uartEn,     \* zynq: RXEN and TXEN of the control register
    line,       \* the divisor and frame format the UART is programmed with
    rxPend,     \* a received character waits in the receive FIFO
    nrx,        \* characters received so far
    tty,        \* platdata->tty: "none" before the first open, "open", or
                \* "freed" once termios has freed it at the last close
    nopen,      \* first opens so far
    nterm,      \* set_attributes calls so far
    buf,        \* platdata->buf as [k, pos]: chunk k, offset pos
    total,      \* platdata->total
    remaining,  \* platdata->remaining
    current,    \* platdata->current
    txintr,     \* platdata->txintr
    rob,        \* termios raw output state: "idle" or "busy"
    avail,      \* chunks the application has written into termios
    sent,       \* chunks termios has handed to the write handler
    acked,      \* the lengths passed to rtems_termios_dequeue_characters
    isr,        \* the interrupt handler's step, or "none"
    putc,       \* [pc, enabled] of the task inside serial_class_putc_poll
    nputc       \* putc_poll calls so far

hw == <<wire, fifo, txie, rxie, uartEn, line, rxPend, nrx>>
dev == <<tty, nopen, nterm, buf, total, remaining, current, txintr>>
vars == <<hw, dev, rob, avail, sent, acked, isr, putc, nputc>>

Byte(k, i) == IF i <= Msgs[k] THEN <<k, i>> ELSE <<k, 0>>

\* the transmit interrupt is raised while it is enabled and the FIFO is empty
TxIrq == txie /\ fifo = <<>>

\* tx_empty: THRE of the line status, TEMPTY of the channel status
TxEmpty == fifo = <<>>

MinOf(a, b) == IF a <= b THEN a ELSE b

\* ops->tx_irqena: ns16550 writes SP_INT_TX_ENABLE alone to IER, which
\* turns the receive interrupt off; zynq enables TEMPTY beside the others
TxIrqEna ==
    /\ txie' = TRUE
    /\ rxie' = IF Drv = "ns16550" THEN FALSE ELSE rxie

\* ops->tx_irqdis: ns16550 writes NS16550_ENABLE_ALL_INTR_EXCEPT_TX to IER,
\* which turns the receive interrupt on; zynq disables TEMPTY alone
TxIrqDis ==
    /\ txie' = FALSE
    /\ rxie' = IF Drv = "ns16550" THEN TRUE ELSE rxie

\* fifo_write(buf, size): the count it returns. ns16550 writes
\* min(size, SP_FIFO_SIZE) bytes without looking at the FIFO; zynq stops
\* when TFUL is set.
Written(size) ==
    IF Drv = "ns16550" THEN MinOf(size, SpFifoSize)
    ELSE MinOf(size, FifoSize - Len(fifo))

\* the FIFO after fifo_write of that many bytes from chunk k at pos: the
\* UART drops what is written into a full FIFO
Filled(k, pos, size) ==
    LET new == [i \in 1 .. Written(size) |-> Byte(k, pos + i)]
    IN  SubSeq(fifo \o new, 1, MinOf(Len(fifo) + Len(new), FifoSize))

\* serial_class_xmit_start(buf, len) with len > 0, then txintr_enable
XmitStart(k) ==
    /\ total' = Msgs[k]
    /\ remaining' = Msgs[k]
    /\ buf' = [k |-> k, pos |-> 0]
    /\ current' = Written(Msgs[k])
    /\ fifo' = Filled(k, 0, Msgs[k])
    /\ TxIrqEna
    /\ txintr' = TRUE

\* serial_class_xmit_start(NULL, 0): total = 0, then txintr_disable
XmitStop ==
    /\ total' = 0
    /\ TxIrqDis
    /\ txintr' = FALSE
    /\ UNCHANGED <<remaining, buf, current, fifo>>

(***************************************************************************)
(* Line settings                                                           *)
(***************************************************************************)

ZYNQ_UART_DEFAULT_BAUD == 115200    \* BSP option, 115200 in the Zynq BSPs
NS16550_DEFAULT_BDR == 115200
NsClock == 48000000                 \* ti_am437x_info.clock
XUARTPS_MAX_BAUD_ERROR_RATE == 3

AbsDiff(a, b) == IF a > b THEN a - b ELSE b - a

\* zynq_uart_calc_baudrate(baud) with ZYNQ_UART_MODE_CLKS clear (no mode the
\* driver writes sets it), as <<rc, brgr, bauddiv>>: the search over bdiv
\* 4..254 keeps the first of least error, then rejects an error above 3%
ZynqCalcBaud(b) ==
    IF b * 2 > ZynqClock THEN <<-22, 0, 0>>
    ELSE LET Brgr(d) == ZynqClock \div (b * (d + 1))
             Err(d) == AbsDiff(b, ZynqClock \div (Brgr(d) * (d + 1)))
             best == CHOOSE d \in 4 .. 254 :
                         \A e \in 4 .. 254 : Err(d) < Err(e) \/ (Err(d) = Err(e) /\ d <= e)
         IN  <<IF (Err(best) * 100) \div b > XUARTPS_MAX_BAUD_ERROR_RATE THEN -22 ELSE 0,
               Brgr(best), best>>

ZynqBaudTable ==
    [b \in {t.baud : t \in Requests} \cup {ZYNQ_UART_DEFAULT_BAUD} |-> ZynqCalcBaud(b)]

\* baud_rate_gen keeps the 16 bits of CD, baud_rate_div the 8 of BDIV
ZynqDiv(b) == <<ZynqBaudTable[b][2] % 65536, ZynqBaudTable[b][3] % 256>>

\* the mode fields zynq_uart_set_termios ORs together: PAR_NONE, then
\* PAR_ODD without PARODD or PAR_EVEN with it; CHRL; NBSTOP
ZynqMode(t) ==
    [par    |-> IF t.parenb /\ ~t.parodd THEN 5 ELSE 4,
     chrl   |-> CASE t.csize = 6 -> 3 [] t.csize = 7 -> 2 [] OTHER -> 0,
     nbstop |-> IF t.cstopb THEN 2 ELSE 0]

\* zynq_uart_open: 8 data bits, no parity, 1 stop bit, the default baud
ZynqOpenLine ==
    [frame |-> [par |-> 4, chrl |-> 0, nbstop |-> 0],
     div |-> ZynqDiv(ZYNQ_UART_DEFAULT_BAUD)]

\* ns16550_baud_divisor_get: the platform data never sets the fractional
\* divider or the clock synthesizer, so it is clock / (baud * 16); the
\* divisor latches keep 16 bits of it
NsDivisor(b) == (NsClock \div (b * 16)) % 65536

\* the line control byte of ns16550_set_termios: SP_LINE_PAR, SP_LINE_ODD
\* without PARODD; CS5 is 0, so "c_cflag & CSIZE" is false for it and it
\* gets EIGHT_BITS; SP_LINE_STOP
NsLcr(t) ==
    (IF t.parenb THEN 8 + (IF ~t.parodd THEN 16 ELSE 0) ELSE 0)
    + (IF t.csize = 5 THEN 3 ELSE t.csize - 5)
    + (IF t.cstopb THEN 4 ELSE 0)

\* after ns16550_probe: the default divisor and EIGHT_BITS
NsProbeLine == [frame |-> 3, div |-> NsDivisor(NS16550_DEFAULT_BDR)]

\* The device after probe. ns16550_probe clears IER, programs the default
\* line and resets the FIFOs; zynq_uart_probe only installs the handler and
\* leaves the UART as the BSP console set it up (enabled, interrupts masked,
\* the default line). serial_pre_probe callocs platdata (tty NULL, total 0,
\* txintr false) and serial_post_probe routes printk to putc_poll.
Init ==
    /\ wire = <<>> /\ fifo = <<>>
    /\ txie = FALSE /\ rxie = FALSE /\ uartEn = TRUE
    /\ line = IF Drv = "ns16550" THEN NsProbeLine ELSE ZynqOpenLine
    /\ rxPend = FALSE /\ nrx = 0
    /\ tty = "none" /\ nopen = 0 /\ nterm = 0
    /\ buf = [k |-> 1, pos |-> 0]
    /\ total = 0 /\ remaining = 0 /\ current = 0 /\ txintr = FALSE
    /\ rob = "idle" /\ avail = 0 /\ sent = 0 /\ acked = <<>>
    /\ isr = "none"
    /\ putc = [pc |-> "idle", enabled |-> FALSE] /\ nputc = 0

(***************************************************************************)
(* Tasks (they run only while no interrupt handler runs)                   *)
(***************************************************************************)

lineVars == <<uartEn, line, tty, nopen, nterm>>

\* the application writes a chunk; an idle termios starts the transmitter
\* with it, under the device lock
AppWrite ==
    /\ isr = "none" /\ tty = "open" /\ avail < NChunks
    /\ avail' = avail + 1
    /\ IF rob = "idle"
       THEN /\ XmitStart(avail + 1) /\ sent' = sent + 1 /\ rob' = "busy"
       ELSE UNCHANGED <<total, remaining, buf, current, fifo, txie, rxie,
                        txintr, sent, rob>>
    /\ UNCHANGED <<wire, rxPend, nrx, lineVars, acked, isr, putc, nputc>>

\* ns16550_open writes NS16550_ENABLE_ALL_INTR_EXCEPT_TX to IER: the
\* receive interrupt alone is enabled.
NsOpen ==
    /\ txie' = FALSE /\ rxie' = TRUE
    /\ UNCHANGED <<uartEn, line, fifo, rxPend>>

\* zynq_uart_open disables the UART, programs the default line, resets the
\* transmit and receive logic (their FIFOs are emptied), masks and clears
\* every interrupt, unmasks RTRIG and TIMEOUT, and enables the UART again.
ZynqOpen ==
    /\ txie' = FALSE /\ rxie' = TRUE
    /\ line' = ZynqOpenLine /\ uartEn' = TRUE
    /\ fifo' = <<>> /\ rxPend' = FALSE

\* first open: serial_class_open stores the tty and calls ops->open.
SerialOpen ==
    /\ isr = "none" /\ tty # "open" /\ nopen < MaxOpen
    /\ tty' = "open" /\ nopen' = nopen + 1
    /\ IF Drv = "ns16550" THEN NsOpen ELSE ZynqOpen
    /\ UNCHANGED <<wire, nrx, nterm, buf, total, remaining, current, txintr,
                   rob, avail, sent, acked, isr, putc, nputc>>

\* Mutant of SerialClose: the tty is freed without ops->release, so the
\* receive interrupt stays enabled.
SerialCloseNoRelease ==
    /\ isr = "none" /\ tty = "open" /\ avail = NChunks /\ rob = "idle"
    /\ tty' = "freed"
    /\ UNCHANGED <<wire, fifo, txie, rxie, uartEn, line, rxPend, nrx, nopen,
                   nterm, buf, total, remaining, current, txintr, rob, avail,
                   sent, acked, isr, putc, nputc>>

\* ns16550_release writes NS16550_DISABLE_ALL_INTR to IER.
NsRelease ==
    /\ txie' = FALSE /\ rxie' = FALSE
    /\ UNCHANGED uartEn

\* zynq_uart_release masks and clears every interrupt and writes 0 to the
\* control register, which leaves transmitter and receiver off.
ZynqRelease ==
    /\ txie' = FALSE /\ rxie' = FALSE
    /\ uartEn' = FALSE

\* last close, by the application once it has written everything:
\* termios drains the output, serial_class_close calls ops->release, and
\* termios frees the tty.
SerialClose ==
    /\ isr = "none" /\ tty = "open" /\ avail = NChunks /\ rob = "idle"
    /\ tty' = "freed"
    /\ IF Drv = "ns16550" THEN NsRelease ELSE ZynqRelease
    /\ UNCHANGED <<wire, fifo, line, rxPend, nrx, nopen, nterm, buf, total,
                   remaining, current, txintr, rob, avail, sent, acked, isr,
                   putc, nputc>>

\* ns16550_set_termios: the divisor and line control are written when they
\* differ from the ones platdata holds, which leaves the same registers
NsSetTermios(t) ==
    /\ line' = [frame |-> NsLcr(t), div |-> NsDivisor(t.baud)]
    /\ UNCHANGED uartEn

\* zynq_uart_set_termios: a baud zynq_uart_calc_baudrate rejects, or CS5,
\* returns before any register is written; otherwise the UART is disabled,
\* the mode, CD and BDIV written, and the UART enabled again
ZynqSetTermios(t) ==
    \/ /\ ZynqBaudTable[t.baud][1] # 0 \/ t.csize = 5
       /\ UNCHANGED <<line, uartEn>>
    \/ /\ ZynqBaudTable[t.baud][1] = 0 /\ t.csize # 5
       /\ line' = [frame |-> ZynqMode(t), div |-> ZynqDiv(t.baud)]
       /\ uartEn' = TRUE

\* serial_class_termios_set calls ops->set_termios under the device lock
TermiosSet ==
    /\ isr = "none" /\ tty = "open" /\ nterm < MaxTermios
    /\ \E t \in Requests :
           IF Drv = "ns16550" THEN NsSetTermios(t) ELSE ZynqSetTermios(t)
    /\ nterm' = nterm + 1
    /\ UNCHANGED <<wire, fifo, txie, rxie, rxPend, nrx, tty, nopen, buf,
                   total, remaining, current, txintr, rob, avail, sent, acked,
                   isr, putc, nputc>>

\* serial_class_putc_poll: enabled = serial_class_txintr_disable()
PutcDisable ==
    /\ isr = "none" /\ putc.pc = "idle" /\ nputc < MaxPutc
    /\ TxIrqDis
    /\ putc' = [pc |-> "poll", enabled |-> txintr]
    /\ txintr' = FALSE
    /\ nputc' = nputc + 1
    /\ UNCHANGED <<wire, fifo, rxPend, nrx, lineVars, buf, total, remaining,
                   current, rob, avail, sent, acked, isr>>

\* ops->putc_poll: ns16550 waits for THRE, zynq for a FIFO that is not full
\* mutant: the write does not wait for room in the FIFO
PutcPollNoWait ==
    /\ isr = "none" /\ putc.pc = "poll"
    /\ fifo' = Append(fifo, PutcByte)
    /\ putc' = [putc EXCEPT !.pc = "enable"]
    /\ UNCHANGED <<wire, txie, rxie, rxPend, nrx, lineVars, buf, total,
                   remaining, current, txintr, rob, avail, sent, acked, isr,
                   nputc>>

PutcPoll ==
    /\ isr = "none" /\ putc.pc = "poll"
    /\ IF Drv = "ns16550" THEN fifo = <<>> ELSE Len(fifo) < FifoSize
    /\ fifo' = Append(fifo, PutcByte)
    /\ putc' = [putc EXCEPT !.pc = "enable"]
    /\ UNCHANGED <<wire, txie, rxie, rxPend, nrx, lineVars, buf, total,
                   remaining, current, txintr, rob, avail, sent, acked, isr,
                   nputc>>

\* if (enabled) serial_class_txintr_enable()
\* mutant: the saved enable is never restored
PutcEnableNever ==
    /\ isr = "none" /\ putc.pc = "enable"
    /\ putc' = [putc EXCEPT !.pc = "idle"]
    /\ UNCHANGED <<wire, fifo, txie, rxie, txintr, rxPend, nrx, lineVars, buf,
                   total, remaining, current, rob, avail, sent, acked, isr,
                   nputc>>

PutcEnable ==
    /\ isr = "none" /\ putc.pc = "enable"
    /\ IF putc.enabled THEN TxIrqEna /\ txintr' = TRUE
                      ELSE UNCHANGED <<txie, rxie, txintr>>
    /\ putc' = [putc EXCEPT !.pc = "idle"]
    /\ UNCHANGED <<wire, fifo, rxPend, nrx, lineVars, buf, total, remaining,
                   current, rob, avail, sent, acked, isr, nputc>>

(***************************************************************************)
(* The interrupt handler (ns16550_isr, zynq_uart_isr)                      *)
(***************************************************************************)

\* the handler is entered for a received character or for the transmit
\* interrupt. It reads the receive FIFO: ns16550_isr passes what it read,
\* perhaps nothing, to serial_class_enqueue; zynq_uart_isr does so when
\* RTRIG or TIMEOUT is set. Either way it goes on to serial_class_dequeue.
IsrEnter ==
    /\ isr = "none"
    /\ (rxPend /\ rxie) \/ TxIrq
    /\ rxPend' = FALSE
    /\ isr' = "dequeue"
    /\ UNCHANGED <<rxie, lineVars, wire, fifo, txie, nrx, buf, total, remaining, current,
                   txintr, rob, avail, sent, acked, putc, nputc>>

\* serial_class_dequeue: nothing to do unless total && tx_empty
IsrDequeueIdle ==
    /\ isr = "dequeue"
    /\ ~(total # 0 /\ TxEmpty)
    /\ isr' = "none"
    /\ UNCHANGED <<rxie, lineVars, wire, fifo, txie, rxPend, nrx, buf, total, remaining,
                   current, txintr, rob, avail, sent, acked, putc, nputc>>

\* buf += current; remaining -= current; more left: fill the FIFO again
\* mutant: remaining is reduced but buf is not advanced
IsrDequeueFillNoAdvance ==
    /\ isr = "dequeue"
    /\ total # 0 /\ TxEmpty
    /\ remaining - current > 0
    /\ remaining' = remaining - current
    /\ current' = Written(remaining - current)
    /\ fifo' = Filled(buf.k, buf.pos, remaining - current)
    /\ isr' = "none"
    /\ UNCHANGED <<rxie, lineVars, wire, txie, rxPend, nrx, buf, total, txintr, rob, avail,
                   sent, acked, putc, nputc>>

IsrDequeueFill ==
    /\ isr = "dequeue"
    /\ total # 0 /\ TxEmpty
    /\ remaining - current > 0
    /\ buf' = [buf EXCEPT !.pos = @ + current]
    /\ remaining' = remaining - current
    /\ current' = Written(remaining - current)
    /\ fifo' = Filled(buf.k, buf.pos + current, remaining - current)
    /\ isr' = "none"
    /\ UNCHANGED <<rxie, lineVars, wire, txie, rxPend, nrx, total, txintr, rob, avail, sent,
                   acked, putc, nputc>>

\* the chunk is done: rtems_termios_dequeue_characters(tty, total)
IsrDequeueDone ==
    /\ isr = "dequeue"
    /\ total # 0 /\ TxEmpty
    /\ remaining - current = 0
    /\ buf' = [buf EXCEPT !.pos = @ + current]
    /\ remaining' = 0
    /\ acked' = Append(acked, total)
    /\ isr' = "refill"
    /\ UNCHANGED <<rxie, lineVars, wire, fifo, txie, rxPend, nrx, total, current, txintr, rob,
                   avail, sent, putc, nputc>>

\* inside dequeue_characters termios refills the transmitter: it calls the
\* write handler with its next chunk ...
IsrRefillNext ==
    /\ isr = "refill" /\ sent < avail
    /\ XmitStart(sent + 1)
    /\ sent' = sent + 1
    /\ isr' = "clear"
    /\ UNCHANGED <<lineVars, wire, rxPend, nrx, rob, avail, acked, putc, nputc>>

\* ... or, with nothing left, with length 0, and goes idle
IsrRefillStop ==
    /\ isr = "refill" /\ sent = avail
    /\ XmitStop
    /\ rob' = "idle"
    /\ isr' = "clear"
    /\ UNCHANGED <<lineVars, wire, rxPend, nrx, avail, sent, acked, putc, nputc>>

\* back in serial_class_dequeue: platdata->total = 0
IsrClearTotal ==
    /\ isr = "clear"
    /\ total' = 0
    /\ isr' = "none"
    /\ UNCHANGED <<rxie, lineVars, wire, fifo, txie, rxPend, nrx, buf, remaining, current,
                   txintr, rob, avail, sent, acked, putc, nputc>>

(***************************************************************************)
(* The UART                                                                *)
(***************************************************************************)

\* the transmitter shifts a byte out, unless zynq's is disabled
HwShift ==
    /\ uartEn /\ fifo # <<>>
    /\ wire' = Append(wire, Head(fifo))
    /\ fifo' = Tail(fifo)
    /\ UNCHANGED <<rxie, lineVars, txie, rxPend, nrx, buf, total, remaining, current, txintr,
                   rob, avail, sent, acked, isr, putc, nputc>>

\* a character arrives, unless zynq's receiver is disabled
RxArrive ==
    /\ uartEn /\ nrx < MaxRx /\ ~rxPend
    /\ rxPend' = TRUE
    /\ nrx' = nrx + 1
    /\ UNCHANGED <<rxie, lineVars, wire, fifo, txie, buf, total, remaining, current, txintr,
                   rob, avail, sent, acked, isr, putc, nputc>>

Isr == IsrEnter \/ IsrDequeueIdle \/ IsrDequeueFill \/ IsrDequeueDone
       \/ IsrRefillNext \/ IsrRefillStop \/ IsrClearTotal

Next ==
    \/ AppWrite \/ SerialOpen \/ SerialClose \/ TermiosSet
    \/ PutcDisable \/ PutcPoll \/ PutcEnable
    \/ Isr
    \/ HwShift \/ RxArrive

\* the UART keeps shifting, a raised interrupt is taken and the handler
\* runs to its end, a task inside putc_poll finishes it, and the
\* application opens the tty and goes on writing; received characters,
\* printk calls, set_attributes and the last close are the environment's
\* choice
Fairness ==
    /\ WF_vars(HwShift) /\ WF_vars(Isr)
    /\ WF_vars(PutcPoll) /\ WF_vars(PutcEnable)
    /\ WF_vars(SerialOpen) /\ WF_vars(AppWrite)

Spec == Init /\ [][Next]_vars /\ Fairness

(***************************************************************************)
(* Properties                                                              *)
(***************************************************************************)

Bytes == ({<<k, i>> : k \in 1 .. NChunks, i \in 0 .. FifoSize + 8}) \cup {PutcByte}

TypeOK ==
    /\ wire \in Seq(Bytes) /\ fifo \in Seq(Bytes) /\ Len(fifo) <= FifoSize
    /\ txie \in BOOLEAN /\ rxPend \in BOOLEAN /\ nrx \in 0 .. MaxRx
    /\ buf.k \in 1 .. NChunks /\ buf.pos \in Nat
    /\ {total, remaining, current} \subseteq Nat
    /\ txintr \in BOOLEAN /\ rob \in {"idle", "busy"}
    /\ 0 <= sent /\ sent <= avail /\ avail <= NChunks
    /\ acked \in Seq(Nat)
    /\ isr \in {"none", "dequeue", "refill", "clear"}
    /\ putc.pc \in {"idle", "poll", "enable"} /\ nputc \in 0 .. MaxPutc
    /\ {rxie, uartEn} \subseteq BOOLEAN
    /\ tty \in {"none", "open", "freed"}
    /\ nopen \in 0 .. MaxOpen /\ nterm \in 0 .. MaxTermios
    /\ IF Drv = "ns16550"
       THEN line \in [frame : 0 .. 31, div : 0 .. 65535]
       ELSE line \in [frame : [par : {4, 5}, chrl : {0, 2, 3}, nbstop : {0, 2}],
                      div : (0 .. 65535) \X (0 .. 255)]

TxOf(s) == SelectSeq(s, LAMBDA b : b # PutcByte)

ChunkBytes(k) == [i \in 1 .. Msgs[k] |-> <<k, i>>]

Stream(n) == FlattenSeq([k \in 1 .. n |-> ChunkBytes(k)])

\* What termios wrote leaves the UART (sent or queued in the FIFO) in order,
\* with no byte lost, repeated or taken from outside its chunk; printk's
\* characters may come in between. Each call of dequeue_characters reports
\* the length of the next chunk, and only once all its bytes are out.
TxStream ==
    LET out == TxOf(wire \o fifo)
    IN  /\ IsPrefix(out, Stream(NChunks))
        /\ acked = SubSeq(Msgs, 1, Len(acked))
        /\ IsPrefix(Stream(Len(acked)), out)

\* The transmit interrupt is enabled only while a transfer is in progress;
\* putc_poll restores the enable it saw before polling.
NoSpuriousTxIrq == txie => total > 0

\* Every chunk the application writes is eventually reported transmitted and
\* termios' transmitter goes idle again.
AllDelivered == <>(acked = Msgs /\ rob = "idle")

\* The interrupt handler uses platdata->tty only while termios has it open:
\* ns16550_isr and zynq_uart_isr hand what they read to
\* rtems_termios_enqueue_raw_characters, and serial_class_dequeue reports a
\* finished chunk to rtems_termios_dequeue_characters. Before the first open
\* the pointer is NULL; after the last close termios has freed the tty.
IsrUsesOpenTty ==
    [][/\ isr = "none" /\ isr' = "dequeue" /\ (Drv = "ns16550" \/ rxPend)
          => tty = "open"
       /\ isr' = "refill" => tty = "open"]_vars

=============================================================================

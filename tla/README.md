# TLA+ models of rtemskit

This directory holds TLA+ models of the driver-model core and the libraries of
rtemskit (a U-Boot-style driver model running on RTEMS). The models are checked
with TLC. Every module is translated from the C source under `src/`. The one
exception is code this repository calls but does not contain; such code is
modelled from `spec.md` and marked `spec_modelled` in `PROJECT.json`.
`PROJECT.json` lists every component, run, mutant, finding and hazard. Its
`map` names the source lines each definition translates.

## 1. The system and how its parts interact

| Part | Source | State | Operations | Interacts with |
|---|---|---|---|---|
| Interrupt topology resolver | `drivers/core/of_irq.c`, `drivers/irqchip/arm_gic.c` | none of its own; it reads the firmware tree and fills a caller's `struct of_phandle_args` | `dev_read_irq_index`, `of_irq_get`, `of_irq_parse_one`, `of_irq_parse_raw`, `of_irq_translate`, `of_irq_count` | drivers call it at probe time to get the IRQ they then claim |
| Resource-managed interrupt claim | `drivers/core/interrupt.c` | the device's devres list, the RTEMS handler table, the interrupt-server requests | `devm_request_threaded_irq`, `devm_free_irq`, `devm_irq_release`, `threaded_irq_wrappwer`, `irq_init` | device removal releases the devres; the interrupt path runs the handler and submits to the server |
| Device graph root | `drivers/core/root.c` (bind/probe/remove live in `device.c`, not in this repository) | `_dm_root`, the device tree of `udevice`s | `dm_init`, `dm_scan_plat`, `dm_scan_fdt_node`, `dm_extended_scan`, `dm_scan`, `dm_devices_probe`, `dm_uninit` | probing calls driver probes, which resolve and claim interrupts |
| Serial uclass | `drivers/serial/serial-uclass.c`, `serial-ns16550.c`, `serial-zynq.c` | `tty`, `buf`, `current`, `remaining`, `total`, `txintr`; the UART's interrupt enables, line settings, enable bit and FIFO | `first_open`, `last_close`, `set_attributes`, `xmit_start`, `dequeue` (from the UART ISR), `putc_poll`; the drivers' `open`, `release`, `set_termios`, `fifo_write`, `tx_irqena`/`tx_irqdis` | termios calls the handlers from tasks; printk calls `putc_poll`; the ISR calls enqueue and dequeue |
| GUIX queue and timer | `lib/gui/guix_rtems_queue.c` | the pending and free chains, `timer_running`, `timer_active`, task suspension, events | `event_post`, `event_fold`, `event_pop`, `event_purge`, `timer_start`, `timer_stop`, `guix_timer_server`, `guix_thread_adaptor` | the GUI thread and the timer task hand over with events |
| Linux compatibility | `include/linux/completion.h`, `lib/linux/lnx_timer.c` | the holder task's RTEMS transient event; the timer's tick watchdog | `reinit_completion`, `complete`, `wait_for_completion`, `try_wait_for_completion`, `wait_for_completion_timeout`, `timer_setup`, `add_timer`, `mod_timer`, `del_timer` | a ported driver task waits; its device interrupt and the timer callback (in the clock tick) call `complete` |
| CANopen glue | `lib/canopen/CO_driver.c`, `CO_driver_target.h` | `CO_CANmodule_t` (`initialized`, `CANnormal`, `CANerrorStatus`), the rx objects' `filter_id`, the tx objects' `bufferFull` and `syncFlag` | `CO_CANmodule_init`, `CO_CANmodule_disable`, `CO_CANsetConfigurationMode`, `CO_CANsetNormalMode`, `CO_CANrxBufferInit`, `CO_CANtxBufferInit`, `CO_CANsend`, `CO_CANclearPendingSyncPDOs` | the CANopen stack calls it from its threads; it drives the CAN controller through `ioctl` and `write` on one descriptor |
| Module init | `lib/modinit.c` | position in the init table | `_module_init`, `_module_driver_init` | runs the driver-model init before drivers |
| Zynq GPIO driver | `drivers/gpio/zynq_gpio.c` | the bank registers (DIRM, OUTEN, DATA, INTMASK, INTSTS, INTTYPE, INTPOL, INTANY), the platform table | `gpio_zynq_ops`, `zynq_gpio_irqchip`, `zynq_gpio_irqhandler`, probe | the GPIO uclass calls the ops; the interrupt handler calls `gpio_irq_handler` |
| OMAP GPIO driver | `drivers/gpio/omap_gpio.c` | one bank's registers (OE, DATAOUT, IRQENABLE, IRQSTATUS, the four detect registers) | `gpio_omap_ops`, `omap_gpio_irqchip`, `omap_gpio_irqhandler`, of_to_plat/probe | the GPIO uclass calls the ops; the interrupt handler calls `gpio_irq_handler` |

The following parts are not modelled: board files, BSP start-up, pin
multiplexing, Cortex-M fault printing, shell commands, `main.c`, and
`guix_rtems_init.c`. Each is a fixed sequence of register writes, prints or
task creations. None has state that branches.

## 2. Hazards

`PROJECT.json` lists the hazards, each at its source line. Several are met in
the resolver:

- an unbounded ascent of interrupt-parent links;
- an unchecked copy into `args[MAX_PHANDLE_ARGS]`;
- a read of `args[2]` for a 2-cell specifier;
- a scan over the interrupt-map cells that must step over every entry exactly.
- the no-`reg` check at line 187, which also fails on pass-through hops
  that need no address (`ofirq_noreg.cfg`).

The other hazards lie in parts modelled later:

- a handler installed before its dispatch pointer is final;
- the GUIX timer handshake, which can leave the GUI thread waiting for ever;
- a purge loop that walks onto the free chain;
- a completion that is left signalled after a timeout;
- a timed wait that is completed in the tick it would time out in;
- a zero timeout, which RTEMS reads as "wait forever";
- CAN send and start paths that lose a frame or a failure;
- the OMAP GPIO interrupt handler's read and write back of IRQSTATUS, with
  an edge arriving between them, and `_get_gpio_value`, which reads an
  input pin from the output latch;
- serial removal, which frees the uclass platdata (`serial_pre_remove`)
  before the driver's remove disables the UART interrupt, so an interrupt
  in between, or a later printk through `serial_console`, uses freed
  memory. No property covers it yet: `SerialTx` starts from a probed
  device.

## 3. Modules

### OfIrq (with MCOfIrq)

`OfIrq` models one call of `dev_read_irq_index(dev, index)`.

**State.**

- The firmware tree is a record of functions over `Nodes`. Its fields are
  `parent`, `interrupt-parent`, `#interrupt-cells`, `#address-cells`,
  `interrupt-controller`, status, `compatible`, `interrupt-map` (a sequence
  of entries), `interrupt-map-mask`, `reg`, `interrupts` and
  `interrupts-extended`.
- A node is its own phandle. `NodeOfPhandle` maps a value that names no node
  to NULL.
- `ImapCells` flattens the map entries into the cell array that the code scans
  with pointer arithmetic.
- The variables are the locals of the call:
  - `np`, `args` and `count` (`out_irq`);
  - `ipar`, `intsize`, `addrsize` and `matchArr`;
  - `rc`, the return of `of_irq_parse_one`;
  - `irq`, the translation;
  - `pc`, where the call is.
- `args` slots start as `Garbage`, because `of_irq_get`'s `oirq` is an
  uninitialised stack struct. A read of such a slot is a nondeterministic cell
  value.

**Actions.**

- `ParseOneExtended` and `ParseOneLegacy` are the two paths of
  `of_irq_parse_one`. The legacy path ends in `pc = "overflow"` when the copy
  loop would write past `args`.
- `RawSetup` covers `of_irq_parse_raw` up to the walk: the domain loop, the
  `args_count` check, the `#address-cells` search with its default of 2, the
  EFAULT range check, and the match array. A short `reg` reads a
  nondeterministic cell.
- Each iteration of the walk is one action:
  - `WalkAtController`;
  - `WalkNoReg` (the `addrsize && !addr` check);
  - `WalkPassThrough` (no map: `of_irq_find_parent` and `skiplevel`);
  - `WalkMapHop`, whose inner loop is the recursive operator `ScanMap`.
- `Translate` is `of_irq_translate`. It uses `GicTranslate` when the
  controller's compatible is in the GIC match table, and `DefaultTranslate`
  otherwise.
- `of_irq_find_parent` is `FindParentFrom`, given as fuel the number of nodes.
  When the fuel runs out, the tree has a cycle, the code never returns, and
  the model goes to `pc = "hang"`. Because `hang` and `done` have no
  successor, the cfgs say `CHECK_DEADLOCK FALSE`: the call returns and the
  model ends there.
- `of_parse_phandle_with_args` is not in this repository. `IextFrom` models
  its contract: entry `idx` of a phandle-plus-cells list, with the count
  truncated to the capacity.

**Reference.** `RefResolve` is written from the `resolve_one` algorithm of the
description. It works on the structured tree:

- the interrupt domain is the first node of the ascent chain that has cells,
  found with `Min` over a set, not by a loop;
- the map lookup finds the first entry whose key equals the masked match key,
  compared as `(key & mask) = (ekey & mask)`;
- outcomes fall into four classes: ok with (controller, specifier),
  Malformed, fail, and Loop.

Three points are adopted from the code where the description is silent:

- an entry whose parent is disabled is skipped;
- a map hop needs an address when the width is non-zero;
- an entry cut short, with fewer parent cells than its parent's width, is
  Malformed, as the code's `imaplen` check makes it `-EFAULT`.

**Trees.** `MCOfIrq` builds trees from five nodes:

- `r`, the root;
- `b`, a bus that may be a nexus, with 0 or 1 address cells, an optional
  mask, and one of two maps;
- `g`, a GIC with 3 cells and no `#address-cells`, 0 of them, or 2 (then
  every specifier for `g` is 5 cells wide);
- `p`, a controller without a registered translator, with 1 or 4 cells,
  which may be disabled (with the bus's address cell, its domain is then 5
  wide);
- `d`, the device.

The device's interrupt parent is unset, `g` or `p`. The bus's interrupt
parent is unset, `g` or `d`; `d` makes a cycle when the bus has no cells. The
device may have no `reg`, and may have an `interrupts-extended` list of two
entries. Indices 0 and 1 are asked for, and `MAX_PHANDLE_ARGS` is 4, so that
the GIC's 3 cells plus an address cell fit exactly. The maps have entries for
both controllers and a dangling phandle, with keys that match and keys that
do not, and a third map whose last entry is cut short after one parent cell.
Every walk step and both parse paths are reached. All three `-EFAULT` exits
are reached, and each time the reference says Malformed: the range check of
the setup, a map entry whose parent is too wide, and the cut entry. This was
checked with one invariant per exit, and TLC found each one violated.

`MCRefTrees` leaves out one family, given by `NoRegPassThrough`: a device
without `reg` under a bus that has `#interrupt-cells`, one address cell and
no map. The check at line 187 runs on every hop that is not a controller,
and so it fails there. The comment at lines 183-186 says the check is for
map parsing, and step 2c of the description passes the specifier on at such
a hop. `ofirq_noreg.cfg` checks `MatchesReference` on that family
(`MCNoRegTrees`), and TLC finds it violated in four steps: the walk stops
with `-EINVAL` at `b`, while the reference resolves to the bus's interrupt
parent. The cfg is kept beside the project but is not among the runs, because
the project is at its limit of twelve runs. The divergence is listed as a
hazard.

### Runs

| Run | Expect | Properties | Trees | What it shows |
|---|---|---|---|---|
| `ofirq_reference` | pass | `TypeOK`, `MatchesReference`, `GicDeterministic` | 40608 (`MCRefTrees`) | Every call that returns produces the controller and specifier the reference gives, or an error of the same class, including the three `-EFAULT` exits as Malformed. The GIC translation depends only on the specifier's own cells. The trees leave out the reg-less pass-through family, where the code and the description disagree (see `ofirq_noreg.cfg` above). 291288 distinct states. |

A parent with more `#interrupt-cells` than `MAX_PHANDLE_ARGS` makes the copy
loop of `of_irq_parse_one` (line 330) write past `args`; `OfIrq` reaches
`pc = "overflow"` for such a tree in a few steps. No run keeps that tree
family: it is listed as a hazard.

The default translator (`of_default_irq_translate`) accepts a 2-cell
specifier, reading `args[2]`, and rejects 3 cells. `OfIrq` models this, but
no run states the widths the description asks for.

No run checks that resolution terminates. When the interrupt-parent links
of nodes without `#interrupt-cells` form a cycle, `of_irq_find_parent` climbs
for ever, and `OfIrq` loops with it. The description says such a tree ends
at a controller or with `NoInterruptParent`; this is listed as a hazard.

### IrqClaimSpec, IrqClaim (with MCIrqClaim)

`IrqClaim` models `src/drivers/core/interrupt.c` with interrupts arriving at
any point. Its state:

- `dr`, the `struct irq_devres` records, one per slot of `DrIds`: in use,
  owner, `req.entry.vector`, `req.action.arg`, `handler` and `arg`
  (`harg`);
- `devres`, each device's devres list, oldest first;
- `table`, the RTEMS handler table as a set of (vector, function, argument,
  shared);
- `pending` and `masked`, the interrupt server's chain and the vectors it
  has disabled;
- `drv`, each device's driver task: where it is in a claim, the request and
  the return code;
- `fault`, the first undefined behaviour reached.

Handler functions are tuples: a driver's hard handler `Hard(d)`, the
wrapper, request submit, and `Zero`, the pointer `devres_alloc` leaves.

Actions:

- `devm_request_threaded_irq` is three steps, because the handler is live
  once installed and the record is completed afterwards:
  - `ClaimBegin`: lines 52-78, the checks, which compare with the processor
    the caller runs on (chosen with `\E`), then `devres_alloc`;
  - `ClaimInstall`: the install, or `devres_free` and `EBUSY`;
  - `ClaimFinish`: lines 85-108, the assignments and `devres_add`.
- `FreeIrq` is `devm_free_irq`. `devres_destroy` with `devm_irq_match`
  takes one matching record off the list, releases it and frees it. With no
  match nothing changes.
- `RemoveDevice` releases and frees every record of the device.
- `Interrupt(v)` runs every handler on `v`. The wrapper reads `dr->handler`.
  The wrapper and submit put the request on the server chain and disable its
  vector if one is set.
- `ServerRun` runs a request and enables its vector again.

The handler table, the server and devres (`devres.c` is not in the
repository) are written from their contracts.

`IrqClaimSpec` is the contract of the description:

- a device owns a list of claims;
- a claim is admitted when every claim on its line, and the new one, is
  shared, and the table would not refuse an identical pair;
- `Release(d, i, a)` drops one claim matching (irq, context), or does
  nothing, and records the call in `released`;
- removal drops all the device's claims.

The refinement mapping reads each listed record back as a claim: its vector,
its context, the kind its handler stands for, and the shared flag of its
table entry. `gone` maps to the devices that have been removed. `released`
maps to `freeCall`, a history variable of `IrqClaim` that holds the arguments
of the last `devm_free_irq` call and changes nothing else. Without it, any
claim that disappears could be explained by a release that names it, and the
refinement could not tell whether `devm_irq_match` compared the right fields.
With it, each claim that a free drops must match the vector and the context
that this call passed.

`ClaimsConsistent` ties the table to the records. Every installed handler
belongs to exactly one live record, listed or held by a claim past its
install. Every record in use is listed on its own device exactly once, or is
held by a claim.

**Bounds.** The pass run has one device, one vector, two contexts, two
record slots and one processor:

- Two slots let the device hold two claims, and make a third one fail with
  `ENOMEM`.
- One vector makes every pair of claims compete for the same line, exclusive
  against shared.
- Two contexts make `devm_irq_match` choose between two records on that
  vector that differ only in `req.action.arg`.

A second device or a second vector takes the run past five minutes.
Symmetry over the slots and over the contexts is sound, because no property
names one of them.

| Run | Expect | Properties | What it shows |
|---|---|---|---|
| `irqclaim_refines` | pass | `TypeOK`, `ClaimsConsistent`, `Refinement` | Claims, frees, removals and interrupts in any order keep the table and the devres lists in step, and implement `IrqClaimSpec`, with each free dropping only a claim with the vector and context it was called with. 17071 distinct states. The mutant `MatchesVectorOnly` (`devm_irq_match` without the context comparison) breaks `Refinement`. |

`irqclaim_both.cfg` is not among the runs of `PROJECT.json`. It checks
`HardHandlerDispatched` with both handlers given, and TLC finds it violated.
An interrupt between the install and line 92 calls a zero `dr->handler`.
After line 92, `dr->handler` is the wrapper itself.

The affinity check at `interrupt.c:58` compares `IRQF_CPU_NR` with the
calling processor's index. `IrqClaim` models the comparison (`NCPU`,
`CpuNrs`), but the run uses one processor and does not check it.

A release while a triggered request is still on the server chain frees the
record the server will run. The model records it (`fault` becomes
`"use_after_free"`), and the hazard list names it. No run asserts that it
cannot happen, because the description says nothing about draining work
already handed to the server.

No fairness is assumed: every property of this module is a safety property.

### DmRoot (with MCDmRoot)

`DmRoot` models the bring-up in `src/drivers/core/root.c`. The calls run in a
fixed order on one task:

1. the `dm_root_init` system-initialisation item calls `dm_init_and_scan`;
2. the init task's `_module_driver_init` then runs `device_drivers_init`;
3. a driver may later call `dm_remove_devices_flags` or `dm_uninit`.

The module is therefore one process whose `pc` follows those calls. The
recursions are explicit stacks:

- `scan` holds the frames of `dm_scan_fdt_node`. A bus driver's bind calls
  `dm_scan_fdt_dev`, which pushes a frame. Its result becomes that bind's
  error.
- `probe` holds the frames of `dm_devices_probe`: a device, and the index of
  its next child.

`state`, `parent` and `children` are the device graph. `order` is the order
of binds. `ret` is the error `rtems_panic` would print.

`device.c` and `lists.c` are not in the repository, so `BindAs`, `Probed`,
`Removed` and `ScanNoDriver` are written from the description:

- a bind of a node already bound fails with AlreadyExists (`EEXIST`);
- a failed probe leaves the device bound;
- removal moves a probed device to `removed`, and a non-vital pass leaves
  vital devices alone.

The hardware is a record `hw` chosen in `Init` and never changed. It gives
the driver kind of each node (none, leaf or bus), the failing binds with
their errors, the failing probes, the result of `lists_bind_drivers`, and
the vital devices.

**Reference.** `RefBoot` is the scan the description asks for, written as
recursion: depth first, parent before children, disabled nodes and nodes
without a driver skipped, the siblings of a failed bind still scanned, the
first error kept, the auxiliary paths after the root's subnodes, and any
error fatal.

**Tree.** Seven nodes:

- the root `r`, with subnodes `a`, `b` (disabled), `ch` (`/chosen`) and `f`;
- `c` under `a`, and `e` under `ch`;
- `/clocks` and `/firmware` are absent.

`a` is a bus or a leaf. `c` has a driver or not. There are 2688
configurations. They include no failing bind, one, or two with different
errors (two siblings; or one inside a bus's scan and a later sibling of the
bus), together with any set of failing probes among `r`, `a`, `c` and the
platform device.

| Run | Expect | Properties | What it shows |
|---|---|---|---|
| `dmroot_bringup` | pass | `TypeOK`, `BringUpMatchesReference`, `ProbeAll`, `BringUpEnds` | Bring-up binds exactly the devices of the reference scan, in its order. It panics exactly when that scan reports an error, and with its first error. When `device_drivers_init` returns, every device whose own probe succeeds is probed. Bring-up ends. |

`dm_devices_probe` ignores a failed probe and still recurses into that
device's children (`root.c:341`). `ProbeAll` checks that those children are
probed too: its mutant `DevicesProbeChildSkipFailed`, which skips the
children of a failed device, breaks it.

One behaviour of the code is modelled but not checked by a run. If
`/chosen` is bound to a bus driver (`MCHwOf({"none", "bus"})`), its subnodes
are bound twice, and the `EEXIST` of the second bind makes bring-up panic.

`BringUpEnds` assumes weak fairness of `Next`: the bring-up is one call
sequence on one task, which nothing preempts for ever.

### SerialTx (with MCSerialTx)

`SerialTx` models the console UART through the serial uclass
(`serial-uclass.c`) over the ns16550 or the zynq driver (constant `Drv`):
its open/close life, line settings, interrupt-driven output and printk's
polled output. Four actors share one processor:

- **the application and termios**, in task context. `SerialOpen` is
  `serial_class_open` (first open: store the tty, call `ops->open`);
  `SerialClose` is `serial_class_close` (last close, once the output is
  drained: `ops->release`, then termios frees the tty); `TermiosSet` is
  `serial_class_termios_set`; `AppWrite` hands a chunk to
  `serial_class_xmit_start` when termios' transmitter is idle. Each holds
  the device lock, which on one processor masks interrupts, so each call is
  one step.
- **a printing task** in `serial_class_putc_poll`. Its three parts are
  separate steps: `PutcDisable` (`txintr_disable`, saving `txintr`),
  `PutcPoll` (the driver's `putc_poll`) and `PutcEnable` (re-enable if it
  was on). printk uses it whether or not the tty is open.
- **the interrupt handler** (`ns16550_isr`, `zynq_uart_isr`), installed at
  probe. It preempts tasks: every task action is guarded by
  `isr = "none"`. `IsrEnter` takes a received character or the transmit
  interrupt. `IsrDequeueIdle`, `IsrDequeueFill` and `IsrDequeueDone` are the
  three outcomes of `serial_class_dequeue`. `IsrRefillNext` and
  `IsrRefillStop` are termios inside `rtems_termios_dequeue_characters`: it
  calls the write handler again, with its next chunk or with length 0.
  `IsrClearTotal` is the `platdata->total = 0` that follows.
- **the UART**: `HwShift` sends the head of the FIFO and `RxArrive` raises a
  receive interrupt, both only while the UART is enabled.

The platdata fields `tty`, `buf`, `total`, `remaining`, `current` and
`txintr` are variables (`tty` is `"none"` before the first open, as
`serial_pre_probe`'s calloc leaves it, `"open"`, or `"freed"`). `buf` is a
chunk and an offset. A byte is `<<k, i>>`, byte `i` of chunk `k`; a read
past the chunk gives `<<k, 0>>`. The UART is `txie`/`rxie` (its transmit and
receive interrupt enables), `uartEn` (zynq's RXEN/TXEN), `line` (frame
format and divisors as the registers hold them) and `fifo`.

The drivers differ in these operators:

- `Written` and `Filled`: ns16550 writes `min(size, SP_FIFO_SIZE)` bytes
  blindly, while zynq stops at TFUL;
- `TxIrqEna`/`TxIrqDis`: ns16550 writes the whole IER, so `tx_irqena`
  turns the receive interrupt off and `tx_irqdis` turns it on; zynq masks
  TEMPTY alone;
- `NsOpen`/`ZynqOpen` and `NsRelease`/`ZynqRelease`: zynq's open resets the
  FIFOs and reprograms the default line, its release writes 0 to the control
  register;
- `NsSetTermios`/`ZynqSetTermios`: ns16550 writes the LCR (`NsLcr`) and
  divisor (`NsDivisor`); zynq runs `zynq_uart_calc_baudrate` (`ZynqCalcBaud`,
  the bdiv search with its 3% limit, cached in `ZynqBaudTable`), returns
  early on a rejected baud or CS5, and otherwise writes the mode
  (`ZynqMode`) and a 16-bit CD / 8-bit BDIV (`ZynqDiv`);
- the poll condition in `PutcPoll`.

`Init` is the device after probe: ns16550 with IER clear and the default
line; zynq as the BSP console left it (enabled, interrupts masked, the
default line). termios is not in the repository. Its contract in IRQ-driven
mode (refill from `dequeue_characters`, `write(NULL, 0)` when empty) is
stated in `AppWrite` and the two `IsrRefill` actions, which are not in the
map.

Two things the line operators show, which no property states:

- zynq ORs the parity field onto `PAR_NONE` (`0b100`), so both parities give
  a `1xx` field, which the hardware reads as no parity;
- at a 50 MHz clock, 150 baud needs CD = 66666, and the 16-bit field keeps
  1130: `set_termios` returns 0 with the port at the wrong speed.

**Bounds.** The FIFO holds 2 bytes (`FifoSize`), so a 3-byte chunk needs a
refill from the interrupt handler; ns16550's write size `SpFifoSize` is 1.
There are at most 1 `putc_poll` call, 1 received character, 2 opens and 1
`set_attributes` call. The requests (`MCRequests`) are 7E2 at 9600, 8N1 at
150 (the CD overflow) and CS5 with odd parity (rejected by zynq). This is
enough for the interrupt to arrive in the middle of `putc_poll`, for the
printed byte to sit in the FIFO when a transfer starts, for printk to run
before the first open and after the last close, and for a reopen to follow
a close.

| Run | Expect | Properties | What it shows |
|---|---|---|---|
| `serial_stream` | pass | `TypeOK`, `TxStream`, `IsrUsesOpenTty` | On zynq, with chunks of 3 and 1 bytes, open, close, reopen, a line change, a `putc_poll` and a received character, the bytes termios wrote leave the UART in order, none lost, repeated or read past its chunk. Every `dequeue_characters` reports the right chunk, and only after its last byte left. The handler never hands anything to a tty that is not open. 7260 distinct states. |
| `serial_refill` | violation | `AllDelivered` | Two 1-byte chunks, the second written while the first is in flight. `dequeue_characters` starts the second chunk, then `serial_class_dequeue` sets `total = 0`. Every later interrupt does nothing, and termios waits forever. |
| `serial_putc` | violation | `NoSpuriousTxIrq` | `putc_poll` saves `txintr = TRUE`. A receive interrupt then finishes the transfer, and termios' `write(NULL, 0)` disables the interrupt. `putc_poll` re-enables it with `total = 0`. On zynq, whose handler never clears TEMPTY, the interrupt then fires forever. |

`serial_closed.cfg` is not among the runs of `PROJECT.json`. It checks
`IsrUsesOpenTty` with `Drv = "ns16550"`, and TLC finds it violated. A printk
before the first open calls `ns16550_tx_irqdis`, which writes
`NS16550_ENABLE_ALL_INTR_EXCEPT_TX`. A received character then runs
`ns16550_isr`, which calls `serial_class_enqueue` with `platdata->tty` still
NULL.

With `Drv = "ns16550"` and `SpFifoSize` equal to `FifoSize`, `TxStream`
fails when a `putc_poll` byte is still in the FIFO as `xmit_start` fills
it. `ns16550_fifo_write` writes `SP_FIFO_SIZE` bytes without checking for
room, so the last byte is dropped.

`AllDelivered` assumes weak fairness of the UART's shifting, of the interrupt
handler (a raised interrupt is taken and runs to its end), of the
continuation of `putc_poll`, and of the application's open and writes.
Received characters, `putc_poll` calls, `set_attributes` and the last close
are the environment's choice, so they get no fairness.

### GuixQueue (with MCGuixQueue)

`GuixQueue` models `lib/gui/guix_rtems_queue.c`, the RTEMS binding of GUIX.
It covers two things: the event queue, and the hand-over between the GUI
thread and the timer task.

**The queue.** The queue is a fixed array of `N` records (`slot`). They sit
on two chains, `pending` and `free`, both sequences of record indices.
Each queue operation holds `qmutex`, so each is one step:

- `QPost` is `gx_generic_event_post`: the first free record goes to the end
  of pending, or the post fails when free is empty.
- `QFold` is `gx_generic_event_fold`. It updates a pending event of the same
  type and target in place (the payload is not modelled); otherwise it posts.
- `QPop` is `gx_generic_event_pop`. The head of pending goes to the end of
  free.
- `EventPurge` is `gx_generic_event_purge`.

A record carries a ghost `id`, taken from `nextId`. `lastPop` is the id of
the event popped last; it exists only so that the order property can be
stated.

**The tasks.** Both tasks are created with `GX_SYSTEM_THREAD_PRIORITY`,
`RTEMS_PREEMPT` and `RTEMS_NO_TIMESLICE`. On one processor a task therefore
runs until it blocks. `cur` is the running task and `Blocked` lists the
places where each task waits:

- the GUI thread waits for DONE, or for `qcond` in a pop with wait;
- the timer task is suspended, is in `rtems_task_wake_after`, or waits for
  WAKEUP.

`Dispatch` hands the processor over as soon as the running task blocks and
the other is ready. Every task action requires `Runs(t)`. The timer task is
started first, so `Init` has `cur = "timer"`.

Input drivers (`InputPost`) and the clock tick that ends
`rtems_task_wake_after` (`Tick`) run at higher priority. They may act between
any two task steps.

**The GUI thread.** The actions follow `guix_thread_adaptor` in order:

- `EntryPop`, `EntryWait`, `TimerStart`, `TimerStop` and `EventPurge` are
  the calls GUIX makes inside `gx->entry(0)`;
- `EntryReturn`;
- `GuiCheck` tests whether the timer is suspended. If not, it clears
  `timer_active` and waits for DONE;
- `GuiDone`;
- the flush loop (`GuiFlush`, then `GuiFlushWait`);
- `GuiRedraw`;
- `GuiWake`.

**The timer task.** The actions follow `guix_timer_server`:

- `TimerBegin`: suspend unless `timer_running`;
- `TimerActivate`: line 142;
- `TimerCheck` and `TimerWoken`: the `while (!timer_active)` hand-over;
- `TimerExpire`: fold a timer event.

**The purge walk.** After moving a matching record to free,
`_Chain_Next(iter)` is the free chain's tail. The loop never meets pending's
tail and dereferences the tail's NULL next pointer. The model stops there
with `fault = "purge_walk"`.

**Bounds.** The constants are set as follows:

- `N = 2` records, so that the free chain can run out;
- two widgets, `w2` a child of `w1`, so that the purge's `child_detect`
  branch is reached;
- 2 input events, 3 ticks and 2 sleep cycles of the GUI thread.

These bounds are enough for the following to happen:

- a fold to hit and to miss;
- a post to fail on a full queue;
- the timer to expire during GUIX processing and while the GUI thread is
  asleep;
- the hand-over to run twice.

The model has no fairness, because it checks only safety. Deadlock checking
is off because the bounds end every behaviour with both tasks blocked.

| Run | Expect | Properties | What it shows |
|---|---|---|---|
| `guix_queue` | pass | `TypeOK`, `ChainsPartition`, `QueueOrder`, `TimerParkedWhileAsleep` | Posts, folds, pops and purges by the two tasks and the input driver keep every record on exactly one chain. Events leave in posting order. While the GUI thread sleeps after the DONE hand-over, the timer task stays parked waiting for WAKEUP. 16821 distinct states. |
| `guix_handshake` | violation | `HandshakeArmed` | The timer task suspends itself at start, and GUIX's `timer_start` resumes it. Suppose GUIX returns from `entry` before the timer task runs. The GUI thread clears `timer_active` and waits for DONE. The timer task then runs line 142 (`timer_active = true`) and sleeps, and its loop never sends DONE. The GUI thread waits forever. |

### GpioZynq (with MCGpioZynq)

`GpioZynq` models `drivers/gpio/zynq_gpio.c`: one controller, on the
platform `plat` chosen by `zynq_gpio_of_to_plat` from the compatible string.

**Platform tables.** `Tables` holds `ngpio`, `max_bank` and the
`bank_min`/`bank_max` arrays of the four `zynq_platform_data` definitions.
`BankPinMin`/`BankPinMax` compute the `ZYNQ_GPIO_BANKn_PIN_MIN/MAX` macro
chain recursively. `GetBankPin` is `zynq_gpio_get_bank_pin`: the first bank
whose range holds the pin, or bank 0 pin 0 when none does.

**Registers.** A 32-bit register is the set of its bits that are 1 (TLC's
integers are 32-bit signed, so `0xFFFF0000` is out of reach as a number).
Each register is a function from bank to such a set. `level` is the level
on each input pin. `wantDir`, `wantVal` and `wantType` are ghost variables:
the last successful request made for each pin. `lastDispatch` is the set of
pin numbers the last interrupt passed to `gpio_irq_handler`.

**Actions.** One per operation, each atomic, with the pin drawn from
`Pins`:

- `zynq_gpio_set_value` builds the mask/data word for `DATA_LSW` or `DATA_MSW`;
  `MaskWrite` is what the hardware does with it;
- `zynq_gpio_direction_input` refuses bank 0 pins 7 and 8, then clears the
  DIRM bit;
- `zynq_gpio_direction_output` sets DIRM and OUTEN and then writes the value;
- `zynq_gpio_get_value` and `zynq_gpio_get_function` only set `ret`;
- `zynq_gpio_irq_mask`/`_unmask` write the INTDIS/INTEN bit, which sets or
  clears the INTMASK bit;
- `zynq_gpio_set_irq_type` does the read-modify-write of INTTYPE, INTPOL and
  INTANY, or returns `-EINVAL` for a type it does not know;
- `zynq_gpio_irqhandler` reads INTSTS and INTMASK of every bank, clears the
  pending bits, and dispatches the unmasked ones with their index in the bank;
- `InputEdge` changes the level of an input pin; the hardware latches an
  INTSTS bit when the pin's trigger configuration detects the change.

Every operation goes through `Checked`, the `check_gpio` guard, so a pin
beyond `ngpio` returns -1 and changes nothing.

**Bounds.** The four platforms. Pin 7 is in bank 0, where `direction_input`
refuses it. Pin 50 is bit 18 of bank 1 on zynq, bit 24 of bank 1 on zynqmp
and pmc, and bit 24 of bank 3 on versal. Pin 40 is in the same bank as pin 50 on
every platform, in the other half of the data register. The
read-modify-writes of DIRM, OUTEN and the interrupt-type registers of one
pin therefore meet the settings of the other. The masked data writes do not:
no two modelled pins share a half of the data register, so a write that
overwrites a neighbour in its own half (the `zynq_gpio.c:266` hazard) is not
reached. Pin 118 is beyond `ngpio` on zynq,
versal and pmc, and bit 8 of bank 4 on zynqmp. Four of the five interrupt types, including an unknown one. At most 4
operations, 1 edge and 1 interrupt per behaviour. That is enough to
configure two pins of one bank and check the first, or to set a trigger,
unmask it, and have an edge dispatched. `BankPinReference` is checked for every pin below `ngpio`, not
only the three in `Pins`. The bounds end every behaviour, so deadlock is not
checked.

No fairness is assumed: the properties are safety properties.

| Run | Expect | Properties | What it shows |
|---|---|---|---|
| `gpio_drivers` (module `MCGpio`, see `GpioOmap`) | pass | `TypeOK`, `BankPinReference`, `PinConfigHolds` (and the OMAP properties) | On every platform, the hand-written `bank_min`/`bank_max` tables and the first-match loop split each pin as a reference built from the bank sizes does. Any sequence of calls leaves every pin's latch, direction and trigger configuration as its last request set them, whatever was done to other pins of its bank. 780139 distinct states for the zynq device. |

`gpio_zynq.cfg` with `MCGpioZynq` checks the zynq device alone, with the
same bounds and the same three invariants. It is kept beside the project
but is not among the runs: the run `gpio_drivers` checks the same state graph.

`gpio_dispatch.cfg` is not among the runs of `PROJECT.json`. It checks
`DispatchesPendingPins`, and TLC finds it violated.
`zynq_gpio_bank_irqhandler` passes the index in the bank to
`gpio_irq_handler`, while the irqchip callbacks take device pin numbers. An
edge on pin 50 (bank 1, bit 18 on zynq) is dispatched as pin 18.

### GpioOmap (with MCGpio)

`GpioOmap` models one bank of `drivers/gpio/omap_gpio.c`. Its state is the
bank's registers, each a set of bit numbers: `oe` (OE: 1 = input),
`dataout`, `irqenable`, `irqstatus`, and the four detect registers
`risingdetect`, `fallingdetect`, `leveldetect0` and `leveldetect1`. The other
variables are:

- `level`: the level driven on the input pins from outside;
- `probed` and `ret`: the driver's probe state and the last return value;
- `handler` and `hpending`: where `omap_gpio_irqhandler` is, and the
  `pending` word it has read;
- `wantDir`, `wantVal`, `wantType` and `lastDispatch`: ghost state, used
  only by the properties;
- `nops`, `nedges` and `nirqs`: the bounds' counters.

The hardware is given by three operators, which are not in the map:

- `DataIn`: the latch on outputs, `level` on inputs;
- `Edges`: the rising or falling edges whose detect bit is set;
- `Status`: the pending and enabled bits, with active levels counted.

The register offsets are those of the TI manual that the source's `#define`s
copy.

| Action | Code |
|---|---|
| `omap_gpio_probe` | `omap_gpio_probe`: the bank is set up, or probe fails with one of the errors it returns |
| `omap_gpio_direction_input`, `_output`, `_get_value`, `_set_value`, `_get_function` | the `gpio_omap_ops` entries, through `_set_gpio_direction`, `_get_gpio_direction`, `_set_gpio_dataout` and `_get_gpio_value` |
| `omap_gpio_irq_mask`, `_unmask` | the irqchip callbacks on IRQENABLE |
| `omap_gpio_set_irq_type` | `omap_gpio_set_irq_type`: each trigger type sets its own detect bits and clears the other three |
| `IrqRead`, `IrqAck` | `omap_gpio_irqhandler` in two steps: the `readl` of IRQSTATUS, then the write-1-to-clear `writel` of the same word and the dispatch of its bits |
| `InputEdge` | the outside world changes an input pin, and the edge latches into IRQSTATUS |

A driver call (`Op`) runs only while the handler is idle, because it runs with
interrupts off in the caller. An edge can still come between the handler's two
steps. After every call, an edge that the call itself caused is latched into
IRQSTATUS. For example, setting the latch of a pin that is an output and has
rising detect on latches an edge.

`MCGpio` composes the two GPIO drivers. It brings in `GpioOmap` by
`INSTANCE ... WITH`, with the variables renamed. A variable `drv`, fixed in
`Init`, picks which driver the run boots on, and only that driver's variables
move.

The bounds are:

- OMAP pins 0 and 31, which are the two ends of the 32-bit word;
- trigger types "rising", "high" and "none": one edge type, one level type,
  and the reset type;
- 4 calls, 2 edges and 2 interrupts.

These bounds reach an edge between `IrqRead` and `IrqAck`, and a level
interrupt that fires again after it is acknowledged. No fairness is assumed.
Nothing in the driver has to happen eventually: the driver waits on its
callers and on the pins. `CHECK_DEADLOCK` is off because a run that has used
its bounds stops.

| Run | Expect | Properties | What it shows |
|---|---|---|---|
| `gpio_drivers` | pass | `TypeOK`, `BankPinReference`, `PinConfigHolds`, `OmapTypeOK`, `OmapPinConfigHolds`, `OmapEventsDispatched` | See the zynq properties above. On OMAP, any sequence of calls leaves each pin's latch, direction and four detect bits as its last request set them (`OmapPinConfigHolds`). Every IRQSTATUS bit the handler clears is one it dispatches in that step: an edge that arrives between the `readl` and the `writel` is left pending, not lost (`OmapEventsDispatched`). 803057 distinct states, about 2 minutes. |

The mutants for the OMAP properties are:

- `get_gpio_value_word`: the bit is not reduced by `!!`, and the word is
  returned as an int;
- `omap_gpio_set_irq_type_keeplevel`: an edge type leaves the level
  registers alone;
- `IrqAckReread`: the handler reads IRQSTATUS again to clear it, and so
  clears a bit it never dispatches.

TLC breaks each property with its mutant.

One defect is left out of the run: `_get_gpio_value` reads an input pin from
DATAIN + 4 = DATAOUT (line 85), so it reads the output latch instead of the
pin. This is listed as a hazard. The model reads `DataIn` for direction 0 and
`dataout` for direction 1, as the offset arithmetic does.

### LnxCompat (with MCLnxCompat)

`LnxCompat` models the Linux completion and timer API
(`include/linux/completion.h`, `lib/linux/lnx_timer.c`) as a ported driver
task uses it. There are three actors on one processor:

- **the driver task** runs rounds. Each round calls `reinit_completion`,
  arms the timer with `add_timer` or `mod_timer` (or leaves it idle), starts
  a device request (`Request`), and may push a pending timer back with
  `mod_timer`. It then calls one of `wait_for_completion`,
  `wait_for_completion_timeout` or `try_wait_for_completion`, and ends with
  `del_timer`.
- **the device interrupt** (`DeviceIrq`) answers the request by calling
  `complete`.
- **the clock tick** (`Tick`) runs the tick watchdogs that are due. The
  timer's routine, the driver's callback, calls `complete`.

A completion is only the id of the task that initialised it. `complete` is
`rtems_event_transient_send`, and the waits are
`rtems_event_transient_receive`. RTEMS is not in this repository, so
`Receive` and `Tick` follow the RTEMS Classic API:

- the event is one bit;
- a send readies a blocked receiver and removes its timeout watchdog, and
  otherwise latches the bit;
- an interval of 0 means no timeout;
- a watchdog inserted at `ticks + expires` is removed and run in the tick
  that reaches its expiry;
- watchdogs due in the same tick run in expiry order, and equal expiries
  run in insertion order.

The timer is armed before the wait begins, so when both are due in one tick
the callback runs first and readies the task with success. Expiries are kept
relative to the current tick (`tmr.left`, `wleft`), and `el` counts the
ticks since the wait read `start`. Time is unbounded while the states are
finite. Each driver action holds the watchdog lock of
`timer_acquire`/`timer_release` or runs with interrupts possible only
between actions, so an interrupt falls between any two of them.
`unsigned long` arithmetic is modulo `ULongMod`, which stands for 2^32.

`sig`, `armed`, `runs` and `dead` are history variables for the
properties.
- `TimerOnce` (action property): between two arms the callback runs at most
  once, and never after `del_timer`. `del_timer` returns true exactly when
  the timer was armed this round and its callback had not run.
- `TimedWaitReturns` (liveness): a task in `wait_for_completion_timeout`
  returns. This is checked only by `lnx_notimeout.cfg`, which is not among
  the runs (see below).
- `LinuxWaitContract` (action property): a wait that reports success
  follows a `complete` since `reinit_completion`, and a timed wait returns
  0 on a timeout and `1 .. timeout` on success.

Bounds:
- `Delays = {1, 2, 3}` and `Timeouts = {1, 2}`, so the callback is due
  before, in and after the tick in which the wait times out;
- `MaxRounds = 2`, so what one round leaves behind meets the next.

Fairness: the clock keeps ticking (`WF_vars(Tick)`), and a driver task that
is ready gets the processor (`WF_vars(Driver)`). The device need never
answer, so `DeviceIrq` gets no fairness.

| Run | Expect | Properties | What it shows |
|---|---|---|---|
| `lnx_timer` | pass | `TypeOK`, `TimerOnce` | Under every interleaving of the tick, the device interrupt and two rounds of the driver, the callback runs at most once per arm and never after `del_timer`. `del_timer`'s result is exact. 5092 distinct states. |
| `lnx_wait` | violation | `LinuxWaitContract` | The driver calls `add_timer(1)` and `wait_for_completion_timeout(1)`. In the next tick the callback completes the wait, so `end - start = 1`, and the wait returns `1 - 1 = 0`, the value that means it timed out. When the task runs only after later ticks, the result wraps. |

`LinuxWaitContract` also fails through a stale event. A wait that gives up
leaves the bit to a late `complete`, and `reinit_completion` does not clear
it, so the next round's wait succeeds without a `complete` of its own. `lnx_notimeout.cfg` checks `TimedWaitReturns` with
`Timeouts = {0, 1, 2}`, and TLC finds it violated.
`wait_for_completion_timeout(x, 0)` passes 0 to the receive, which is
`RTEMS_NO_TIMEOUT`. The task then blocks for ever when the device does not
answer, where Linux would not wait. The cfg is kept beside the project but
is not among the runs, because the project is at its limit of twelve runs.
With positive timeouts only, the property follows from the RTEMS receive
contract and says nothing about this code, so `lnx_timer` does not check
it.

### CanDriver (with MCCanDriver)

`CanDriver` models the CANopenNode driver glue (`lib/canopen/CO_driver.c`)
and the CAN controller it drives. The state has two halves:

- **The module's view.** `CO_CANmodule_t` with `initialized`, `CANnormal`
  and `CANerrorStatus`, each receive object's `filter_id`, and each transmit
  object's `bufferFull` and `syncFlag`. `emcy` records the error bits passed
  to `CO_errorReport`.
- **The controller's state.** The descriptors open on it (`fds`), the
  attribute mode, whether it is started, the ids of the filters attached to
  it, and its transmit queue.

Every function of `CO_driver.c` is one action, with `CO_CANdeviceOpen` and
`CO_CANdeviceClose` as operators of the init and disable actions. The
controller is not in this repository:

- every ioctl may fail;
- `CAN_IOC_ATTACH_FILTER` hands out a free filter id;
- `write` queues the frame, or answers `-EBUSY` when the queue is full, or
  fails another way;
- `Transmit` empties the queue while the controller is started in normal
  mode.

`CO_CANsend` and `CO_CANclearPendingSyncPDOs` hold `CO_LOCK_CAN_SEND` and
are single steps.

`CO_CANmodule_disable` follows the code. Its loop repeats the same call
`rxSize` times on `rxArray[0]`, and it passes `filter_id` as the file
descriptor. That call reaches the controller only when the id happens to
equal the device's descriptor (`CANFd`). Only `rxArray[0]` is then marked
free. `CO_CANdeviceClose` switches the controller to silent mode and keeps
the descriptor open, so each later `CO_CANmodule_init` opens another one.

`ModuleMirrorsDevice` states what the stack relies on when it reads the
module instead of the controller:
- `CANnormal` implies that the controller is started;
- the `filter_id`s name exactly the attached filters;
- a `bufferFull` frame still waits in the controller. This is CANopenNode's
  meaning of the flag: the previous message is still in the buffer.

The code breaks this invariant in three ways, so it is checked by a
violation run only.

Bounds: two receive objects, two transmit objects, two filters, a transmit
queue of one frame (so the second send meets a full queue), and two
descriptors (so a disable and a second init can follow the first). The
descriptors run out, so deadlock is not checked.

| Run | Expect | Properties | What it shows |
|---|---|---|---|
| `can_mirror` | violation | `ModuleMirrorsDevice` | `CAN_IOC_START` fails in `CO_CANsetNormalMode`. The code sets `CANnormal = false` and then `true` on the same path, so the stack runs as if the controller were started. |

TLC stops at this first violation. Its trace begins with init, disable and
init again, because `CO_CANmodule_disable` passes `filter_id` as the
descriptor. `CO_CANrxBufferInit` never runs in it. Two more ways break the
invariant, found by tracing the model by hand; this run does not show them:
- `CO_CANmodule_disable` after one `CO_CANrxBufferInit` leaves the filter
  attached and forgotten;
- a send that meets `-EBUSY` returns `CO_ERROR_NO` and marks `bufferFull`
  on a frame that nothing writes later.

`CO_driver_target.h:235` comments `bufferFull` as "not used", although
`CO_driver.c` sets it in `CO_CANsend` and reads it in
`CO_CANclearPendingSyncPDOs`.

## 4. Plan

The modules are built in this order. Each one gets an MC module and cfgs like
`OfIrq`.

1. `OfIrq` (done). Next: `of_irq_count`, and trees with an interrupt-map
   cycle.
2. `IrqClaim` (done): `devm_request_threaded_irq`, `devm_free_irq` and
   `devm_irq_release` over a devres list, with interrupts injected at any
   point.
   - An abstract spec `IrqClaimSpec` (claim/release/deliver by (irq, arg)) is
     shown to be implemented through `INSTANCE ... WITH`.
   - Violation run: the wrapper recursion.
3. `DmRoot` (done, without the composition with `IrqClaim`): `dm_init`, the scans and `dm_devices_probe`/`dm_uninit` over a
   small node/driver table. Bind, probe and remove come from the description
   (`device.c` is absent). Composition with `IrqClaim`, so that removal
   releases claims, is not yet done.
4. `SerialTx` (done): open/close, `set_termios`, termios writes,
   `putc_poll`, the interrupt handler and the UART FIFO. Not yet covered:
   flow control, console selection, probe and removal (see the
   `serial_pre_remove` hazard), and SMP, where the handler runs beside
   a task.
5. `GuixQueue` (done): the queue and the timer hand-over in one module,
   since the hand-over is about who may touch the queue. Not yet covered:
   the suspend notifier chain, and the system mutex GUIX takes around its
   own processing.
6. `LnxCompat` (done): completions and timers in one module, since the
   timer callback completes what the task waits for. Not yet covered:
   several waiters, and `add_timer` on a pending timer.
7. `CanDriver` (done, violation run only). Not yet covered: the receive
   path, which runs in the controller's filter callbacks.
8. `GpioZynq` and `GpioOmap` (done, composed in `MCGpio`). Not yet covered:
   the GPIO uclass (`gpio_irq_handler`, the lock around the ops), which is not
   in the repository.
9. `ZynqBaud` (folded into `SerialTx` as `ZynqCalcBaud`).

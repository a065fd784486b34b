------------------------------- MODULE IrqClaim -------------------------------
(***************************************************************************)
(* drivers/core/interrupt.c: devm_request_threaded_irq, devm_free_irq and *)
(* the devres release, with interrupts delivered at any point.            *)
(*                                                                         *)
(* Each device runs one driver task that claims and frees interrupts; a   *)
(* claim takes three steps (checks and devres_alloc, the handler install, *)
(* the assignments and devres_add) so that an interrupt can arrive        *)
(* between them.  The RTEMS handler table, the interrupt server and the   *)
(* devres list (devres.c is not in this repository) are modelled from    *)
(* their contracts.  A struct irq_devres is a slot of DrIds.               *)
(***************************************************************************)
EXTENDS Integers, Sequences, FiniteSets, SequencesExt

CONSTANTS
    Devs,      \* devices whose drivers claim interrupts
    Irqs,      \* interrupt vectors
    Args,      \* driver contexts passed as arg
    DrIds,     \* memory for struct irq_devres records
    NCPU,      \* processors of the scheduler
    CpuNrs,    \* values of IRQF_CPU_NR(irqflags) asked for
    None

\* the handler functions, as the table and struct irq_devres hold them:
\* a driver's own hard handler, threaded_irq_wrappwer and
\* rtems_interrupt_server_request_submit; Zero is a zeroed pointer
Hard(d)  == <<"user", d>>
Wrapper  == <<"wrapper", None>>
Submit   == <<"submit", None>>
Zero     == <<"zero", None>>

Kinds == {"none", "hard", "thread", "both"}   \* which of handler, thread_fn

Requests == [irq : Irqs, kind : Kinds, arg : Args, shared : BOOLEAN, cpu : CpuNrs]

\* drv[d].req is kept after a return only where a property reads it: the
\* rejected request
VARIABLES
    dr,       \* dr[i]: the irq_devres in slot i
    devres,   \* devres[d]: the device's devres list, oldest first
    table,    \* the installed handlers: vector, function, argument, flags
    pending,  \* requests on the interrupt server's chain
    masked,   \* vectors disabled by a request trigger until it has run
    drv,      \* drv[d]: the driver task's position, request and result
    fault,    \* the first undefined behaviour reached, or "none"
    freeCall  \* history: the arguments of the last devm_free_irq call

vars == <<dr, devres, table, pending, masked, drv, fault, freeCall>>

FreeDr == [used |-> FALSE, dev |-> None, vector |-> None, arg |-> None,
           handler |-> Zero, harg |-> None]

Init ==
    /\ dr = [i \in DrIds |-> FreeDr]
    /\ devres = [d \in Devs |-> <<>>]
    /\ table = {}
    /\ pending = {}
    /\ masked = {}
    /\ drv = [d \in Devs |-> [pc |-> "idle", cur |-> None, req |-> None, ret |-> None]]
    /\ fault = "none"
    /\ freeCall = <<>>

-----------------------------------------------------------------------------
(* The RTEMS interrupt-handler table: a unique handler excludes any other *)
(* on its vector, shared handlers coexist, and one function/argument pair *)
(* is installed at most once per vector.                                   *)

Installable(v, fn, farg, shared) ==
    LET on == {x \in table : x.vec = v} IN
    /\ on = {} \/ (shared /\ \A x \in on : x.shared)
    /\ ~\E x \in on : x.fn = fn /\ x.farg = farg

\* rtems_interrupt_handler_remove(vector, handler, arg)
Uninstall(t, v, fn, farg) == {x \in t : ~(x.vec = v /\ x.fn = fn /\ x.farg = farg)}

\* the function and argument a request installs (lines 79-104)
InstallFn(d, q, i) ==
    CASE q.kind = "hard" -> [fn |-> Hard(d), farg |-> q.arg]
      [] q.kind = "both" -> [fn |-> Wrapper, farg |-> i]
      [] OTHER           -> [fn |-> Submit,  farg |-> i]

\* mutant: the record matches on its vector alone, whatever its context
MatchesVectorOnly(i, v, a) == dr[i].vector = v

\* devm_irq_match
Matches(i, v, a) == dr[i].vector = v /\ dr[i].arg = a

-----------------------------------------------------------------------------
(* The driver task.                                                        *)

\* lines 52-78: argument checks against the processor the caller is on,
\* devres_alloc and rtems_interrupt_server_request_initialize
ClaimBegin(d, q) ==
    /\ drv[d].pc = "idle"
    /\ \E here \in 0..(NCPU - 1) :
         LET free == {i \in DrIds : ~dr[i].used} IN
         CASE q.kind = "none" \/ q.cpu > here ->
                /\ drv' = [drv EXCEPT ![d] = [pc |-> "idle", cur |-> None,
                                              req |-> q, ret |-> "EINVAL"]]
                /\ UNCHANGED dr
           [] free = {} ->
                /\ drv' = [drv EXCEPT ![d] = [pc |-> "idle", cur |-> None,
                                              req |-> None, ret |-> "ENOMEM"]]
                /\ UNCHANGED dr
           [] OTHER ->
                \E i \in free :
                  /\ dr' = [dr EXCEPT ![i] = [used |-> TRUE, dev |-> d,
                                              vector |-> None, arg |-> q.arg,
                                              handler |-> Zero, harg |-> None]]
                  /\ drv' = [drv EXCEPT ![d] = [pc |-> "install", cur |-> i,
                                                req |-> q, ret |-> None]]
    /\ UNCHANGED <<devres, table, pending, masked, fault>>

\* mutant: the failed install returns without devres_free
ClaimInstallKeepsDr(d) ==
    /\ drv[d].pc = "install"
    /\ LET q == drv[d].req
           i == drv[d].cur
           e == InstallFn(d, q, i)
       IN
       IF Installable(q.irq, e.fn, e.farg, q.shared)
       THEN /\ table' = table \cup {[vec |-> q.irq, fn |-> e.fn, farg |-> e.farg,
                                     shared |-> q.shared]}
            /\ drv' = [drv EXCEPT ![d].pc = "finish"]
       ELSE /\ drv' = [drv EXCEPT ![d] = [pc |-> "idle", cur |-> None,
                                          req |-> None, ret |-> "EBUSY"]]
            /\ UNCHANGED table
    /\ UNCHANGED <<dr, devres, pending, masked, fault>>

\* lines 79-100 and 110-114: install, or free the record and fail
ClaimInstall(d) ==
    /\ drv[d].pc = "install"
    /\ LET q == drv[d].req
           i == drv[d].cur
           e == InstallFn(d, q, i)
       IN
       IF Installable(q.irq, e.fn, e.farg, q.shared)
       THEN /\ table' = table \cup {[vec |-> q.irq, fn |-> e.fn, farg |-> e.farg,
                                     shared |-> q.shared]}
            /\ drv' = [drv EXCEPT ![d].pc = "finish"]
            /\ UNCHANGED dr
       ELSE /\ dr' = [dr EXCEPT ![i] = FreeDr]
            /\ drv' = [drv EXCEPT ![d] = [pc |-> "idle", cur |-> None,
                                          req |-> None, ret |-> "EBUSY"]]
            /\ UNCHANGED table
    /\ UNCHANGED <<devres, pending, masked, fault>>

\* lines 85-86, 92-93, 101-103 and 106-108: the record's handler and
\* argument, its vector, and devres_add
ClaimFinish(d) ==
    /\ drv[d].pc = "finish"
    /\ LET q == drv[d].req
           i == drv[d].cur
           h == InstallFn(d, q, i)
       IN
       /\ dr' = [dr EXCEPT ![i] = [@ EXCEPT !.handler = h.fn, !.harg = h.farg,
                                            !.vector = q.irq]]
       /\ devres' = [devres EXCEPT ![d] = Append(@, i)]
       /\ drv' = [drv EXCEPT ![d] = [pc |-> "idle", cur |-> None, req |-> None, ret |-> "OK"]]
    /\ UNCHANGED <<table, pending, masked, fault>>

\* devm_irq_release: remove the handler the record names
ReleaseDr(t, i) == Uninstall(t, dr[i].vector, dr[i].handler, dr[i].harg)

\* devm_free_irq: devres_destroy with devm_irq_match; one matching record
\* is taken off the list, released and freed; none matching changes nothing
FreeIrq(d, v, a) ==
    /\ drv[d].pc = "idle"
    /\ freeCall' = <<d, v, a>>
    /\ LET ks == {k \in DOMAIN devres[d] : Matches(devres[d][k], v, a)} IN
       IF ks = {} THEN UNCHANGED <<dr, devres, table, pending, masked, drv, fault>>
       ELSE \E k \in ks :
              LET i == devres[d][k] IN
              /\ table' = ReleaseDr(table, i)
              /\ dr' = [dr EXCEPT ![i] = FreeDr]
              /\ devres' = [devres EXCEPT ![d] = RemoveAt(@, k)]
              /\ UNCHANGED <<pending, masked, drv, fault>>

\* device removal: devres_release_all releases and frees every record
RemoveDevice(d) ==
    /\ drv[d].pc = "idle"
    /\ LET mine == ToSet(devres[d]) IN
       /\ table' = {x \in table : ~\E i \in mine :
                       x.vec = dr[i].vector /\ x.fn = dr[i].handler /\ x.farg = dr[i].harg}
       /\ dr' = [i \in DrIds |-> IF i \in mine THEN FreeDr ELSE dr[i]]
    /\ devres' = [devres EXCEPT ![d] = <<>>]
    /\ drv' = [drv EXCEPT ![d].pc = "removed"]
    /\ UNCHANGED <<pending, masked, fault>>

-----------------------------------------------------------------------------
(* Interrupt context and the interrupt server.                            *)

\* mutant: the trigger disables the request's vector whether or not it is set
InterruptMaskAny(v) ==
    /\ v \notin masked
    /\ \E x \in table : x.vec = v
    /\ LET subs == {x.farg : x \in {y \in table : y.vec = v /\ y.fn \in {Wrapper, Submit}}}
       IN /\ pending' = pending \cup subs
          /\ masked' = masked \cup {dr[i].vector : i \in subs}
    /\ UNCHANGED <<dr, devres, table, drv, fault>>

\* the vector fires: every handler installed on it runs.  Submit and the
\* wrapper trigger the request (bsp_interrupt_server_trigger disables the
\* request's vector when it is set); the wrapper first calls dr->handler
\* with dr->req.action.arg (lines 33-39)
Interrupt(v) ==
    /\ v \notin masked
    /\ \E x \in table : x.vec = v
    /\ LET on   == {x \in table : x.vec = v}
           subs == {x.farg : x \in {y \in on : y.fn \in {Wrapper, Submit}}}
           wrap == {x.farg : x \in {y \in on : y.fn = Wrapper}}
       IN
       /\ pending' = pending \cup subs
       /\ masked' = masked \cup {dr[i].vector : i \in {j \in subs : dr[j].vector # None}}
       /\ fault' = CASE fault # "none"                        -> fault
                     [] \E i \in subs : ~dr[i].used            -> "use_after_free"
                     [] \E i \in wrap : dr[i].handler = Zero    -> "null_call"
                     [] \E i \in wrap : dr[i].handler = Wrapper -> "bad_arg"
                     [] OTHER                                  -> fault
    /\ UNCHANGED <<dr, devres, table, drv>>

\* the server task takes a request off its chain, runs thread_fn and
\* enables the request's vector again
ServerRun(i) ==
    /\ i \in pending
    /\ pending' = pending \ {i}
    /\ masked' = masked \ {dr[i].vector}
    /\ fault' = IF fault = "none" /\ ~dr[i].used THEN "use_after_free" ELSE fault
    /\ UNCHANGED <<dr, devres, table, drv>>

\* every step but devm_free_irq leaves the history variable alone
Next ==
    \/ \E d \in Devs, v \in Irqs, a \in Args : FreeIrq(d, v, a)
    \/ /\ \/ \E d \in Devs, q \in Requests : ClaimBegin(d, q)
          \/ \E d \in Devs : ClaimInstall(d) \/ ClaimFinish(d) \/ RemoveDevice(d)
          \/ \E v \in Irqs : Interrupt(v)
          \/ \E i \in DrIds : ServerRun(i)
       /\ UNCHANGED freeCall

Spec == Init /\ [][Next]_vars

-----------------------------------------------------------------------------
(* Properties.                                                             *)

TypeOK ==
    /\ \A i \in DrIds : dr[i].handler \in {Zero, Wrapper, Submit} \cup {Hard(d) : d \in Devs}
    /\ devres \in [Devs -> Seq(DrIds)]
    /\ pending \subseteq DrIds
    /\ masked \subseteq Irqs
    /\ fault \in {"none", "use_after_free", "null_call", "bad_arg"}
    /\ \A d \in Devs : drv[d].pc \in {"idle", "install", "finish", "removed"}

\* the records a driver task holds between devres_alloc and devres_add
InFlight == {drv[d].cur : d \in {e \in Devs : drv[e].pc \in {"install", "finish"}}}

Listed == UNION {ToSet(devres[d]) : d \in Devs}

HandlerOf(i) ==
    IF i \in Listed THEN [vec |-> dr[i].vector, fn |-> dr[i].handler, farg |-> dr[i].harg]
    ELSE LET d == dr[i].dev
             e == InstallFn(d, drv[d].req, i)
         IN  [vec |-> drv[d].req.irq, fn |-> e.fn, farg |-> e.farg]

(* The handler table and the devres lists agree: every installed handler  *)
(* belongs to exactly one live record (listed on its device, or installed *)
(* by a claim not yet added), and every record in use is listed once or  *)
(* held by its claim.  A release that removes the wrong (vector, handler, *)
(* arg), a failed install that keeps its record, or a removal that misses *)
(* a record leaves a handler with no owner or a record leaked.             *)
ClaimsConsistent ==
    /\ {[vec |-> x.vec, fn |-> x.fn, farg |-> x.farg] : x \in table}
         = {HandlerOf(i) : i \in Listed \cup {j \in InFlight : drv[dr[j].dev].pc = "finish"}}
    /\ \A i \in DrIds : dr[i].used <=> (i \in Listed \cup InFlight)
    /\ \A d \in Devs : IsInjective(devres[d]) /\ \A i \in ToSet(devres[d]) : dr[i].dev = d

\* the claim a listed record stands for, read back from what it installed
ClaimOf(i) ==
    LET on == {x \in table : x.vec = dr[i].vector /\ x.fn = dr[i].handler
                             /\ x.farg = dr[i].harg}
        x  == CHOOSE y \in on : TRUE
    IN  IF on = {} THEN [irq |-> dr[i].vector, arg |-> dr[i].arg, kind |-> "none",
                         shared |-> FALSE]
        ELSE [irq |-> dr[i].vector, arg |-> dr[i].arg,
              kind |-> CASE dr[i].handler = Wrapper -> "both"
                         [] dr[i].handler = Submit  -> "thread"
                         [] OTHER                   -> "hard",
              shared |-> x.shared]

Abstract == INSTANCE IrqClaimSpec WITH
    claims <- [d \in Devs |-> [k \in DOMAIN devres[d] |-> ClaimOf(devres[d][k])]],
    gone   <- {d \in Devs : drv[d].pc = "removed"},
    released <- freeCall

(* The claim layer implements its description: claims are admitted under *)
(* the shared/exclusive rule, devm_free_irq(dev, irq, arg) drops one claim *)
(* of dev matching that irq and arg, or nothing when none matches, and    *)
(* removing a device drops all it owns.  The history variable freeCall    *)
(* ties each release to the arguments of the call that made it, so a      *)
(* devm_irq_match that compares the wrong fields drops a claim the call   *)
(* did not name.                                                          *)
Refinement == Abstract!Spec

(* An interrupt on a claim with both handlers runs the driver's hard      *)
(* handler before handing the request to the server: threaded_irq_wrappwer *)
(* calls dr->handler, which the claim must have set to that handler.       *)
HardHandlerDispatched == fault \notin {"null_call", "bad_arg"}

=============================================================================

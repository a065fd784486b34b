-------------------------------- MODULE DmRoot --------------------------------
(***************************************************************************)
(* drivers/core/root.c: the bring-up of the driver model.                  *)
(*                                                                         *)
(* dm_root_init runs as a system initialisation item: dm_init binds and   *)
(* probes the root device, dm_scan binds the platform devices, scans the  *)
(* firmware root's subnodes and the auxiliary paths, and any error is a   *)
(* panic.  device_drivers_init then probes the whole graph from the root, *)
(* and a driver may later call dm_uninit.  The calls run one after the    *)
(* other on one task, so the model is one process whose program counter   *)
(* follows these calls; the recursion of dm_scan_fdt_node (through a bus  *)
(* driver's bind) and of dm_devices_probe is an explicit stack.            *)
(*                                                                         *)
(* device.c and lists.c are not in this repository: bind, probe, remove   *)
(* and lists_bind_fdt are written from their description (bind fails on a *)
(* node already bound; probe failure leaves the device bound).  What the  *)
(* hardware does (which nodes have a driver, which binds and probes fail)  *)
(* is a record hw fixed at start.                                          *)
(***************************************************************************)
EXTENDS Integers, Sequences, FiniteSets, SequencesExt

CONSTANTS
    Nodes,     \* firmware nodes
    FwRoot,    \* ofnode_root()
    Plat,      \* the U_BOOT_DRVINFO platform device
    Sub,       \* Sub[n]: the subnodes of n, in tree order
    Enabled,   \* the nodes whose status is okay
    AuxPaths,  \* "/chosen", "/clocks", "/firmware": a node, or None if absent
    Hw,        \* the hardware/driver configurations to explore
    None

Devs == Nodes \cup {Plat}

VARIABLES
    hw,        \* drv[n] (none, leaf, bus), bindFail[n] (the error of a failing
               \* bind), probeFail, plat result, vital
    pc,        \* where the bring-up is
    state,     \* state[d]: "none", "bound", "probed" or "removed"
    parent,    \* parent[d]: the device d was bound under
    children,  \* children[d]: d's child_head, in bind order
    scan,      \* dm_scan_fdt_node frames: parent device, subnodes left, ret
    aux,       \* the index into AuxPaths dm_extended_scan is at
    probe,     \* dm_devices_probe frames: device and next child index
    order,     \* the devices in the order they were bound
    ret        \* the error dm_init_and_scan returns, which rtems_panic prints

vars == <<hw, pc, state, parent, children, scan, aux, probe, order, ret>>

Init ==
    /\ hw \in Hw
    /\ pc = "dm_init"
    /\ state = [d \in Devs |-> "none"]
    /\ parent = [d \in Devs |-> None]
    /\ children = [d \in Devs |-> <<>>]
    /\ scan = <<>>
    /\ aux = 1
    /\ probe = <<>>
    /\ order = <<>>
    /\ ret = "OK"

\* device_bind: attach d at the tail of p's child list, in state st
BindAs(d, p, st) ==
    /\ state' = [state EXCEPT ![d] = st]
    /\ parent' = [parent EXCEPT ![d] = p]
    /\ children' = IF p = None THEN children
                   ELSE [children EXCEPT ![p] = Append(@, d)]
    /\ order' = Append(order, d)

\* the error device_bind returns for node n
BindErr(n) == IF n \in DOMAIN hw.bindFail THEN hw.bindFail[n] ELSE "OK"

\* the error of a failing probe
ProbeErr == "EIO"

\* device_probe: a no-op on a probed device; failure leaves it bound
Probed(d) == IF d \in hw.probeFail THEN state[d] ELSE "probed"

\* mutant: the last error is kept
FirstErrLast(kept, err) == IF err # "OK" THEN err ELSE kept

\* dm_scan_fdt_node's error aggregation: the first error is kept
FirstErr(kept, err) == IF err # "OK" /\ kept = "OK" THEN err ELSE kept

\* the frame dm_scan_fdt_node(parent, node) starts with
Frame(p, n) == [dev |-> p, todo |-> Sub[n], ret |-> "OK"]

Busy == <<state, parent, children, order>>

-----------------------------------------------------------------------------
(* dm_root_init: dm_init_and_scan(false), panicking on an error.          *)

\* dm_init (lines 89-123): bind root_driver by name, give it the root
\* node and probe it
DmInit ==
    /\ pc = "dm_init"
    /\ \/ /\ BindErr(FwRoot) # "OK"
          /\ pc' = "panic"
          /\ ret' = BindErr(FwRoot)
          /\ UNCHANGED Busy
       \/ /\ BindErr(FwRoot) = "OK"
          /\ BindAs(FwRoot, None, IF FwRoot \in hw.probeFail THEN "bound" ELSE "probed")
          /\ pc' = IF FwRoot \in hw.probeFail THEN "panic" ELSE "dm_scan_plat"
          /\ ret' = IF FwRoot \in hw.probeFail THEN ProbeErr ELSE "OK"
    /\ UNCHANGED <<hw, scan, aux, probe>>

\* dm_scan_plat (lines 141-163): lists_bind_drivers binds the platform
\* device under the root; a missing driver (-ENOENT) is only a warning.
\* dm_scan (lines 280-303) then goes on to dm_extended_scan.
DmScanPlat ==
    /\ pc = "dm_scan_plat"
    /\ \/ /\ hw.plat = "OK"
          /\ BindAs(Plat, FwRoot, "bound")
       \/ /\ hw.plat = "ENOENT"
          /\ UNCHANGED Busy
    /\ pc' = "dm_scan_fdt"
    /\ scan' = <<Frame(FwRoot, FwRoot)>>
    /\ UNCHANGED <<hw, ret, aux, probe>>

DmScanPlatFail ==
    /\ pc = "dm_scan_plat"
    /\ hw.plat = "ENOMEM"
    /\ pc' = "panic"
    /\ ret' = "ENOMEM"
    /\ UNCHANGED <<hw, state, parent, children, order, scan, aux, probe>>

(* One iteration of the loop of dm_scan_fdt_node (lines 187-201) on the   *)
(* innermost frame.  lists_bind_fdt binds the node to the first driver    *)
(* that matches it; a bus driver's bind scans the node's own subnodes     *)
(* (dm_scan_fdt_dev), which is a new frame whose result is the bind's.    *)

Top == Last(scan)

\* replace the innermost frame by f
SetTop(f) == scan' = [scan EXCEPT ![Len(scan)] = f]

Advance(f) == [f EXCEPT !.todo = Tail(f.todo)]

ScanSkipDisabled ==
    /\ pc \in {"dm_scan_fdt", "aux_scan"}
    /\ scan # <<>> /\ Top.todo # <<>>
    /\ Head(Top.todo) \notin Enabled
    /\ SetTop(Advance(Top))
    /\ UNCHANGED <<hw, ret, pc, state, parent, children, order, aux, probe>>

\* no driver matches the node: lists_bind_fdt returns 0
ScanNoDriver ==
    /\ pc \in {"dm_scan_fdt", "aux_scan"}
    /\ scan # <<>> /\ Top.todo # <<>>
    /\ LET n == Head(Top.todo) IN n \in Enabled /\ hw.drv[n] = "none"
    /\ SetTop(Advance(Top))
    /\ UNCHANGED <<hw, ret, pc, state, parent, children, order, aux, probe>>

\* the bind fails: the node is bound already, or memory runs out
ScanBindFail ==
    /\ pc \in {"dm_scan_fdt", "aux_scan"}
    /\ scan # <<>> /\ Top.todo # <<>>
    /\ LET n == Head(Top.todo)
           err == IF state[n] # "none" THEN "EEXIST" ELSE BindErr(n)
       IN  /\ n \in Enabled /\ hw.drv[n] # "none"
           /\ err # "OK"
           /\ SetTop([Advance(Top) EXCEPT !.ret = FirstErr(@, err)])
    /\ UNCHANGED <<hw, ret, pc, state, parent, children, order, aux, probe>>

ScanBind ==
    /\ pc \in {"dm_scan_fdt", "aux_scan"}
    /\ scan # <<>> /\ Top.todo # <<>>
    /\ LET n == Head(Top.todo) IN
       /\ n \in Enabled /\ hw.drv[n] # "none"
       /\ state[n] = "none" /\ BindErr(n) = "OK"
       /\ BindAs(n, Top.dev, "bound")
       /\ scan' = LET s == [scan EXCEPT ![Len(scan)] = Advance(Top)] IN
                  IF hw.drv[n] = "bus" THEN Append(s, Frame(n, n)) ELSE s
    /\ UNCHANGED <<hw, ret, pc, aux, probe>>

\* a bus driver's dm_scan_fdt_dev returns: its result is the bind's error
ScanReturnToBind ==
    /\ Len(scan) > 1 /\ Top.todo = <<>>
    /\ scan' = LET s == Front(scan) IN
               [s EXCEPT ![Len(s)].ret = FirstErr(@, Top.ret)]
    /\ UNCHANGED <<hw, ret, pc, state, parent, children, order, aux, probe>>

\* the outermost dm_scan_fdt_node returns: dm_scan_fdt (lines 236-240) or
\* one auxiliary path (lines 243-250); an error ends dm_extended_scan and
\* dm_root_init panics
ScanReturn ==
    /\ Len(scan) = 1 /\ Top.todo = <<>>
    /\ scan' = <<>>
    /\ pc' = IF Top.ret # "OK" THEN "panic" ELSE "aux"
    /\ aux' = IF pc = "aux_scan" THEN aux + 1 ELSE aux
    /\ ret' = Top.ret
    /\ UNCHANGED <<hw, state, parent, children, order, probe>>

\* mutant: an absent path does not advance the loop
DmScanPathStuck ==
    /\ pc = "aux" /\ aux <= Len(AuxPaths)
    /\ IF AuxPaths[aux] = None
       THEN UNCHANGED <<aux, pc, scan>>
       ELSE /\ scan' = <<Frame(FwRoot, AuxPaths[aux])>>
            /\ pc' = "aux_scan"
            /\ UNCHANGED aux
    /\ UNCHANGED <<hw, ret, state, parent, children, order, probe>>

\* dm_scan_fdt_ofnode_path: a path that is not in the tree scans nothing
DmScanPath ==
    /\ pc = "aux" /\ aux <= Len(AuxPaths)
    /\ IF AuxPaths[aux] = None
       THEN /\ aux' = aux + 1
            /\ UNCHANGED <<pc, scan>>
       ELSE /\ scan' = <<Frame(FwRoot, AuxPaths[aux])>>
            /\ pc' = "aux_scan"
            /\ UNCHANGED aux
    /\ UNCHANGED <<hw, ret, state, parent, children, order, probe>>

\* dm_scan_other returns 0; dm_root_init returns, and later the init task's
\* _module_driver_init runs device_drivers_init (lines 353-357)
DmScanOther ==
    /\ pc = "aux" /\ aux > Len(AuxPaths)
    /\ pc' = "drivers"
    /\ probe' = <<[dev |-> FwRoot, next |-> 1]>>
    /\ UNCHANGED <<hw, ret, state, parent, children, order, scan, aux>>
-----------------------------------------------------------------------------
(* device_drivers_init: dm_devices_probe(_dm_root) (lines 336-344) probes *)
(* each child in list order and recurses into it, whatever the probe      *)
(* returned.                                                               *)

\* mutant: the child index counted from 0
DevicesProbeChildFromZero ==
    /\ pc = "drivers" /\ probe # <<>>
    /\ LET f == Last(probe) IN
       /\ f.next <= Len(children[f.dev])
       /\ LET c == children[f.dev][f.next] IN
          /\ state' = [state EXCEPT ![c] = Probed(c)]
          /\ probe' = Append([probe EXCEPT ![Len(probe)].next = @ + 1],
                             [dev |-> c, next |-> 0])
    /\ UNCHANGED <<hw, ret, pc, parent, children, scan, aux, order>>

\* mutant: no recursion below a device whose probe failed
DevicesProbeChildSkipFailed ==
    /\ pc = "drivers" /\ probe # <<>>
    /\ LET f == Last(probe) IN
       /\ f.next <= Len(children[f.dev])
       /\ LET c == children[f.dev][f.next]
              s == [probe EXCEPT ![Len(probe)].next = @ + 1]
          IN /\ state' = [state EXCEPT ![c] = Probed(c)]
             /\ probe' = IF c \in hw.probeFail THEN s ELSE Append(s, [dev |-> c, next |-> 1])
    /\ UNCHANGED <<hw, ret, pc, parent, children, scan, aux, order>>

DevicesProbeChild ==
    /\ pc = "drivers" /\ probe # <<>>
    /\ LET f == Last(probe) IN
       /\ f.next <= Len(children[f.dev])
       /\ LET c == children[f.dev][f.next] IN
          /\ state' = [state EXCEPT ![c] = Probed(c)]
          /\ probe' = Append([probe EXCEPT ![Len(probe)].next = @ + 1],
                             [dev |-> c, next |-> 1])
    /\ UNCHANGED <<hw, ret, pc, parent, children, scan, aux, order>>

DevicesProbeReturn ==
    /\ pc = "drivers" /\ probe # <<>>
    /\ Last(probe).next > Len(children[Last(probe).dev])
    /\ probe' = Front(probe)
    /\ UNCHANGED <<hw, ret, pc, state, parent, children, scan, aux, order>>

DevicesProbeDone ==
    /\ pc = "drivers" /\ probe = <<>>
    /\ pc' = "running"
    /\ UNCHANGED <<hw, ret, state, parent, children, scan, aux, probe, order>>

-----------------------------------------------------------------------------
(* Teardown, which a driver may call once the system runs.                *)

\* device_remove(root, flags): a non-vital pass leaves vital devices probed
Removed(f) == [d \in Devs |-> IF state[d] = "probed" /\ (f = "normal" \/ d \notin hw.vital)
                             THEN "removed" ELSE state[d]]

\* dm_remove_devices_flags (lines 135-139)
DmRemoveDevicesFlags(f) ==
    /\ pc = "running"
    /\ state' = Removed(f)
    /\ UNCHANGED <<hw, ret, pc, parent, children, scan, aux, probe, order>>

\* dm_uninit (lines 125-133): remove the non-vital devices, then all, then
\* unbind the root and with it the whole graph; dm_root() is NULL after
DmUninit ==
    /\ pc = "running"
    /\ state' = [d \in Devs |-> "none"]
    /\ parent' = [d \in Devs |-> None]
    /\ children' = [d \in Devs |-> <<>>]
    /\ pc' = "down"
    /\ UNCHANGED <<hw, ret, scan, aux, probe, order>>

Next ==
    \/ DmInit \/ DmScanPlat \/ DmScanPlatFail
    \/ ScanSkipDisabled \/ ScanNoDriver \/ ScanBindFail \/ ScanBind
    \/ ScanReturnToBind \/ ScanReturn \/ DmScanPath \/ DmScanOther
    \/ DevicesProbeChild \/ DevicesProbeReturn \/ DevicesProbeDone
    \/ \E f \in {"non_vital", "normal"} : DmRemoveDevicesFlags(f)
    \/ DmUninit

\* the bring-up is one call sequence that nothing preempts for ever
Spec == Init /\ [][Next]_vars /\ WF_vars(Next)

-----------------------------------------------------------------------------
(* The scan the description asks for: depth first, parent before its      *)
(* children, disabled nodes and nodes without a driver skipped, a failed  *)
(* bind reported but the siblings still scanned, the first error kept,    *)
(* the auxiliary paths after the root's subnodes, and an error fatal.     *)

\* scanning the nodes todo after the devices bound so far
RECURSIVE RefScanList(_, _, _)
RefScanList(todo, bound, err) ==
    IF todo = <<>> THEN [order |-> bound, err |-> err]
    ELSE LET n == Head(todo)
             r == CASE n \notin Enabled \/ hw.drv[n] = "none" -> [order |-> bound, err |-> "OK"]
                    [] n \in ToSet(bound)  -> [order |-> bound, err |-> "EEXIST"]
                    [] BindErr(n) # "OK"   -> [order |-> bound, err |-> BindErr(n)]
                    [] hw.drv[n] = "bus"   -> RefScanList(Sub[n], Append(bound, n), "OK")
                    [] OTHER               -> [order |-> Append(bound, n), err |-> "OK"]
         IN  RefScanList(Tail(todo), r.order, IF err = "OK" THEN r.err ELSE err)

\* the auxiliary paths from the i-th on
RECURSIVE RefAux(_, _)
RefAux(i, bound) ==
    IF i > Len(AuxPaths) THEN [order |-> bound, err |-> "OK"]
    ELSE IF AuxPaths[i] = None THEN RefAux(i + 1, bound)
    ELSE LET r == RefScanList(Sub[AuxPaths[i]], bound, "OK") IN
         IF r.err # "OK" THEN r ELSE RefAux(i + 1, r.order)

\* the devices bound and the error bring-up panics with, or "OK"
RefBoot ==
    IF BindErr(FwRoot) # "OK" THEN [order |-> <<>>, err |-> BindErr(FwRoot)]
    ELSE IF FwRoot \in hw.probeFail THEN [order |-> <<FwRoot>>, err |-> ProbeErr]
    ELSE IF hw.plat = "ENOMEM" THEN [order |-> <<FwRoot>>, err |-> "ENOMEM"]
    ELSE LET b0 == IF hw.plat = "OK" THEN <<FwRoot, Plat>> ELSE <<FwRoot>>
             r0 == RefScanList(Sub[FwRoot], b0, "OK")
         IN  IF r0.err # "OK" THEN r0 ELSE RefAux(1, r0.order)

-----------------------------------------------------------------------------
(* Properties.                                                             *)

TypeOK ==
    /\ pc \in {"dm_init", "dm_scan_plat", "dm_scan_fdt", "aux", "aux_scan",
               "drivers", "running", "down", "panic"}
    /\ state \in [Devs -> {"none", "bound", "probed", "removed"}]
    /\ parent \in [Devs -> Devs \cup {None}]
    /\ children \in [Devs -> Seq(Devs)]
    /\ aux \in 1..(Len(AuxPaths) + 1)
    /\ probe \in Seq([dev : Devs, next : 1..Cardinality(Devs)])
    /\ order \in Seq(Devs)
    /\ ret \in {"OK", "ENOMEM", "EEXIST", "EIO"}

\* dm_root_init has returned or panicked
Scanned == pc \in {"drivers", "running", "down", "panic"}

(* dm_root_init binds exactly the devices of the described scan, in its   *)
(* order, and panics exactly when that scan reports an error, with that  *)
(* error: the loop of dm_scan_fdt_node keeps the first error and scans on, *)
(* dm_extended_scan stops at the first failing path.                       *)
BringUpMatchesReference ==
    Scanned => /\ order = RefBoot.order
               /\ ret = RefBoot.err
               /\ (pc = "panic") = (RefBoot.err # "OK")

(* When device_drivers_init returns, every bound device whose own probe  *)
(* succeeds is probed, also below a device whose probe failed            *)
(* (skip-and-continue), and no other is.                                   *)
ProbeAll ==
    [][pc = "drivers" /\ pc' = "running" =>
         \A d \in Devs : state'[d] # "none" => (state'[d] = "probed" <=> d \notin hw.probeFail)]_vars

(* Bring-up ends: dm_root_init and device_drivers_init return.            *)
BringUpEnds == <>(pc \in {"running", "down", "panic"})
====

-------------------------------- MODULE OfIrq --------------------------------
(***************************************************************************)
(* Interrupt-specifier resolution of drivers/core/of_irq.c.                *)
(*                                                                         *)
(* One call dev_read_irq_index(dev, index) is modelled as a small state    *)
(* machine: of_irq_parse_one, the set-up part of of_irq_parse_raw, one     *)
(* action per iteration of the interrupt-tree walk, and of_irq_translate   *)
(* with the registered GIC translator (drivers/irqchip/arm_gic.c) or the   *)
(* default one.  The firmware tree is an input, chosen in Init from the    *)
(* constant Trees; an interrupt-map property is kept as the flat cell      *)
(* array the code scans, the phandle cells holding the node they name.     *)
(***************************************************************************)
EXTENDS Integers, Sequences, FiniteSets, Bitwise, SequencesExt

CONSTANTS
    Nodes,            \* firmware-tree nodes (a node is its own phandle)
    None,             \* absent property, NULL node pointer
    Dev,              \* the device whose interrupt is resolved
    Trees,            \* the firmware trees to resolve against
    MaxIndex,         \* largest interrupt index asked for
    MAX_PHANDLE_ARGS, \* capacity of struct of_phandle_args.args
    CellValues,       \* values a specifier or key cell may hold
    CellMask,         \* the all-ones cell, cpu_to_be32(~0)
    Garbage,          \* content of an args[] slot never written
    GicIds            \* compatibles in the GIC translator's match table

ASSUME Dev \in Nodes /\ MAX_PHANDLE_ARGS \in Nat \ {0}

VARIABLES
    tree,      \* the firmware tree being read
    index,     \* the interrupt index asked for
    pc,        \* where the call is
    np,        \* out_irq->np
    args,      \* out_irq->args[0..MAX_PHANDLE_ARGS-1], 1-based here
    count,     \* out_irq->args_count
    ipar,      \* cursor of of_irq_parse_raw
    intsize,   \* #interrupt-cells of the cursor's domain
    addrsize,  \* address cells of the match key
    matchArr,  \* match_array: address cells followed by specifier cells
    rc,        \* return value of of_irq_parse_one
    irq        \* result of of_irq_translate: [hw, type] or an error

vars == <<tree, index, pc, np, args, count, ipar, intsize, addrsize,
          matchArr, rc, irq>>

Slots == 1..MAX_PHANDLE_ARGS

\* an error result, told apart from a result record by its field
Err(k) == [err |-> k]

IsErr(x) == "err" \in DOMAIN x

-----------------------------------------------------------------------------
(* Firmware-tree accessors.                                                *)

\* of_find_node_by_phandle: NULL when no node carries the phandle
NodeOfPhandle(v) == IF v \in Nodes THEN v ELSE None

\* the next node of_irq_find_parent looks at: interrupt-parent, else parent
Up(t, n) == IF t.iparent[n] # None THEN NodeOfPhandle(t.iparent[n])
                                   ELSE t.parent[n]

\* of_irq_find_parent: ascend from child until a node with #interrupt-cells;
\* "Loop" when the ascent revisits a node, where the code never returns
RECURSIVE FindParentFrom(_, _, _)
FindParentFrom(t, child, fuel) ==
    LET p == Up(t, child)
    IN  CASE fuel = 0             -> "Loop"
          [] p = None             -> None
          [] t.icells[p] # None   -> p
          [] OTHER                -> FindParentFrom(t, p, fuel - 1)

FindParent(t, n) == FindParentFrom(t, n, Cardinality(Nodes))

\* #address-cells of the node or its nearest ancestor that has one, else 2
RECURSIVE AddrCellsUp(_, _)
AddrCellsUp(t, n) ==
    IF n = None THEN None
    ELSE IF t.acells[n] # None THEN t.acells[n] ELSE AddrCellsUp(t, t.parent[n])

DomainAddrSize(t, n) ==
    IF AddrCellsUp(t, n) = None THEN 2 ELSE AddrCellsUp(t, n)

\* the cells of an interrupt-map property: key, parent phandle, parent unit
\* address and parent specifier of each entry, one after the other
ImapCells(t, n) ==
    FlattenSeq([i \in DOMAIN t.imap[n] |->
                   t.imap[n][i].key \o <<t.imap[n][i].ph>> \o t.imap[n][i].pspec])

\* of_parse_phandle_with_args(dev, "interrupts-extended", "#interrupt-cells",
\* 0, idx), whose code is not in this repository: entry idx of a list of
\* phandles each followed by as many cells as its target's #interrupt-cells;
\* the count handed back is truncated to the capacity of args[]
RECURSIVE IextFrom(_, _, _)
IextFrom(t, e, idx) ==
    IF Len(e) = 0 THEN None
    ELSE LET n == NodeOfPhandle(e[1]) IN
         IF n = None \/ t.icells[n] = None \/ Len(e) < 1 + t.icells[n] THEN None
         ELSE IF idx > 0
         THEN IextFrom(t, SubSeq(e, 2 + t.icells[n], Len(e)), idx - 1)
         ELSE [np |-> n,
               n  |-> IF t.icells[n] > MAX_PHANDLE_ARGS THEN MAX_PHANDLE_ARGS
                                                        ELSE t.icells[n],
               cells |-> SubSeq(e, 2, 1 + t.icells[n])]

IextEntry(t, idx) == IF t.iext[Dev] = None THEN None
                     ELSE IextFrom(t, t.iext[Dev], idx)

-----------------------------------------------------------------------------
(* The interrupt-map scan of of_irq_parse_raw, lines 207-262: the loop     *)
(* consumes kw key cells, a phandle and the parent's address and           *)
(* specifier cells per entry until one matches or too few cells remain.    *)

\* mutant: the availability of the entry's parent is not checked
RECURSIVE ScanMapAnyAvail(_, _, _, _, _)
ScanMapAnyAvail(t, m, kw, mask, key) ==
    IF Len(m) <= kw + 1 THEN [rc |-> "EINVAL"]
    ELSE
      LET hit == \A i \in 1..kw : ((key[i] ^^ m[i]) & mask[i]) = 0
          par == NodeOfPhandle(m[kw + 1])
      IN
      IF par = None \/ t.icells[par] = None THEN [rc |-> "EINVAL"]
      ELSE
        LET ni   == t.icells[par]
            na   == IF t.acells[par] = None THEN 0 ELSE t.acells[par]
            rest == Len(m) - (kw + 1)
        IN
        IF na + ni > MAX_PHANDLE_ARGS \/ rest < na + ni THEN [rc |-> "EFAULT"]
        ELSE IF hit
        THEN [rc |-> "ok", par |-> par, na |-> na, ni |-> ni,
              pcells |-> SubSeq(m, kw + 2, kw + 1 + na + ni)]
        ELSE ScanMapAnyAvail(t, SubSeq(m, kw + 2 + na + ni, Len(m)), kw, mask, key)

\* mutant: the new specifier is taken one cell early, from the phandle on
RECURSIVE ScanMapFromPhandle(_, _, _, _, _)
ScanMapFromPhandle(t, m, kw, mask, key) ==
    IF Len(m) <= kw + 1 THEN [rc |-> "EINVAL"]
    ELSE
      LET hit == \A i \in 1..kw : ((key[i] ^^ m[i]) & mask[i]) = 0
          par == NodeOfPhandle(m[kw + 1])
      IN
      IF par = None \/ t.icells[par] = None THEN [rc |-> "EINVAL"]
      ELSE
        LET ni   == t.icells[par]
            na   == IF t.acells[par] = None THEN 0 ELSE t.acells[par]
            rest == Len(m) - (kw + 1)
        IN
        IF na + ni > MAX_PHANDLE_ARGS \/ rest < na + ni THEN [rc |-> "EFAULT"]
        ELSE IF hit /\ t.avail[par]
        THEN [rc |-> "ok", par |-> par, na |-> na, ni |-> ni,
              pcells |-> SubSeq(m, kw + 1, kw + na + ni)]
        ELSE ScanMapFromPhandle(t, SubSeq(m, kw + 2 + na + ni, Len(m)), kw, mask, key)

RECURSIVE ScanMap(_, _, _, _, _)
ScanMap(t, m, kw, mask, key) ==
    IF Len(m) <= kw + 1 THEN [rc |-> "EINVAL"]
    ELSE
      LET hit == \A i \in 1..kw : ((key[i] ^^ m[i]) & mask[i]) = 0
          par == NodeOfPhandle(m[kw + 1])
      IN
      IF par = None \/ t.icells[par] = None THEN [rc |-> "EINVAL"]
      ELSE
        LET ni   == t.icells[par]
            na   == IF t.acells[par] = None THEN 0 ELSE t.acells[par]
            rest == Len(m) - (kw + 1)
        IN
        IF na + ni > MAX_PHANDLE_ARGS \/ rest < na + ni THEN [rc |-> "EFAULT"]
        ELSE IF hit /\ t.avail[par]
        THEN [rc |-> "ok", par |-> par, na |-> na, ni |-> ni,
              pcells |-> SubSeq(m, kw + 2, kw + 1 + na + ni)]
        ELSE ScanMap(t, SubSeq(m, kw + 2 + na + ni, Len(m)), kw, mask, key)

MaskOf(t, n) ==
    IF t.imask[n] = None THEN [i \in 1..(MAX_PHANDLE_ARGS + 1) |-> CellMask]
                         ELSE t.imask[n]

-----------------------------------------------------------------------------
(* Translation: of_gic_irq_translate and of_default_irq_translate.  A read *)
(* of an args[] slot never written yields whatever the stack held.         *)

Cell(a, i, g) == IF a[i] = Garbage THEN g ELSE a[i]

IRQ_TYPE_EDGE_RISING == 1

\* mutant: the trigger type is read from the cell after the flags cell
GicTranslateTypeSlot(a, n, g) ==
    CASE n = 1 /\ Cell(a, 1, g) < 16 -> [hw |-> Cell(a, 1, g),
                                         type |-> IRQ_TYPE_EDGE_RISING]
      [] n < 3                       -> Err("EINVAL")
      [] Cell(a, 1, g) = 0           -> [hw |-> Cell(a, 2, g) + 32,
                                         type |-> Cell(a, 4, g) % 16]
      [] Cell(a, 1, g) = 1           -> [hw |-> Cell(a, 2, g) + 16,
                                         type |-> Cell(a, 4, g) % 16]
      [] OTHER                       -> Err("EINVAL")

GicTranslate(a, n, g) ==
    CASE n = 1 /\ Cell(a, 1, g) < 16 -> [hw |-> Cell(a, 1, g),
                                         type |-> IRQ_TYPE_EDGE_RISING]
      [] n < 3                       -> Err("EINVAL")
      [] Cell(a, 1, g) = 0           -> [hw |-> Cell(a, 2, g) + 32,
                                         type |-> Cell(a, 3, g) % 16]
      [] Cell(a, 1, g) = 1           -> [hw |-> Cell(a, 2, g) + 16,
                                         type |-> Cell(a, 3, g) % 16]
      [] OTHER                       -> Err("EINVAL")

DefaultTranslate(a, n, g) ==
    CASE n = 1 -> [hw |-> Cell(a, 1, g), type |-> 0]
      [] n = 2 -> [hw |-> Cell(a, 1, g), type |-> Cell(a, 3, g)]
      [] OTHER -> Err("EINVAL")

-----------------------------------------------------------------------------

Init ==
    /\ tree \in Trees
    /\ index \in 0..MaxIndex
    /\ pc = "parse_one"
    /\ np = None
    /\ args = [i \in Slots |-> Garbage]
    /\ count = 0
    /\ ipar = None
    /\ intsize = 0
    /\ addrsize = 0
    /\ matchArr = <<>>
    /\ rc = None
    /\ irq = None

Fail(code) == /\ rc' = code
              /\ pc' = "done"

\* of_irq_parse_one, interrupts-extended path: the entry is taken as is
ParseOneExtended ==
    /\ pc = "parse_one"
    /\ IextEntry(tree, index) # None
    /\ LET e == IextEntry(tree, index) IN
         /\ np' = e.np
         /\ count' = e.n
         /\ args' = [i \in Slots |-> IF i <= e.n THEN e.cells[i] ELSE args[i]]
    /\ pc' = "raw_domain"
    /\ UNCHANGED <<tree, index, ipar, intsize, addrsize, matchArr, rc, irq>>

\* of_irq_parse_one, "interrupts" path: the interrupt parent sizes the
\* specifier and intsize cells are copied into out_irq->args; the copy has
\* no bound, a parent with more cells than args[] holds writes past it
ParseOneLegacy ==
    /\ pc = "parse_one"
    /\ IextEntry(tree, index) = None
    /\ LET p == FindParent(tree, Dev) IN
       CASE p = "Loop" -> /\ pc' = "hang"
                          /\ UNCHANGED <<np, args, count, rc>>
         [] p = None   -> /\ Fail("EINVAL")
                          /\ UNCHANGED <<np, args, count>>
         [] OTHER ->
            LET isz == tree.icells[p]
                ints == tree.ints[Dev]
                lo == index * isz
                have == IF ints = None THEN 0 ELSE Len(ints) - lo
            IN
            CASE isz > MAX_PHANDLE_ARGS /\ have > MAX_PHANDLE_ARGS ->
                   /\ pc' = "overflow"
                   /\ UNCHANGED <<np, args, count, rc>>
              [] have < isz ->
                   /\ Fail("EINVAL")
                   /\ UNCHANGED <<np, args, count>>
              [] OTHER ->
                   /\ np' = p
                   /\ count' = isz
                   /\ args' = [i \in Slots |-> IF i <= isz THEN ints[lo + i]
                                                           ELSE args[i]]
                   /\ pc' = "raw_domain"
                   /\ UNCHANGED rc
    /\ UNCHANGED <<tree, index, ipar, intsize, addrsize, matchArr, irq>>

\* of_irq_parse_raw up to the walk: find the domain, check the specifier
\* width, size the address part and build the match array
RawSetup ==
    /\ pc = "raw_domain"
    /\ LET d == IF tree.icells[np] # None THEN np ELSE FindParent(tree, np)
           addr == tree.reg[Dev]
       IN
       CASE d = "Loop" -> /\ pc' = "hang"
                          /\ UNCHANGED <<rc, ipar, intsize, addrsize, matchArr>>
         [] d = None \/ count # tree.icells[d] ->
                          /\ Fail("EINVAL")
                          /\ UNCHANGED <<ipar, intsize, addrsize, matchArr>>
         [] DomainAddrSize(tree, d) + tree.icells[d] > MAX_PHANDLE_ARGS ->
                          /\ Fail("EFAULT")
                          /\ UNCHANGED <<ipar, intsize, addrsize, matchArr>>
         [] OTHER ->
            LET asz == DomainAddrSize(tree, d) IN
            /\ ipar' = d
            /\ intsize' = tree.icells[d]
            /\ addrsize' = asz
            \* reg is read for asz cells whatever its length
            /\ \E g \in CellValues :
                 matchArr' = [i \in 1..asz |-> CASE addr = None   -> 0
                                                [] i <= Len(addr) -> addr[i]
                                                [] OTHER          -> g]
                             \o [i \in 1..tree.icells[d] |-> args[i]]
            /\ pc' = "raw_walk"
            /\ UNCHANGED rc
    /\ UNCHANGED <<tree, index, np, args, count, irq>>

\* walk: the cursor is an interrupt controller, resolution succeeded
WalkAtController ==
    /\ pc = "raw_walk"
    /\ tree.ctrl[ipar]
    /\ rc' = "ok"
    /\ pc' = "translate"
    /\ UNCHANGED <<tree, index, np, args, count, ipar, intsize, addrsize,
                   matchArr, irq>>

\* walk: address cells are needed and the device has no reg property
WalkNoReg ==
    /\ pc = "raw_walk"
    /\ ~tree.ctrl[ipar]
    /\ addrsize # 0 /\ tree.reg[Dev] = None
    /\ Fail("EINVAL")
    /\ UNCHANGED <<tree, index, np, args, count, ipar, intsize, addrsize,
                   matchArr, irq>>

\* walk: no interrupt-map, go on at the interrupt parent unchanged
WalkPassThrough ==
    /\ pc = "raw_walk"
    /\ ~tree.ctrl[ipar]
    /\ ~(addrsize # 0 /\ tree.reg[Dev] = None)
    /\ tree.imap[ipar] = None
    /\ LET newpar == FindParent(tree, ipar) IN
       CASE newpar = "Loop" -> /\ pc' = "hang"
                               /\ UNCHANGED <<np, ipar, rc>>
         [] newpar = None   -> /\ np' = None
                               /\ ipar' = None
                               /\ Fail("ENOENT")
         [] OTHER           -> /\ np' = newpar
                               /\ ipar' = newpar
                               /\ UNCHANGED <<pc, rc>>
    /\ UNCHANGED <<tree, index, args, count, intsize, addrsize, matchArr, irq>>

\* walk: translate through the interrupt-map and go on at the entry's parent
WalkMapHop ==
    /\ pc = "raw_walk"
    /\ ~tree.ctrl[ipar]
    /\ ~(addrsize # 0 /\ tree.reg[Dev] = None)
    /\ tree.imap[ipar] # None
    /\ LET s == ScanMap(tree, ImapCells(tree, ipar), addrsize + intsize,
                        MaskOf(tree, ipar), matchArr)
       IN
       IF s.rc # "ok"
       THEN /\ Fail(s.rc)
            /\ UNCHANGED <<np, args, count, ipar, intsize, addrsize, matchArr>>
       ELSE /\ matchArr' = s.pcells
            /\ args' = [i \in Slots |-> IF i <= s.ni THEN s.pcells[s.na + i]
                                                     ELSE args[i]]
            /\ count' = s.ni
            /\ intsize' = s.ni
            /\ addrsize' = s.na
            /\ np' = s.par
            /\ ipar' = s.par
            /\ UNCHANGED <<pc, rc>>
    /\ UNCHANGED <<tree, index, irq>>

\* of_irq_translate: the first registered translator whose match table
\* names the controller's compatible, else the default one
Translate ==
    /\ pc = "translate"
    /\ \E g \in CellValues :
         irq' = IF np = None THEN Err("EINVAL")
                ELSE IF tree.compat[np] \in GicIds THEN GicTranslate(args, count, g)
                ELSE DefaultTranslate(args, count, g)
    /\ pc' = "done"
    /\ UNCHANGED <<tree, index, np, args, count, ipar, intsize, addrsize,
                   matchArr, rc>>

Next ==
    \/ ParseOneExtended
    \/ ParseOneLegacy
    \/ RawSetup
    \/ WalkAtController
    \/ WalkNoReg
    \/ WalkPassThrough
    \/ WalkMapHop
    \/ Translate

\* a single sequential call: it is never starved
Spec == Init /\ [][Next]_vars /\ WF_vars(Next)

-----------------------------------------------------------------------------
(* Reference resolver, written from the algorithm of the resolver's       *)
(* description (resolve_one, steps 1 and 2) over the structured tree: the *)
(* map is a sequence of entries, not a cell array, and the ascent is the  *)
(* first node of the interrupt-parent chain that declares cells.           *)
(* Outcomes: an ok record, "Malformed", "fail" or "Loop" (no answer).      *)

Fuel == 2 * Cardinality(Nodes)

RECURSIVE Ascent(_, _, _)
Ascent(t, n, k) ==
    IF k = 0 THEN n
    ELSE IF Ascent(t, n, k - 1) = None THEN None ELSE Up(t, Ascent(t, n, k - 1))

\* step 2a: the interrupt domain strictly above n
RefDomainAbove(t, n) ==
    LET ks   == 1..Cardinality(Nodes)
        hits == {k \in ks : Ascent(t, n, k) # None
                            /\ t.icells[Ascent(t, n, k)] # None}
    IN  IF hits # {} THEN Ascent(t, n, Min(hits))
        ELSE IF \E k \in ks : Ascent(t, n, k) = None THEN None ELSE "Loop"

RefDomain(t, n) == IF t.icells[n] # None THEN n ELSE RefDomainAbove(t, n)

ParentWidth(t, par) ==
    (IF t.acells[par] = None THEN 0 ELSE t.acells[par]) + t.icells[par]

\* step 2d: the first entry whose key equals the masked match key
RECURSIVE RefLookup(_, _, _, _)
RefLookup(t, es, mask, key) ==
    IF es = <<>> THEN Err("fail")
    ELSE LET e   == Head(es)
             par == NodeOfPhandle(e.ph)
         IN  CASE par = None \/ t.icells[par] = None           -> Err("fail")
               [] ParentWidth(t, par) > MAX_PHANDLE_ARGS       -> Err("Malformed")
               [] Len(e.pspec) < ParentWidth(t, par)           -> Err("Malformed")
               [] t.avail[par] /\ \A i \in DOMAIN key :
                    (key[i] & mask[i]) = (e.key[i] & mask[i])  -> e
               [] OTHER -> RefLookup(t, Tail(es), mask, key)

\* steps 2b-2d from domain n with address context a (None: the device has
\* no reg) and specifier s
RECURSIVE RefWalk(_, _, _, _, _)
RefWalk(t, n, a, s, fuel) ==
    CASE fuel = 0     -> Err("Loop")
      [] t.ctrl[n]    -> [np |-> n, spec |-> s]
      [] t.imap[n] = None ->
           LET d == RefDomainAbove(t, n) IN
           CASE d = "Loop" -> Err("Loop")
             [] d = None   -> Err("fail")
             [] OTHER      -> RefWalk(t, d, a, s, fuel - 1)
      [] a = None     -> Err("fail")
      [] OTHER ->
           LET e == RefLookup(t, t.imap[n], MaskOf(t, n), a \o s) IN
           IF IsErr(e) THEN e
           ELSE LET par == NodeOfPhandle(e.ph)
                    na  == ParentWidth(t, par) - t.icells[par]
                IN  RefWalk(t, par, SubSeq(e.pspec, 1, na),
                            SubSeq(e.pspec, na + 1, Len(e.pspec)), fuel - 1)

\* step 1 and the start of step 2: the specifier, its domain and context
RefResolve(t, idx) ==
    LET x == IextEntry(t, idx)
        p == RefDomainAbove(t, Dev)
        ints == t.ints[Dev]
        first ==
          IF x # None THEN [np |-> x.np, spec |-> SubSeq(x.cells, 1, x.n)]
          ELSE CASE p = "Loop" -> Err("Loop")
                 [] p = None   -> Err("fail")
                 [] t.icells[p] > MAX_PHANDLE_ARGS -> Err("Malformed")
                 [] ints = None \/ Len(ints) < (idx + 1) * t.icells[p] -> Err("fail")
                 [] OTHER -> [np |-> p, spec |-> SubSeq(ints, idx * t.icells[p] + 1,
                                                        (idx + 1) * t.icells[p])]
    IN
    CASE IsErr(first) -> first
      [] OTHER ->
         LET d == RefDomain(t, first.np) IN
         CASE d = "Loop" -> Err("Loop")
           [] d = None   -> Err("fail")
           [] Len(first.spec) # t.icells[d] -> Err("fail")
           [] DomainAddrSize(t, d) + t.icells[d] > MAX_PHANDLE_ARGS -> Err("Malformed")
           [] OTHER ->
              LET w == DomainAddrSize(t, d) IN
              RefWalk(t, d, IF t.reg[Dev] = None
                            THEN (IF w = 0 THEN <<>> ELSE None)
                            ELSE SubSeq(t.reg[Dev], 1, w),
                      first.spec, Fuel)

\* what the modelled call has produced, in the reference's terms
Outcome ==
    CASE pc = "translate" -> [np |-> np, spec |-> [i \in 1..count |-> args[i]]]
      [] pc = "hang"      -> Err("Loop")
      [] pc = "overflow"  -> Err("Overflow")
      [] rc = "EFAULT"    -> Err("Malformed")
      [] OTHER            -> Err("fail")

Returned == pc \in {"translate", "hang", "overflow"} \/ (pc = "done" /\ rc # "ok")

-----------------------------------------------------------------------------
(* Properties.                                                             *)

TypeOK ==
    /\ pc \in {"parse_one", "raw_domain", "raw_walk", "translate", "done",
               "hang", "overflow"}
    /\ args \in [Slots -> CellValues \cup {Garbage}]
    /\ matchArr \in Seq(CellValues)
    /\ count \in 0..MAX_PHANDLE_ARGS
    /\ np \in Nodes \cup {None}
    /\ ipar \in Nodes \cup {None}
    /\ rc \in {None, "ok", "EINVAL", "EFAULT", "ENOENT"}

(* A call that returns has produced what the reference resolver produces  *)
(* for the same tree and index: the same controller and specifier, or an  *)
(* error of the same class.  This is about the flat-cell interrupt-map    *)
(* scan, the domain and address-width rules and the walk of              *)
(* of_irq_parse_raw, and the two parse paths of of_irq_parse_one.         *)
MatchesReference == Returned => Outcome = RefResolve(tree, index)

(* A translator reports a result that depends only on the specifier the  *)
(* walk produced: of_gic_irq_translate reads no args[] slot beyond        *)
(* args_count, so the same specifier always yields the same (hwirq, type) *)
SpecifierOnly == [i \in Slots |-> IF i <= count THEN args[i] ELSE Garbage]

GicDeterministic ==
    (pc = "done" /\ rc = "ok" /\ tree.compat[np] \in GicIds)
        => \A g \in CellValues : GicTranslate(SpecifierOnly, count, g) = irq

=============================================================================

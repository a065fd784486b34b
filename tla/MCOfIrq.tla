------------------------------- MODULE MCOfIrq -------------------------------
(***************************************************************************)
(* Firmware trees for checking OfIrq.  Five nodes: the root r, a bus b     *)
(* that may be an interrupt nexus (#interrupt-cells, interrupt-map), a GIC *)
(* g, a second controller p under the bus that no registered translator   *)
(* claims, and the device d under the bus.  A tree is built from a record *)
(* of choices, one field per property that varies.                         *)
(***************************************************************************)
EXTENDS OfIrq

CONSTANTS r, b, g, p, d, Dangling

\* the cells of an entry's parent specifier: the first width cells of v
PSpec(icells, acells, ph, v) ==
    IF ph \in {g, p}
    THEN [i \in 1..((IF acells[ph] = None THEN 0 ELSE acells[ph]) + icells[ph]) |-> v[i]]
    ELSE <<1>>

MkTree(c) ==
    LET icells == (r :> None) @@ (b :> c.bI) @@ (g :> 3) @@ (p :> c.pI) @@ (d :> None)
        acells == (r :> 1) @@ (b :> c.bA) @@ (g :> c.gA) @@ (p :> None) @@ (d :> None)
        \* b's key is its address cell (when #address-cells is 1) and one cell
        Key(k) == IF c.bA = 0 THEN <<k[2]>> ELSE k
        Entry(k, ph, v) == [key |-> Key(k), ph |-> ph,
                            pspec |-> PSpec(icells, acells, ph, v)]
        maps == [none |-> None,
                 m1 |-> << Entry(<<0, 1>>, g, <<0, 1, 1, 0, 0>>),
                           Entry(<<1, 0>>, p, <<1, 0, 1, 1, 0>>) >>,
                 m2 |-> << Entry(<<0, 0>>, p, <<0, 1, 0, 0, 0>>),
                           Entry(<<1, 1>>, g, <<1, 1, 0, 0, 0>>),
                           Entry(<<0, 1>>, Dangling, <<1>>) >>,
                 \* the last entry is cut short after one parent cell
                 m3 |-> << Entry(<<1, 1>>, p, <<1, 0, 0, 1, 0>>),
                           [key |-> Key(<<0, 1>>), ph |-> g, pspec |-> <<1>>] >>]
        masks == [none |-> None, low |-> Key(<<0, 1>>)]
    IN
    [parent  |-> (r :> None) @@ (b :> r) @@ (g :> r) @@ (p :> b) @@ (d :> b),
     iparent |-> (r :> None) @@ (b :> c.bP) @@ (g :> None) @@ (p :> None) @@ (d :> c.dP),
     icells  |-> icells,
     acells  |-> acells,
     ctrl    |-> [n \in Nodes |-> n \in {g, p}],
     avail   |-> [n \in Nodes |-> n # p \/ c.pAv],
     compat  |-> [n \in Nodes |-> IF n = g THEN "arm,cortex-a9-gic" ELSE "other"],
     imap    |-> [n \in Nodes |-> IF n = b THEN maps[c.bM] ELSE None],
     imask   |-> [n \in Nodes |-> IF n = b THEN masks[c.bK] ELSE None],
     reg     |-> [n \in Nodes |-> IF n = d THEN c.dR ELSE None],
     ints    |-> [n \in Nodes |-> IF n = d THEN c.dI ELSE None],
     iext    |-> [n \in Nodes |-> IF n = d /\ c.dE THEN <<g, 0, 1, 1, p, 1, 0>>
                                                   ELSE None]]

TreesOf(C) == {MkTree(c) : c \in C}

\* a device without reg under a bus that passes interrupts on without a
\* map at a non-zero address width: of_irq_parse_raw fails at line 187
\* where the description passes the specifier on (MCNoRegTrees)
NoRegPassThrough(c) == c.dR = None /\ c.bI = 1 /\ c.bM = "none" /\ c.bA = 1

\* the choices: p with 1 cell or 4 (with the bus's address cell its
\* domain is then 5 wide), g with no address cells of its own, 0 or 2
\* (2 makes every specifier for g 5 wide), and the cut map m3
TreeChoices ==
    [bI : {None, 1}, bA : {0, 1}, bP : {None, g, d},
     bM : {"none", "m1", "m2", "m3"}, pI : {1, 4}, pAv : BOOLEAN,
     dP : {None, g, p}, dR : {None, <<0>>, <<1>>},
     dI : {<<1, 0>>, <<0, 1, 1>>}, bK : {"none", "low"},
     gA : {None, 0, 2}, dE : BOOLEAN]

MCRefTrees == TreesOf({c \in TreeChoices : ~NoRegPassThrough(c)})

MCNoRegTrees == TreesOf({c \in TreeChoices : NoRegPassThrough(c) /\ c.pI = 1 /\ c.gA # 2})

MCGicIds == {"arm,cortex-a9-gic", "ti,omap4-wugen-mpu"}

MCNodes == {r, b, g, p, d}
=============================================================================

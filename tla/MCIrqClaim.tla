------------------------------ MODULE MCIrqClaim ------------------------------
(***************************************************************************)
(* Two devices claiming one or two vectors with two contexts, and room for *)
(* two or three irq_devres records, so that a claim can fail for lack of   *)
(* memory and a freed record is reused while its request may be pending.   *)
(***************************************************************************)
EXTENDS IrqClaim

CONSTANTS d1, d2, a1, a2, i1, i2, i3

MCDevs == {d1, d2}
MCArgs == {a1, a2}
MCArgs1 == {a1}
MCDevs1 == {d1}
MCDrIds2 == {i1, i2}
MCDrIds3 == {i1, i2, i3}

\* record slots, devices and contexts are interchangeable
MCSymmetry == {p @@ q @@ r : p \in Permutations(MCDrIds2), q \in Permutations(MCDevs),
                            r \in Permutations(MCArgs)}
=============================================================================

------------------------------- MODULE MCDmRoot -------------------------------
(***************************************************************************)
(* A firmware tree of seven nodes: the root r with subnodes a, b         *)
(* (disabled), ch ("/chosen") and f; a has the subnode c and ch the       *)
(* subnode e.  /clocks                                                     *)
(* and /firmware are absent.  a and ch may be bound to a bus driver, which *)
(* scans their subnodes at bind; up to two binds fail, and any set of     *)
(* a, c and the platform device may fail to probe.                         *)
(***************************************************************************)
EXTENDS DmRoot

CONSTANTS r, a, b, c, ch, e, f, pl

MCNodes == {r, a, b, c, ch, e, f}

MCSub == (r :> <<a, b, ch, f>>) @@ (a :> <<c>>) @@ (ch :> <<e>>)
         @@ (b :> <<>>) @@ (c :> <<>>) @@ (e :> <<>>) @@ (f :> <<>>)

MCEnabled == MCNodes \ {b}

MCAuxPaths == <<ch, None, None>>

\* no failing bind, one, or two with different errors: two siblings, or
\* one inside a bus's scan and a later sibling of the bus
MCBindFail ==
    {<<>>, r :> "ENOMEM", a :> "ENOMEM", c :> "ENOMEM", e :> "ENOMEM",
     (a :> "ENOMEM") @@ (f :> "EIO"), (c :> "EIO") @@ (f :> "ENOMEM")}

\* the configurations: driver kinds, at most one failing bind, failing probes
MCHwOf(chDrv) ==
    {[drv |-> (r :> "none") @@ (a :> ka) @@ (b :> "leaf") @@ (c :> kc)
               @@ (ch :> kch) @@ (e :> "leaf") @@ (f :> "leaf"),
      bindFail |-> bf, probeFail |-> pf, plat |-> pr, vital |-> vt] :
        ka \in {"bus", "leaf"}, kc \in {"leaf", "none"}, kch \in chDrv,
        bf \in MCBindFail, pf \in SUBSET {r, a, c, pl},
        pr \in {"OK", "ENOENT", "ENOMEM"}, vt \in {{}, {a}}}

MCHw == MCHwOf({"none"})

====

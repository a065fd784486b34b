----------------------------- MODULE IrqClaimSpec -----------------------------
(***************************************************************************)
(* What the resource-managed interrupt claim layer promises (claim_irq,   *)
(* release_irq and device removal): each device owns a list of claims; a  *)
(* claim is admitted under the line's shared/exclusive rule, release_irq  *)
(* drops one claim matching (irq, context) or does nothing, and removal   *)
(* drops every claim the device owns.                                      *)
(***************************************************************************)
EXTENDS Sequences, SequencesExt

CONSTANTS Devs, Irqs, Args

VARIABLES
    claims,   \* claims[d]: the claims device d owns, oldest first
    gone,     \* the devices that have been removed
    released  \* the last release_irq call, <<device, irq, context>>

Kinds == {"hard", "thread", "both"}

Claims == [irq : Irqs, arg : Args, kind : Kinds, shared : BOOLEAN]

\* every claim of every device, with its owner
AllClaims == UNION {{<<d, c>> : c \in ToSet(claims[d])} : d \in Devs}

\* a line takes a new claim when every claim on it and the new one are
\* shared, and no hard handler of the same device is there with the same
\* context already (the handler table refuses an identical pair)
Admits(d, c) ==
    \A <<o, x>> \in AllClaims :
        x.irq = c.irq =>
            /\ x.shared /\ c.shared
            /\ ~(x.kind = "hard" /\ c.kind = "hard" /\ o = d /\ x.arg = c.arg)

Init ==
    /\ claims = [d \in Devs |-> <<>>]
    /\ gone = {}
    /\ released = <<>>

Claim(d, c) ==
    /\ d \notin gone
    /\ Admits(d, c)
    /\ claims' = [claims EXCEPT ![d] = Append(@, c)]
    /\ UNCHANGED <<gone, released>>

\* release_irq: one claim that matches (irq, context) goes; none matching
\* is a no-op, which makes a repeated release harmless
Release(d, i, a) ==
    /\ d \notin gone
    /\ \/ \E k \in DOMAIN claims[d] :
            /\ claims[d][k].irq = i /\ claims[d][k].arg = a
            /\ claims' = [claims EXCEPT ![d] = RemoveAt(@, k)]
       \/ /\ \A k \in DOMAIN claims[d] : ~(claims[d][k].irq = i /\ claims[d][k].arg = a)
          /\ UNCHANGED claims
    /\ released' = <<d, i, a>>
    /\ UNCHANGED gone

RemoveDevice(d) ==
    /\ d \notin gone
    /\ gone' = gone \cup {d}
    /\ claims' = [claims EXCEPT ![d] = <<>>]
    /\ UNCHANGED released

Next ==
    \/ \E d \in Devs, c \in Claims : Claim(d, c)
    \/ \E d \in Devs, i \in Irqs, a \in Args : Release(d, i, a)
    \/ \E d \in Devs : RemoveDevice(d)

Spec == Init /\ [][Next]_<<claims, gone, released>>

=============================================================================

------------------------------ MODULE MCGuixQueue -----------------------------
(* Instances of GuixQueue for TLC: two event records, a window w1 with a  *)
(* child button w2.                                                        *)
EXTENDS GuixQueue

CONSTANTS w1, w2

MCWidgets == {w1, w2}
MCParent == (w1 :> None) @@ (w2 :> w1)
=============================================================================

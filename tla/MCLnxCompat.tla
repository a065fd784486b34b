----------------------------- MODULE MCLnxCompat -----------------------------
(* Instances of LnxCompat for TLC: timer delays and wait timeouts of one  *)
(* and two ticks, so that the callback can fire before, in and after the  *)
(* tick in which the wait times out; two rounds, so that what one round   *)
(* leaves behind meets the next.                                           *)
EXTENDS LnxCompat

MCDelays == {1, 2, 3}
MCTimeouts == {1, 2}
\* with a zero timeout, which Linux allows
MCTimeouts0 == {0, 1, 2}
=============================================================================

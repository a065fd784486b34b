----------------------------- MODULE MCCanDriver -----------------------------
(* An instance of CanDriver for TLC: two receive and two transmit objects,  *)
(* as many filters as receive objects, a transmit queue of one frame, so   *)
(* that a second send meets a full queue, and room for two descriptors, so *)
(* that a disable and a second init can follow the first.                 *)
EXTENDS CanDriver
=============================================================================

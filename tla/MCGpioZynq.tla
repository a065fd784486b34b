----------------------------- MODULE MCGpioZynq -----------------------------
(* A zynq device (118 pins) used on bank 0 pin 7, which cannot be an input, *)
(* on device pin 50 (bank 1, index 18, in the DATA_MSW half), and with the  *)
(* out-of-range pin 118.                                                     *)
EXTENDS GpioZynq

MCPlats == {"zynq", "zynqmp", "versal", "pmc"}
MCPins == {7, 40, 50, 118}
MCIrqTypes == {"rising", "both", "low", "none"}
====

------------------------------ MODULE MCSerialTx ------------------------------
(* Instances of SerialTx for TLC: a FIFO of two bytes, so that a chunk of  *)
(* three needs a refill from the interrupt handler, and one or two chunks. *)
EXTENDS SerialTx

MCTwoChunks == <<3, 1>>
MCShortChunks == <<1, 1>>
MCTwoBytes == <<2>>

(* set_attributes requests: 7E2 at 9600; 8N1 at 150, whose CD does not fit *)
(* zynq's 16-bit field at 50 MHz; CS5 with odd parity, which zynq rejects. *)
MCRequests ==
    {[baud |-> 9600, parenb |-> TRUE, parodd |-> FALSE, csize |-> 7, cstopb |-> TRUE],
     [baud |-> 150, parenb |-> FALSE, parodd |-> FALSE, csize |-> 8, cstopb |-> FALSE],
     [baud |-> 115200, parenb |-> TRUE, parodd |-> TRUE, csize |-> 5, cstopb |-> FALSE]}
=============================================================================

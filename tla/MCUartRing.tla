------------------------------ MODULE MCUartRing ------------------------------
(* UartRing for TLC: a ring of four bytes, and input for it to go round.   *)
EXTENDS UartRing
===============================================================================

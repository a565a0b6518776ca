------------------------------- MODULE MCXmodem -------------------------------
(* Xmodem for TLC: as few packet numbers as two frames under way allow,    *)
(* and a file of more than twice as many packets.                          *)
EXTENDS Xmodem
===============================================================================

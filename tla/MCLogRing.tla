------------------------------- MODULE MCLogRing -------------------------------
(* LogRing for TLC: a ring of three places, which holds two messages.      *)
EXTENDS LogRing
===============================================================================

------------------------------- MODULE MCFat32 -------------------------------
(* Fat32 for TLC: two files, each open or not, on a volume with two free    *)
(* clusters, and room in the directory for one more entry.  Which name or   *)
(* open file is which makes no difference.                                  *)
EXTENDS Fat32, TLC

MCSymmetry == Permutations(Handles) \cup Permutations(Names)
===============================================================================

------------------------------- MODULE MCSched -------------------------------
(* The process table with four slots: the null process, init and room for  *)
(* two more, so that fork fills the table, children can be waited for and  *)
(* grandchildren exist.  Memory may run out.                               *)
EXTENDS Sched
==============================================================================

------------------------------ MODULE Descriptors ------------------------------
(***************************************************************************)
(* What file descriptors promise.  A descriptor names one open file, from  *)
(* the call that made it until its own process closes it, whatever other   *)
(* processes open, close, read or inherit in the meantime.  Open files are *)
(* numbered by the opens that made them.  A process starts with files of   *)
(* its own on the first descriptors and its parent's on the others; a fork *)
(* that fails may leave its descriptors to the next process in that slot.  *)
(***************************************************************************)
EXTENDS Integers

CONSTANTS Procs,     \* process slots
          Fds,       \* descriptors
          StdFds,    \* number of descriptors a process starts with
          NULL       \* a free descriptor

VARIABLES table,     \* table[p][fd]: the open file, or NULL
          born,      \* the processes there have been
          opens      \* the number of opens so far

vars == <<table, born, opens>>

NoFiles == [fd \in Fds |-> NULL]

Init == table = [p \in Procs |-> NoFiles] /\ born = {} /\ opens = 0

\* Files of its own on the first descriptors.
WithStd(t) == [fd \in Fds |-> IF fd < StdFds THEN opens + 1 + fd ELSE t[fd]]

\* The parent's files, over what the slot held.
Inherited(p, c) == [fd \in Fds |-> IF table[p][fd] # NULL THEN table[p][fd]
                                   ELSE table[c][fd]]

Spawn(c) ==
  /\ c \in Procs \ born
  /\ table' = [table EXCEPT ![c] = WithStd(@)]
  /\ born' = born \cup {c} /\ opens' = opens + StdFds

Fork(p, c) ==
  /\ p \in born /\ c \in Procs \ born
  /\ table' = [table EXCEPT ![c] = WithStd(Inherited(p, c))]
  /\ born' = born \cup {c} /\ opens' = opens + StdFds

ForkFails(p, c) ==
  /\ p \in born /\ c \in Procs \ born
  /\ table' = [table EXCEPT ![c] = Inherited(p, c)]
  /\ UNCHANGED <<born, opens>>

Open(p) ==
  /\ p \in born
  /\ \E fd \in Fds : /\ table[p][fd] = NULL
                     /\ table' = [table EXCEPT ![p][fd] = opens + 1]
  /\ opens' = opens + 1 /\ UNCHANGED born

\* The file was opened, but there was no descriptor for it.
OpenFails(p) ==
  /\ p \in born /\ \A fd \in Fds : table[p][fd] # NULL
  /\ opens' = opens + 1 /\ UNCHANGED <<table, born>>

Close(p, fd) ==
  /\ p \in born
  /\ table' = [table EXCEPT ![p][fd] = NULL]
  /\ UNCHANGED <<born, opens>>

Next ==
  \/ \E c \in Procs : Spawn(c)
  \/ \E p, c \in Procs : Fork(p, c) \/ ForkFails(p, c)
  \/ \E p \in Procs : Open(p) \/ OpenFails(p)
  \/ \E p \in Procs, fd \in Fds : Close(p, fd)

Spec == Init /\ [][Next]_vars
===============================================================================

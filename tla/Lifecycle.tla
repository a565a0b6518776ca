------------------------------- MODULE Lifecycle -------------------------------
(***************************************************************************)
(* What the scheduler and the system calls promise about the life of a     *)
(* process, with no process table slots to search, no flags, no queue and  *)
(* no interrupt masking.  A process is                                     *)
(*                                                                         *)
(*   absent -> ready <-> running -> asleep | waiting | dead                *)
(*                                                                         *)
(* at most one is running, sleep ends when its time is over, waiting ends  *)
(* when an awaited child exits, and death is final.                        *)
(***************************************************************************)
EXTENDS Naturals

CONSTANTS Procs, MaxNap, First, Nobody

VARIABLES life,     \* what each process is doing
          nap,      \* time it still has to sleep
          parent,   \* who forked it
          awaiter   \* who waits for its exit, or Nobody

vars == <<life, nap, parent, awaiter>>

\* First is the set of processes that are there when the system starts.
Init ==
  /\ life = [p \in Procs |-> IF p \in First THEN "ready" ELSE "absent"]
  /\ nap = [p \in Procs |-> 0]
  /\ parent = [p \in Procs |-> 0]
  /\ awaiter = [p \in Procs |-> Nobody]

Becomes(p, l) == life' = [life EXCEPT ![p] = l]

Dispatch(p) ==
  /\ life[p] = "ready" /\ \A q \in Procs : life[q] # "running"
  /\ Becomes(p, "running")
  /\ UNCHANGED <<nap, parent, awaiter>>

Deschedule(p) ==
  /\ life[p] = "running" /\ Becomes(p, "ready")
  /\ UNCHANGED <<nap, parent, awaiter>>

Sleep(p, n) ==
  /\ life[p] = "running" /\ Becomes(p, "asleep")
  /\ nap' = [nap EXCEPT ![p] = n]
  /\ UNCHANGED <<parent, awaiter>>

Wake(p) ==
  /\ life[p] = "asleep" /\ nap[p] = 0 /\ Becomes(p, "ready")
  /\ UNCHANGED <<nap, parent, awaiter>>

\* A process waits for a child of its own, and nobody else's place is taken.
Wait(p, c) ==
  /\ life[p] = "running" /\ parent[c] = p /\ life[c] # "absent"
  /\ awaiter[c] \in {p, Nobody}
  /\ Becomes(p, "waiting")
  /\ awaiter' = [awaiter EXCEPT ![c] = p]
  /\ UNCHANGED <<nap, parent>>

\* Only a process that is waiting is woken by an exit.
Exit(p) ==
  /\ life[p] = "running"
  /\ awaiter[p] # Nobody => life[awaiter[p]] = "waiting"
  /\ life' = [q \in Procs |-> IF q = p THEN "dead"
                              ELSE IF q = awaiter[p] THEN "ready" ELSE life[q]]
  /\ UNCHANGED <<nap, parent, awaiter>>

\* After a fault nobody is woken.
Crash(p) ==
  /\ life[p] = "running" /\ Becomes(p, "dead")
  /\ UNCHANGED <<nap, parent, awaiter>>

\* The parent keeps the processor, or loses it at the same moment.
Fork(p, c) ==
  /\ life[p] = "running" /\ life[c] = "absent"
  /\ \E l \in {"running", "ready"} :
       life' = [life EXCEPT ![c] = "ready", ![p] = l]
  /\ parent' = [parent EXCEPT ![c] = p]
  /\ UNCHANGED <<nap, awaiter>>

TimePasses ==
  /\ nap' = [p \in Procs |-> IF nap[p] > 0 THEN nap[p] - 1 ELSE 0]
  /\ UNCHANGED <<life, parent, awaiter>>

Next ==
  \/ TimePasses
  \/ \E p \in Procs :
       \/ Dispatch(p) \/ Deschedule(p) \/ Wake(p) \/ Exit(p) \/ Crash(p)
       \/ \E n \in 0 .. MaxNap : Sleep(p, n)
       \/ \E c \in Procs : Wait(p, c) \/ Fork(p, c)

Spec == Init /\ [][Next]_vars
===============================================================================

-------------------------------- MODULE LogRing --------------------------------
(***************************************************************************)
(* The log: ring_buffer_write and ring_buffer_read under a spinlock        *)
(* (kernel/src/log.c, spinlock.c), and printk under another.  Kernel code  *)
(* in a system call or at boot (context "svc") logs and prints; the timer  *)
(* tick, which interrupts it wherever IRQs are enabled (context "irq"),    *)
(* empties the ring to the console.  There is one CPU, so a lock that is   *)
(* found taken is never released: what the lock is worth lies in its       *)
(* masking of IRQs, and in putting the mask back as it was.                *)
(*                                                                         *)
(* A message is its number.  A definition named Mut... is a faulty variant *)
(* of the one after it.                                                    *)
(***************************************************************************)
EXTENDS Integers, Sequences

CONSTANTS Length,        \* LOG_MAX_BUFFER_LENGTH
          MaxMessages    \* bound: messages logged

ASSUME LogAssumption == Length \in Nat /\ Length >= 2 /\ MaxMessages \in Nat

VARIABLES
  buffer, head, tail,    \* the fields of log_buffer
  lock, cpsr,            \* by spinlock: taken; were IRQs enabled before?
  irq,                   \* IRQs enabled (CPSR.I clear)
  at, job,               \* by context: the place in the function, and which
  saved,                 \* by context: the CPSR that spinlock_acquire has read
  msg,                   \* by context: the message in hand, 0 for none
  logged,                \* history: messages logged so far
  accepted, printed,     \* history: messages taken into the ring; printed
  enabled                \* history: IRQs as the interrupted code wants them

ring == <<buffer, head, tail, accepted>>
vars == <<buffer, head, tail, lock, cpsr, irq, at, job, saved, msg, logged,
          accepted, printed, enabled>>

Contexts == {"svc", "irq"}
Locks == {"log", "printk"}
LockOf(j) == IF j = "print" THEN "printk" ELSE "log"

Init ==
  /\ buffer = [k \in 0 .. (Length - 1) |-> 0] /\ head = 0 /\ tail = 0
  /\ lock = [l \in Locks |-> FALSE] /\ cpsr = [l \in Locks |-> FALSE]
  /\ irq = FALSE /\ enabled = FALSE
  /\ at = [c \in Contexts |-> "idle"] /\ job = [c \in Contexts |-> "none"]
  /\ saved = [c \in Contexts |-> FALSE] /\ msg = [c \in Contexts |-> 0]
  /\ logged = 0 /\ accepted = <<>> /\ printed = <<>>

\* An interrupt runs to its end before the code it interrupts goes on.
Runs(c) == c = "irq" \/ at["irq"] = "idle"

\* Context c is about to take the lock for job j.
Start(c, j) == at' = [at EXCEPT ![c] = "acquire"] /\ job' = [job EXCEPT ![c] = j]

-------------------------------------------------------------------------------
(* Who calls.                                                              *)

\* log_commit and log_syscall_commit; the message is made up on the stack.
Log ==
  /\ at["svc"] = "idle" /\ Runs("svc") /\ logged < MaxMessages
  /\ logged' = logged + 1
  /\ msg' = [msg EXCEPT !["svc"] = logged + 1]
  /\ Start("svc", "write")
  /\ UNCHANGED <<ring, lock, cpsr, irq, saved, printed, enabled>>

\* Any other text that the kernel prints, now and then.
Printk ==
  /\ at["svc"] = "idle" /\ Runs("svc")
  /\ Start("svc", "print")
  /\ UNCHANGED <<ring, lock, cpsr, irq, saved, msg, logged, printed, enabled>>

\* Exception entry and disable_interrupts mask IRQs; map_page and
\* enable_interrupts unmask them.
SetIrq ==
  /\ at["svc"] = "idle" /\ Runs("svc")
  /\ irq' = ~ irq /\ enabled' = irq'
  /\ UNCHANGED <<ring, lock, cpsr, at, job, saved, msg, logged, printed>>

\* enter_userspace flushes the log with IRQs masked.
Flush ==
  /\ at["svc"] = "idle" /\ Runs("svc") /\ ~ irq
  /\ at' = [at EXCEPT !["svc"] = "consume"]
  /\ UNCHANGED <<ring, lock, cpsr, irq, job, saved, msg, logged, printed, enabled>>

\* tick: the CPU masks IRQs when it takes one.
Tick ==
  /\ irq /\ at["irq"] = "idle"
  /\ irq' = FALSE
  /\ at' = [at EXCEPT !["irq"] = "consume"]
  /\ UNCHANGED <<ring, lock, cpsr, job, saved, msg, logged, printed, enabled>>

\* log_consume: one turn of the loop, or its end.  The return from the
\* interrupt enables IRQs again.
Consume(c) ==
  /\ Runs(c) /\ at[c] = "consume" /\ tail # head
  /\ Start(c, "read")
  /\ UNCHANGED <<ring, lock, cpsr, irq, saved, msg, logged, printed, enabled>>

Consumed(c) ==
  /\ Runs(c) /\ at[c] = "consume" /\ tail = head
  /\ at' = [at EXCEPT ![c] = "idle"]
  /\ irq' = IF c = "irq" THEN TRUE ELSE irq
  /\ UNCHANGED <<ring, lock, cpsr, job, saved, msg, logged, printed, enabled>>

-------------------------------------------------------------------------------
(* spinlock_acquire and spinlock_release.                                  *)

\* mrs: the CPSR into a register.
ReadCpsr(c) ==
  /\ Runs(c) /\ at[c] = "acquire"
  /\ saved' = [saved EXCEPT ![c] = irq]
  /\ at' = [at EXCEPT ![c] = "mask"]
  /\ UNCHANGED <<ring, lock, cpsr, irq, job, msg, logged, printed, enabled>>

\* The CPSR that goes into the lock is read after IRQs are masked.
MutMaskLate(c) ==
  /\ Runs(c) /\ at[c] = "mask"
  /\ irq' = FALSE /\ cpsr' = [cpsr EXCEPT ![LockOf(job[c])] = irq']
  /\ at' = [at EXCEPT ![c] = "take"]
  /\ UNCHANGED <<ring, lock, job, saved, msg, logged, printed, enabled>>

\* cpsid i, then lock->cpsr = cpsr.
Mask(c) ==
  /\ Runs(c) /\ at[c] = "mask"
  /\ irq' = FALSE
  /\ cpsr' = [cpsr EXCEPT ![LockOf(job[c])] = saved[c]]
  /\ at' = [at EXCEPT ![c] = "take"]
  /\ UNCHANGED <<ring, lock, job, saved, msg, logged, printed, enabled>>

\* The test-and-set that finds the lock free; otherwise it spins.
Take(c) ==
  /\ Runs(c) /\ at[c] = "take" /\ ~ lock[LockOf(job[c])]
  /\ lock' = [lock EXCEPT ![LockOf(job[c])] = TRUE]
  /\ at' = [at EXCEPT ![c] = "body"]
  /\ UNCHANGED <<ring, cpsr, irq, job, saved, msg, logged, printed, enabled>>

\* Back to the caller: log_consume prints what it has read, and looks again.
Release(c) ==
  /\ Runs(c) /\ at[c] = "release"
  /\ lock' = [lock EXCEPT ![LockOf(job[c])] = FALSE]
  /\ irq' = cpsr[LockOf(job[c])]
  /\ \/ job[c] = "read" /\ Start(c, "print")
     \/ /\ job[c] # "read"
        /\ at' = [at EXCEPT ![c] = IF msg[c] # 0 /\ job[c] = "print"
                                   THEN "consume" ELSE "idle"]
        /\ job' = [job EXCEPT ![c] = "none"]
  /\ msg' = [msg EXCEPT ![c] = IF job[c] = "read" THEN msg[c] ELSE 0]
  /\ UNCHANGED <<ring, cpsr, saved, logged, printed, enabled>>

-------------------------------------------------------------------------------
(* What is done under the lock.                                            *)

After(k) == (k + 1) % Length
Body(c, j) ==
  /\ Runs(c) /\ at[c] = "body" /\ job[c] = j
  /\ at' = [at EXCEPT ![c] = "release"]
  /\ UNCHANGED <<lock, cpsr, irq, job, saved, logged, enabled>>

\* Full when the head meets the tail, not one before.
MutWrite(c) ==
  /\ Body(c, "write")
  /\ buffer' = [buffer EXCEPT ![head] = msg[c]]
  /\ head' = After(head) /\ accepted' = Append(accepted, msg[c])
  /\ UNCHANGED <<tail, msg, printed>>

\* ring_buffer_write: a full ring drops the message, and nobody is told.
Write(c) ==
  /\ Body(c, "write")
  /\ IF After(head) = tail THEN UNCHANGED <<buffer, head, accepted>>
     ELSE /\ buffer' = [buffer EXCEPT ![head] = msg[c]]
          /\ head' = After(head)
          /\ accepted' = Append(accepted, msg[c])
  /\ UNCHANGED <<tail, msg, printed>>

\* ring_buffer_read: log_consume has looked whether there is something.
Read(c) ==
  /\ Body(c, "read")
  /\ IF tail = head THEN UNCHANGED <<tail, msg>>
     ELSE msg' = [msg EXCEPT ![c] = buffer[tail]] /\ tail' = After(tail)
  /\ UNCHANGED <<buffer, head, accepted, printed>>

\* The text goes to the console, character by character.
PrintText(c) ==
  /\ Body(c, "print")
  /\ printed' = IF msg[c] = 0 THEN printed ELSE Append(printed, msg[c])
  /\ UNCHANGED <<ring, msg>>

Step(c) ==
  \/ Consume(c) \/ Consumed(c)
  \/ ReadCpsr(c) \/ Mask(c) \/ Take(c) \/ Release(c)
  \/ Write(c) \/ Read(c) \/ PrintText(c)

Next == Log \/ Printk \/ SetIrq \/ Flush \/ Tick \/ \E c \in Contexts : Step(c)

Spec == Init /\ [][Next]_vars

-------------------------------------------------------------------------------
\* The messages in the ring, and the one log_consume has taken out of it.
Waiting == [k \in 1 .. ((head - tail + Length) % Length) |->
              buffer[(tail + k - 1) % Length]]
Holding == {c \in Contexts : \/ job[c] = "read" /\ at[c] = "release"
                             \/ job[c] = "print" /\ msg[c] # 0 /\ at[c] # "release"}
InHand == IF Holding = {} THEN <<>> ELSE <<msg[CHOOSE c \in Holding : TRUE]>>

\* Every message the ring accepts is printed once and in order: a full ring
\* overwrites nothing, and a tick between two steps of a writer disturbs none
\* of its indices (ring_buffer_write, log_consume).
PrintedInOrder == printed \o InHand \o Waiting = accepted

\* A lock on one CPU masks: nobody finds it taken, for the tick cannot come
\* while the code it interrupts holds one, and log_consume gives one back before
\* printk takes the other; and when kernel code goes on, IRQs are enabled if and
\* only if it left them so, although a tick may have used the same lock and kept
\* its own mask in it (spinlock_acquire, spinlock_release).
NeverSpins ==
  \A c \in Contexts : Runs(c) /\ at[c] = "take" => ~ lock[LockOf(job[c])]
MaskRestored ==
  at["irq"] = "idle" /\ at["svc"] \in {"idle", "consume", "acquire"} => irq = enabled
LocksMask == NeverSpins /\ MaskRestored
===============================================================================

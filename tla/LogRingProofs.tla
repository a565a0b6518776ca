----------------------------- MODULE LogRingProofs -----------------------------
(***************************************************************************)
(* The safety of LogRing for every length of the ring and any number of    *)
(* messages.                                                               *)
(*                                                                         *)
(* The invariant has two halves.  Control says what the kernel and the     *)
(* tick that interrupts it know of each other: where the kernel can have   *)
(* been interrupted, which mask a lock keeps, and who holds a lock.  Order *)
(* is about the ring.                                                      *)
(***************************************************************************)
EXTENDS LogRing, SequenceTheorems, TLAPS

Places == {"idle", "consume", "acquire", "mask", "take", "body", "release"}
Jobs   == {"none", "write", "read", "print"}
Slots  == 0 .. (Length - 1)

TypeOK ==
  /\ buffer \in [Slots -> Nat] /\ head \in Slots /\ tail \in Slots
  /\ lock \in [Locks -> BOOLEAN] /\ cpsr \in [Locks -> BOOLEAN]
  /\ irq \in BOOLEAN /\ enabled \in BOOLEAN
  /\ at \in [Contexts -> Places] /\ job \in [Contexts -> Jobs]
  /\ saved \in [Contexts -> BOOLEAN] /\ msg \in [Contexts -> Nat]
  /\ logged \in Nat /\ accepted \in Seq(Nat) /\ printed \in Seq(Nat)

\* Between cpsid and the end of spinlock_release; with the lock taken.
Masking(c) == at[c] \in {"take", "body", "release"}
InLock(c)  == at[c] \in {"body", "release"}

\* A tick comes only where the kernel runs with IRQs enabled, and masks them;
\* otherwise they are as the kernel wants them, but for a lock.
Interrupted ==
  IF at["irq"] = "idle" THEN irq = (enabled /\ ~ Masking("svc"))
  ELSE ~ irq /\ enabled /\ ~ Masking("svc") /\ at["svc"] # "consume"

\* What spinlock_acquire has read, and what it keeps in the lock.
Kept ==
  /\ at["svc"] = "mask" => saved["svc"] = enabled
  /\ at["irq"] = "mask" => ~ saved["irq"]
  /\ Masking("svc") => cpsr[LockOf(job["svc"])] = enabled
  /\ Masking("irq") => ~ cpsr[LockOf(job["irq"])]

HeldBy == \A l \in Locks : lock[l] <=> \E c \in Contexts : InLock(c) /\ LockOf(job[c]) = l

\* What each place and job says: only the tick, or the kernel with IRQs masked,
\* takes messages out of the ring.
Working ==
  /\ \A c \in Contexts : job[c] = "none" <=> at[c] \in {"idle", "consume"}
  /\ job["irq"] # "write"
  /\ \A c \in Contexts : job[c] = "none" => msg[c] = 0
  /\ job["svc"] = "write" => msg["svc"] # 0
  /\ job["irq"] = "print" => msg["irq"] # 0
  /\ \A c \in Contexts : job[c] = "read" => IF at[c] = "release" THEN msg[c] # 0
                                            ELSE msg[c] = 0 /\ tail # head
  /\ \/ at["svc"] = "consume" \/ job["svc"] = "read"
     \/ job["svc"] = "print" /\ msg["svc"] # 0
     => ~ enabled

Control == Interrupted /\ Kept /\ HeldBy /\ Working

Stored == \A k \in 1 .. Len(Waiting) : Waiting[k] # 0

IInv == TypeOK /\ Control /\ Stored /\ PrintedInOrder

-------------------------------------------------------------------------------
(* The kernel and the tick.                                                *)

\* The actions of one context, job by job.
LEMMA LockOfTypes == \A j : LockOf(j) \in Locks
BY DEF LockOf, Locks

LEMMA AfterSlot == \A k \in Slots : After(k) \in Slots
BY LogAssumption DEF After, Slots

\* Nothing of the program leaves its type.
LEMMA TypesStep == TypeOK /\ Working /\ [Next]_vars => TypeOK'
<1> SUFFICES ASSUME TypeOK, Working, [Next]_vars PROVE TypeOK'
  OBVIOUS
<1> USE DEF TypeOK, ring
<1>1. CASE Log
  BY <1>1 DEF Log, Start, Contexts, Places, Jobs
<1>2. CASE Printk
  BY <1>2 DEF Printk, Start, Contexts, Places, Jobs
<1>3. CASE SetIrq
  BY <1>3 DEF SetIrq
<1>4. CASE Flush
  BY <1>4 DEF Flush, Contexts, Places
<1>5. CASE Tick
  BY <1>5 DEF Tick, Contexts, Places
<1>6. ASSUME NEW c \in Contexts, Step(c) PROVE TypeOK'
  <2>1. CASE Consume(c)
    BY <2>1 DEF Consume, Start, Places, Jobs
  <2>2. CASE Consumed(c)
    BY <2>2 DEF Consumed, Places
  <2>3. CASE ReadCpsr(c)
    BY <2>3 DEF ReadCpsr, Places
  <2>4. CASE Mask(c)
    BY <2>4, LockOfTypes DEF Mask, Places
  <2>5. CASE Take(c)
    BY <2>5, LockOfTypes DEF Take, Places
  <2>6. CASE Release(c)
    BY <2>6, LockOfTypes DEF Release, Start, Places, Jobs
  <2>7. CASE Write(c)
    <3>1. CASE After(head) = tail
      BY <2>7, <3>1 DEF Write, Body, Places
    <3>2. CASE After(head) # tail
      <4>1. msg[c] \in Nat /\ head \in Slots /\ After(head) \in Slots
        BY AfterSlot
      <4>2. [buffer EXCEPT ![head] = msg[c]] \in [Slots -> Nat]
            /\ Append(accepted, msg[c]) \in Seq(Nat)
        BY <4>1
      <4> QED BY <2>7, <3>2, <4>1, <4>2 DEF Write, Body, Places
    <3> QED BY <3>1, <3>2
  <2>8. CASE Read(c)
    BY <2>8, AfterSlot DEF Read, Body, Places
  <2>9. CASE PrintText(c)
    BY <2>9 DEF PrintText, Body, Places
  <2> QED BY <1>6, <2>1, <2>2, <2>3, <2>4, <2>5, <2>6, <2>7, <2>8, <2>9 DEF Step
<1>7. CASE UNCHANGED vars
  BY <1>7 DEF vars
<1> QED BY <1>1, <1>2, <1>3, <1>4, <1>5, <1>6, <1>7 DEF Next

\* Control is kept by every step; what log_consume reads is a message, as all
\* that is stored are.
LEMMA ControlStep ==
  TypeOK /\ Control /\ (tail # head => buffer[tail] # 0) /\ [Next]_vars => Control'
<1> SUFFICES ASSUME TypeOK, Control, tail # head => buffer[tail] # 0, [Next]_vars
             PROVE  Control'
  OBVIOUS
<1> USE DEF TypeOK, Control, Interrupted, Kept, HeldBy, Working, Masking, InLock,
            Contexts, Locks, LockOf, ring
<1>1. CASE Log
  BY <1>1 DEF Log, Start, Runs
<1>2. CASE Printk
  BY <1>2 DEF Printk, Start, Runs
<1>3. CASE SetIrq
  <2>1. Interrupted'
    BY <1>3 DEF SetIrq, Runs
  <2>2. Kept'
    BY <1>3 DEF SetIrq, Runs
  <2>3. HeldBy'
    BY <1>3 DEF SetIrq, Runs
  <2>4. Working'
    BY <1>3 DEF SetIrq, Runs
  <2> HIDE DEF Interrupted, Kept, HeldBy, Working
  <2> QED BY <2>1, <2>2, <2>3, <2>4
<1>4. CASE Flush
  BY <1>4 DEF Flush, Runs
<1>5. CASE Tick
  <2>1. Interrupted'
    BY <1>5 DEF Tick
  <2>2. Kept'
    BY <1>5 DEF Tick
  <2>3. HeldBy'
    BY <1>5 DEF Tick
  <2>4. Working'
    BY <1>5 DEF Tick
  <2> HIDE DEF Interrupted, Kept, HeldBy, Working
  <2> QED BY <2>1, <2>2, <2>3, <2>4
<1>6. ASSUME NEW c \in Contexts, Step(c) PROVE Control'
  <2>1. CASE Consume(c)
    BY <2>1 DEF Consume, Start, Runs
  <2>2. CASE Consumed(c)
    <3>1. Interrupted'
      BY <2>2 DEF Consumed, Runs
    <3>2. Kept'
      BY <2>2 DEF Consumed, Runs
    <3>3. HeldBy'
      BY <2>2 DEF Consumed, Runs
    <3>4. Working'
      BY <2>2 DEF Consumed, Runs
    <3> HIDE DEF Interrupted, Kept, HeldBy, Working
    <3> QED BY <3>1, <3>2, <3>3, <3>4
  <2>3. CASE ReadCpsr(c)
    BY <2>3 DEF ReadCpsr, Runs
  <2>4. CASE Mask(c)
    <3>1. Interrupted'
      BY <2>4 DEF Mask, Runs
    <3>2. Kept'
      BY <2>4 DEF Mask, Runs
    <3>3. HeldBy'
      BY <2>4 DEF Mask, Runs
    <3>4. Working'
      BY <2>4 DEF Mask, Runs
    <3> HIDE DEF Interrupted, Kept, HeldBy, Working
    <3> QED BY <3>1, <3>2, <3>3, <3>4
  <2>5. CASE Take(c)
    BY <2>5 DEF Take, Runs
  <2>6. CASE Release(c)
    <3>1. CASE job[c] = "read"
      BY <2>6, <3>1 DEF Release, Start, Runs
    <3>2. CASE job[c] # "read" /\ c = "svc"
      BY <2>6, <3>2 DEF Release, Start, Runs
    <3>3. CASE job[c] # "read" /\ c = "irq"
      <4>1. job["irq"] = "print" /\ msg["irq"] # 0 /\ at["irq"] = "release"
        BY <2>6, <3>3 DEF Release, Jobs
      <4>2. ~ cpsr["printk"] /\ enabled /\ ~ Masking("svc") /\ at["svc"] # "consume"
        BY <4>1
      <4>3. /\ at' = [at EXCEPT !["irq"] = "consume"]
            /\ job' = [job EXCEPT !["irq"] = "none"]
            /\ msg' = [msg EXCEPT !["irq"] = 0]
            /\ lock' = [lock EXCEPT !["printk"] = FALSE]
            /\ irq' = cpsr["printk"]
            /\ UNCHANGED <<ring, cpsr, saved, enabled>>
        BY <2>6, <3>3, <4>1 DEF Release
      <4>4. Interrupted' /\ Kept'
        BY <4>1, <4>2, <4>3
      <4>5. HeldBy'
        BY <4>1, <4>2, <4>3
      <4>6. Working'
        BY <4>1, <4>2, <4>3
      <4> QED BY <4>4, <4>5, <4>6
    <3> QED BY <3>1, <3>2, <3>3
  <2>7. CASE Write(c)
    BY <2>7 DEF Write, Body, Runs
  <2>8. CASE Read(c)
    BY <2>8 DEF Read, Body, Runs
  <2>9. CASE PrintText(c)
    BY <2>9 DEF PrintText, Body, Runs
  <2> QED BY <1>6, <2>1, <2>2, <2>3, <2>4, <2>5, <2>6, <2>7, <2>8, <2>9 DEF Step
<1>7. CASE UNCHANGED vars
  BY <1>7 DEF vars
<1> QED BY <1>1, <1>2, <1>3, <1>4, <1>5, <1>6, <1>7 DEF Next

-------------------------------------------------------------------------------
(* The ring as a sequence.                                                 *)

\* How many messages are between t and h, and where the k-th one is.
Size(h, t)  == (h - t + Length) % Length
Place(t, k) == (t + k - 1) % Length

\* What is between t and h in b, oldest first.
Between(b, h, t) == [k \in 1 .. Size(h, t) |-> b[Place(t, k)]]

\* The indices without the modulus.
LEMMA Wrap ==
  /\ \A k \in Int : 0 <= k /\ k < Length => k % Length = k
  /\ \A k \in Int : Length <= k /\ k < 2 * Length => k % Length = k - Length
BY LogAssumption

LEMMA SizeIs ==
  ASSUME NEW h \in Slots, NEW t \in Slots
  PROVE  /\ Size(h, t) \in Nat /\ Size(h, t) < Length
         /\ h >= t => Size(h, t) = h - t
         /\ h < t => Size(h, t) = h - t + Length
<1>1. h - t + Length \in Int /\ 0 < h - t + Length /\ h - t + Length < 2 * Length
  BY LogAssumption DEF Slots
<1>2. h >= t => (h - t + Length) % Length = h - t + Length - Length
  BY <1>1, Wrap, LogAssumption DEF Slots
<1>3. h < t => (h - t + Length) % Length = h - t + Length
  BY <1>1, Wrap, LogAssumption DEF Slots
<1> QED BY <1>2, <1>3, LogAssumption DEF Slots, Size

LEMMA PlaceIs ==
  ASSUME NEW t \in Slots, NEW k \in 1 .. Length
  PROVE  /\ Place(t, k) \in Nat /\ Place(t, k) < Length
         /\ t + k <= Length => Place(t, k) = t + k - 1
         /\ t + k > Length => Place(t, k) = t + k - 1 - Length
<1>1. t + k - 1 \in Int /\ 0 <= t + k - 1 /\ t + k - 1 < 2 * Length
  BY LogAssumption DEF Slots
<1> QED BY <1>1, Wrap, LogAssumption DEF Slots, Place

LEMMA AfterIs ==
  ASSUME NEW k \in Slots
  PROVE  /\ After(k) \in Nat /\ After(k) < Length
         /\ k + 1 = Length => After(k) = 0
         /\ k + 1 < Length => After(k) = k + 1
BY Wrap, LogAssumption DEF After, Slots

LEMMA SlotIs == \A k \in Slots : k \in Nat /\ k < Length
BY LogAssumption DEF Slots

LEMMA BetweenSeq ==
  ASSUME NEW b \in [Slots -> Nat], NEW h \in Slots, NEW t \in Slots
  PROVE  /\ Size(h, t) \in Nat /\ Size(h, t) < Length
         /\ \A k \in 1 .. Size(h, t) : Place(t, k) \in Slots
         /\ Between(b, h, t) \in Seq(Nat)
         /\ Len(Between(b, h, t)) = Size(h, t)
         /\ \A k \in 1 .. Size(h, t) : Between(b, h, t)[k] = b[Place(t, k)]
<1>1. Size(h, t) \in Nat /\ Size(h, t) < Length
  BY SizeIs
<1>2. \A k \in 1 .. Size(h, t) : Place(t, k) \in Slots
  <2> SUFFICES ASSUME NEW k \in 1 .. Size(h, t) PROVE Place(t, k) \in Slots
    OBVIOUS
  <2>1. k \in 1 .. Length
    BY <1>1, LogAssumption
  <2>2. Place(t, k) \in Nat /\ Place(t, k) < Length
    BY <2>1, PlaceIs
  <2> QED BY <2>2, LogAssumption DEF Slots
<1> QED BY <1>1, <1>2 DEF Between

\* ring_buffer_write puts its message last.
LEMMA WriteAppends ==
  ASSUME NEW b \in [Slots -> Nat], NEW h \in Slots, NEW t \in Slots, NEW m \in Nat,
         After(h) # t
  PROVE  Between([b EXCEPT ![h] = m], After(h), t) = Append(Between(b, h, t), m)
<1> DEFINE n == Size(h, t)
           c == [b EXCEPT ![h] = m]
           x == Between(b, h, t)
           y == Between(c, After(h), t)
<1>1. After(h) \in Slots /\ c \in [Slots -> Nat]
  BY AfterSlot
<1>2. /\ h \in Nat /\ h < Length /\ t \in Nat /\ t < Length /\ n \in Nat /\ n < Length
      /\ h >= t => n = h - t
      /\ h < t => n = h - t + Length
  BY SizeIs, SlotIs
<1>3. n + 1 < Length /\ Size(After(h), t) = n + 1
  <2>1. /\ Size(After(h), t) \in Nat
        /\ After(h) >= t => Size(After(h), t) = After(h) - t
        /\ After(h) < t => Size(After(h), t) = After(h) - t + Length
    BY <1>1, SizeIs
  <2>2. /\ After(h) \in Nat /\ After(h) < Length
        /\ h + 1 = Length => After(h) = 0
        /\ h + 1 < Length => After(h) = h + 1
    BY AfterIs
  <2> HIDE DEF n
  <2> QED BY <1>2, <2>1, <2>2, LogAssumption
<1>4. \A k \in 1 .. (n + 1) : Place(t, k) = h <=> k = n + 1
  <2> SUFFICES ASSUME NEW k \in 1 .. (n + 1)
               PROVE  Place(t, k) = h <=> k = n + 1
    OBVIOUS
  <2>1. k \in 1 .. Length
    BY <1>2, <1>3, LogAssumption
  <2>2. /\ t + k <= Length => Place(t, k) = t + k - 1
        /\ t + k > Length => Place(t, k) = t + k - 1 - Length
    BY <2>1, PlaceIs
  <2> HIDE DEF n
  <2> QED BY <1>2, <1>3, <2>2, LogAssumption
<1>5. /\ x \in Seq(Nat) /\ Len(x) = n /\ \A k \in 1 .. n : x[k] = b[Place(t, k)]
      /\ y \in Seq(Nat) /\ Len(y) = n + 1 /\ \A k \in 1 .. (n + 1) : y[k] = c[Place(t, k)]
      /\ \A k \in 1 .. n : Place(t, k) \in Slots
  <2>1. /\ x \in Seq(Nat) /\ Len(x) = n /\ \A k \in 1 .. n : x[k] = b[Place(t, k)]
        /\ \A k \in 1 .. n : Place(t, k) \in Slots
    BY BetweenSeq
  <2>2. /\ y \in Seq(Nat) /\ Len(y) = Size(After(h), t)
        /\ \A k \in 1 .. Size(After(h), t) : y[k] = c[Place(t, k)]
    <3> HIDE DEF c
    <3> QED BY <1>1, BetweenSeq
  <2> QED BY <1>3, <2>1, <2>2
<1> HIDE DEF n, x, y
<1>6. (\A k \in 1 .. n : y[k] = x[k]) /\ y[n + 1] = m
  BY <1>2, <1>4, <1>5
<1>7. Append(x, m) \in Seq(Nat) /\ Len(Append(x, m)) = n + 1
      /\ \A k \in 1 .. (n + 1) : Append(x, m)[k] = y[k]
  BY <1>2, <1>5, <1>6
<1>8. y = Append(x, m)
  BY <1>5, <1>7, SeqEqual
<1> QED BY <1>8 DEF x, y

\* Messages are numbers.
LEMMA ConcatNat ==
  ASSUME NEW s \in Seq(Nat), NEW t \in Seq(Nat), NEW u \in Seq(Nat)
  PROVE  s \o (t \o u) = s \o t \o u
<1>1. (s \o t) \o u = s \o (t \o u)
  BY ConcatAssociative, SMTT(30)
<1> QED BY <1>1

\* ring_buffer_read takes the first.
LEMMA ReadTakesFirst ==
  ASSUME NEW b \in [Slots -> Nat], NEW h \in Slots, NEW t \in Slots, t # h
  PROVE  Between(b, h, t) = <<b[t]>> \o Between(b, h, After(t))
<1> DEFINE n == Size(h, t)
           x == Between(b, h, t)
           y == Between(b, h, After(t))
<1>1. After(t) \in Slots
  BY AfterSlot
<1>0. /\ h \in Nat /\ h < Length /\ t \in Nat /\ t < Length
      /\ After(t) \in Nat /\ After(t) < Length
      /\ t + 1 = Length => After(t) = 0
      /\ t + 1 < Length => After(t) = t + 1
  BY SlotIs, AfterIs
<1>2. n \in Nat /\ n > 0 /\ n < Length /\ Size(h, After(t)) = n - 1
  <2>1. /\ n \in Nat /\ n < Length
        /\ h >= t => n = h - t
        /\ h < t => n = h - t + Length
        /\ h >= After(t) => Size(h, After(t)) = h - After(t)
        /\ h < After(t) => Size(h, After(t)) = h - After(t) + Length
    BY <1>1, SizeIs
  <2> HIDE DEF n
  <2> QED BY <1>0, <2>1, LogAssumption
<1>3. Place(t, 1) = t
  BY PlaceIs, LogAssumption DEF Slots
<1>4. \A k \in 1 .. (n - 1) : Place(After(t), k) = Place(t, k + 1)
  <2> SUFFICES ASSUME NEW k \in 1 .. (n - 1)
               PROVE  Place(After(t), k) = Place(t, k + 1)
    OBVIOUS
  <2>1. k \in 1 .. Length /\ k + 1 \in 1 .. Length /\ k + 1 <= n
    BY <1>2, LogAssumption
  <2>2. /\ t + (k + 1) <= Length => Place(t, k + 1) = t + (k + 1) - 1
        /\ t + (k + 1) > Length => Place(t, k + 1) = t + (k + 1) - 1 - Length
        /\ After(t) + k <= Length => Place(After(t), k) = After(t) + k - 1
        /\ After(t) + k > Length => Place(After(t), k) = After(t) + k - 1 - Length
    BY <1>1, <2>1, PlaceIs
  <2> HIDE DEF n
  <2> QED BY <1>0, <1>2, <2>1, <2>2, LogAssumption
<1>5. /\ x \in Seq(Nat) /\ Len(x) = n /\ \A k \in 1 .. n : x[k] = b[Place(t, k)]
      /\ y \in Seq(Nat) /\ Len(y) = n - 1
      /\ \A k \in 1 .. (n - 1) : y[k] = b[Place(After(t), k)]
  <2>1. /\ x \in Seq(Nat) /\ Len(x) = Size(h, t)
        /\ \A k \in 1 .. Size(h, t) : x[k] = b[Place(t, k)]
    BY BetweenSeq
  <2>2. /\ y \in Seq(Nat) /\ Len(y) = Size(h, After(t))
        /\ \A k \in 1 .. Size(h, After(t)) : y[k] = b[Place(After(t), k)]
    BY <1>1, BetweenSeq
  <2> HIDE DEF x, y
  <2> QED BY <1>2, <2>1, <2>2
<1>6. b[t] \in Nat
  OBVIOUS
<1> HIDE DEF n, x, y
<1>7. <<b[t]>> \o y \in Seq(Nat) /\ Len(<<b[t]>> \o y) = n
  BY <1>2, <1>5, <1>6
<1>8. \A k \in 1 .. n : (<<b[t]>> \o y)[k] = x[k]
  <2> SUFFICES ASSUME NEW k \in 1 .. n PROVE (<<b[t]>> \o y)[k] = x[k]
    OBVIOUS
  <2>1. CASE k = 1
    BY <1>2, <1>3, <1>5, <2>1
  <2>2. CASE k # 1
    <3>1. k - 1 \in 1 .. (n - 1) /\ (k - 1) + 1 = k
      BY <1>2, <2>2
    <3>2. y[k - 1] = b[Place(t, k)]
      <4>1. y[k - 1] = b[Place(After(t), k - 1)]
        BY <1>5, <3>1
      <4>2. Place(After(t), k - 1) = Place(t, (k - 1) + 1)
        BY <1>4, <3>1
      <4> QED BY <3>1, <4>1, <4>2
    <3>3. (<<b[t]>> \o y)[k] = y[k - 1]
      BY <1>2, <1>5, <2>2, <3>1
    <3> QED BY <1>5, <3>2, <3>3
  <2> QED BY <2>1, <2>2
<1>9. x = <<b[t]>> \o y
  BY <1>5, <1>7, <1>8, SeqEqual
<1> QED BY <1>9 DEF x, y

\* The ring is not empty when there is something between tail and head, and what
\* log_consume reads is then a message.
LEMMA FirstStored ==
  ASSUME TypeOK, Stored, tail # head
  PROVE  buffer[tail] # 0
<1>1. Waiting = Between(buffer, head, tail)
  BY DEF Waiting, Between, Size, Place
<1>2. Waiting = <<buffer[tail]>> \o Between(buffer, head, After(tail))
  BY <1>1, ReadTakesFirst DEF TypeOK
<1>3. buffer[tail] \in Nat /\ Between(buffer, head, After(tail)) \in Seq(Nat)
  BY AfterSlot, BetweenSeq DEF TypeOK
<1>4. Len(Waiting) >= 1 /\ Waiting[1] = buffer[tail]
  <2> DEFINE y == Between(buffer, head, After(tail))
  <2> HIDE DEF y
  <2> QED BY <1>2, <1>3 DEF y
<1>5. Len(Waiting) \in Nat
  BY <1>1, BetweenSeq DEF TypeOK
<1> QED BY <1>4, <1>5 DEF Stored

-------------------------------------------------------------------------------
(* The order of the messages.                                              *)

\* One context at most has a message in hand: when the kernel has one, IRQs are
\* masked for good and no tick is under way.
LEMMA OneInHand ==
  ASSUME TypeOK, Control, NEW c \in Holding
  PROVE  Holding = {c} /\ InHand = <<msg[c]>>
<1>1. "svc" \in Holding => "irq" \notin Holding
  BY DEF TypeOK, Control, Interrupted, Working, Holding, Contexts
<1>2. Holding = {c}
  BY <1>1 DEF Holding, Contexts
<1>3. (CHOOSE d \in Holding : TRUE) = c
  BY <1>2
<1> QED BY <1>2, <1>3 DEF InHand

LEMMA OneInHandNext ==
  ASSUME TypeOK', Control', NEW c \in Holding'
  PROVE  Holding' = {c} /\ InHand' = <<msg'[c]>>
<1>1. "svc" \in Holding' => "irq" \notin Holding'
  BY DEF TypeOK, Control, Interrupted, Working, Holding, Contexts
<1>2. Holding' = {c}
  BY <1>1 DEF Holding, Contexts
<1>3. (CHOOSE d \in Holding' : TRUE) = c
  BY <1>2
<1> QED BY <1>2, <1>3 DEF InHand

\* The same context, with the same message, or nobody.
SameHand == Holding' = Holding /\ \A c \in Holding : msg'[c] = msg[c]

LEMMA HandKept ==
  ASSUME TypeOK, Control, TypeOK', Control', SameHand
  PROVE  InHand' = InHand
<1>1. CASE Holding = {}
  BY <1>1 DEF SameHand, InHand
<1>2. ASSUME NEW c \in Holding PROVE InHand' = InHand
  BY OneInHand, OneInHandNext DEF SameHand
<1> QED BY <1>1, <1>2

\* A step that leaves the ring alone, prints nothing and changes no hand.
Aside == UNCHANGED <<ring, printed>> /\ SameHand

LEMMA AsideStep ==
  ASSUME IInv, TypeOK', Control', Aside
  PROVE  Stored' /\ PrintedInOrder'
<1>1. Waiting' = Waiting
  BY DEF Aside, ring, Waiting
<1>2. InHand' = InHand
  BY HandKept DEF IInv, Aside
<1>3. printed' = printed /\ accepted' = accepted
  BY DEF Aside, ring
<1> QED BY <1>1, <1>2, <1>3 DEF IInv, Stored, PrintedInOrder

LEMMA WriteOrder ==
  ASSUME IInv, TypeOK', Control', NEW c \in Contexts, Write(c)
  PROVE  Stored' /\ PrintedInOrder'
<1>1. SameHand
  BY DEF IInv, TypeOK, Write, Body, SameHand, Holding, Contexts
<1>2. CASE After(head) = tail
  <2>1. Aside
    BY <1>1, <1>2 DEF Write, Aside, ring
  <2> QED BY <2>1, AsideStep
<1>3. CASE After(head) # tail
  <2>1. msg[c] \in Nat /\ msg[c] # 0
    BY DEF IInv, TypeOK, Control, Working, Write, Body, Contexts
  <2>2. Waiting \in Seq(Nat)
    <3>1. Waiting = Between(buffer, head, tail)
      BY DEF Waiting, Between, Size, Place
    <3> QED BY <3>1, BetweenSeq DEF IInv, TypeOK
  <2>3. Waiting' = Append(Waiting, msg[c])
    <3>1. /\ Waiting = Between(buffer, head, tail)
          /\ Waiting' = Between(buffer', head', tail')
      BY DEF Waiting, Between, Size, Place
    <3>2. buffer' = [buffer EXCEPT ![head] = msg[c]] /\ head' = After(head) /\ tail' = tail
      BY <1>3 DEF Write
    <3>3. buffer \in [Slots -> Nat] /\ head \in Slots /\ tail \in Slots
      BY DEF IInv, TypeOK
    <3>4. Between([buffer EXCEPT ![head] = msg[c]], After(head), tail)
            = Append(Between(buffer, head, tail), msg[c])
      BY <1>3, <2>1, <3>3, WriteAppends
    <3> QED BY <3>1, <3>2, <3>4
  <2>4. Stored'
    BY <2>1, <2>2, <2>3 DEF IInv, Stored
  <2>5. InHand' = InHand /\ InHand \in Seq(Nat)
    <3>1. InHand' = InHand
      BY <1>1, HandKept DEF IInv
    <3>2. CASE Holding = {}
      <4>1. InHand = <<>> /\ <<>> \in Seq(Nat)
        BY <3>2 DEF InHand
      <4> QED BY <3>1, <4>1
    <3>3. ASSUME NEW d \in Holding PROVE InHand \in Seq(Nat)
      <4>1. InHand = <<msg[d]>> /\ msg[d] \in Nat
        BY OneInHand DEF IInv, TypeOK, Holding
      <4> QED BY <4>1
    <3> QED BY <3>1, <3>2, <3>3
  <2>6. printed' = printed /\ printed \in Seq(Nat) /\ accepted' = Append(accepted, msg[c])
    BY <1>3 DEF Write, IInv, TypeOK
  <2>7. printed \o InHand \o Append(Waiting, msg[c]) = Append(printed \o InHand \o Waiting, msg[c])
    <3> DEFINE x == printed \o InHand
               y == Waiting
               m == msg[c]
    <3>1. x \in Seq(Nat)
      BY <2>5, <2>6
    <3> HIDE DEF x
    <3>2. x \o Append(y, m) = Append(x \o y, m)
      <4>1. Append(y, m) = y \o <<m>> /\ Append(x \o y, m) = (x \o y) \o <<m>>
        BY <2>1, <2>2, <3>1, AppendIsConcat, ConcatProperties
      <4>2. <<m>> \in Seq(Nat)
        BY <2>1
      <4> HIDE DEF y, m
      <4>3. y \in Seq(Nat)
        BY <2>2 DEF y
      <4> QED BY <3>1, <4>1, <4>2, <4>3, ConcatAssociative
    <3> QED BY <3>2 DEF x
  <2> QED BY <2>3, <2>4, <2>5, <2>6, <2>7 DEF IInv, PrintedInOrder
<1> QED BY <1>2, <1>3

LEMMA ReadOrder ==
  ASSUME IInv, TypeOK', Control', NEW c \in Contexts, Read(c)
  PROVE  Stored' /\ PrintedInOrder'
<1>1. tail # head
  BY DEF IInv, Control, Working, Read, Body
<1>2. /\ at[c] = "body" /\ job[c] = "read" /\ at' = [at EXCEPT ![c] = "release"]
      /\ msg' = [msg EXCEPT ![c] = buffer[tail]] /\ tail' = After(tail)
      /\ UNCHANGED <<buffer, head, accepted, printed, job>>
  BY <1>1 DEF Read, Body
<1>3. Holding = {}
  BY <1>2 DEF IInv, TypeOK, Control, Interrupted, Working, Holding, Contexts, Read, Body, Runs
<1>4. InHand = <<>>
  BY <1>3 DEF InHand
<1>5. c \in Holding' /\ msg'[c] = buffer[tail]
  BY <1>2 DEF IInv, TypeOK, Holding
<1>6. InHand' = <<buffer[tail]>>
  BY <1>5, OneInHandNext
<1>7. /\ Waiting = Between(buffer, head, tail)
      /\ Waiting' = Between(buffer, head, After(tail))
  BY <1>2 DEF Waiting, Between, Size, Place
<1>8. Waiting = <<buffer[tail]>> \o Waiting'
  BY <1>1, <1>7, ReadTakesFirst DEF IInv, TypeOK
<1>9. Waiting' \in Seq(Nat) /\ buffer[tail] \in Nat /\ printed \in Seq(Nat)
  BY <1>7, AfterSlot, BetweenSeq DEF IInv, TypeOK
<1> DEFINE y == Waiting'
<1> HIDE DEF y
<1>10. \A k \in 1 .. Len(y) : y[k] = Waiting[k + 1] /\ k + 1 \in 1 .. Len(Waiting)
  BY <1>8, <1>9 DEF y
<1>11. Stored'
  BY <1>10 DEF IInv, Stored, y
<1>12. printed \o <<>> \o (<<buffer[tail]>> \o y) = printed \o <<buffer[tail]>> \o y
  <2> DEFINE x == <<buffer[tail]>>
  <2>1. x \in Seq(Nat) /\ y \in Seq(Nat) /\ printed \in Seq(Nat)
    BY <1>9 DEF y
  <2> HIDE DEF x
  <2>2. printed \o <<>> = printed
    BY <2>1, ConcatEmptySeq
  <2>3. printed \o (x \o y) = printed \o x \o y
    BY <2>1, ConcatNat
  <2>4. printed \o <<>> \o (x \o y) = printed \o x \o y
    BY <2>2, <2>3
  <2> QED BY <2>4 DEF x
<1> QED BY <1>2, <1>4, <1>6, <1>8, <1>11, <1>12 DEF IInv, PrintedInOrder, y

LEMMA PrintOrder ==
  ASSUME IInv, TypeOK', Control', NEW c \in Contexts, PrintText(c)
  PROVE  Stored' /\ PrintedInOrder'
<1>1. CASE msg[c] = 0
  <2>1. Aside
    BY <1>1 DEF PrintText, Body, Aside, SameHand, Holding, IInv, TypeOK, Contexts, ring
  <2> QED BY <2>1, AsideStep
<1>2. CASE msg[c] # 0
  <2>1. c \in Holding
    BY <1>2 DEF PrintText, Body, Holding
  <2>2. Holding = {c} /\ InHand = <<msg[c]>>
    BY <2>1, OneInHand DEF IInv
  <2>3. Holding' = {}
    BY <2>2 DEF PrintText, Body, Holding, IInv, TypeOK, Contexts
  <2>4. InHand' = <<>>
    BY <2>3 DEF InHand
  <2>5. Waiting' = Waiting /\ accepted' = accepted /\ printed' = Append(printed, msg[c])
    BY <1>2 DEF PrintText, ring, Waiting
  <2>6. Waiting \in Seq(Nat) /\ msg[c] \in Nat /\ printed \in Seq(Nat)
    <3>1. Waiting = Between(buffer, head, tail)
      BY DEF Waiting, Between, Size, Place
    <3> QED BY <3>1, BetweenSeq DEF IInv, TypeOK
  <2>7. printed' \o <<>> = printed \o <<msg[c]>>
    <3>1. printed' = printed \o <<msg[c]>> /\ printed' \in Seq(Nat)
      BY <2>5, <2>6, AppendIsConcat, AppendProperties
    <3> QED BY <3>1, ConcatEmptySeq
  <2>8. PrintedInOrder'
    BY <2>2, <2>4, <2>5, <2>7 DEF IInv, PrintedInOrder
  <2>9. Stored'
    BY <2>5 DEF IInv, Stored
  <2> QED BY <2>8, <2>9
<1> QED BY <1>1, <1>2

-------------------------------------------------------------------------------
(* The theorems.                                                           *)

LEMMA LogRingInit == Init => IInv
<1> SUFFICES ASSUME Init PROVE IInv
  OBVIOUS
<1>1. TypeOK
  <2>1. 0 \in Slots /\ <<>> \in Seq(Nat)
    BY LogAssumption DEF Slots
  <2> QED BY <2>1 DEF Init, TypeOK, Slots, Contexts, Locks, Places, Jobs
<1>2. Control
  BY DEF Init, Control, Interrupted, Kept, HeldBy, Working, Masking, InLock, Contexts, Locks
<1>3. Waiting = <<>>
  <2>1. Waiting = Between(buffer, head, tail)
    BY DEF Waiting, Between, Size, Place
  <2>2. Size(head, tail) = 0
    BY <1>1, SizeIs DEF Init, TypeOK
  <2>3. Waiting \in Seq(Nat) /\ Len(Waiting) = 0
    BY <1>1, <2>1, <2>2, BetweenSeq DEF TypeOK
  <2> QED BY <2>3, EmptySeq
<1>4. InHand = <<>>
  BY DEF Init, InHand, Holding, Contexts
<1> QED BY <1>1, <1>2, <1>3, <1>4 DEF Init, IInv, Stored, PrintedInOrder

LEMMA LogRingStep == IInv /\ [Next]_vars => IInv'
<1> SUFFICES ASSUME IInv, [Next]_vars PROVE IInv'
  OBVIOUS
<1>1. TypeOK' /\ Control'
  BY TypesStep, ControlStep, FirstStored DEF IInv, Control
<1> USE DEF SameHand, Holding, Contexts
<1>2. CASE Write("svc") \/ Write("irq")
  BY <1>1, <1>2, WriteOrder DEF IInv
<1>3. CASE Read("svc") \/ Read("irq")
  BY <1>1, <1>3, ReadOrder DEF IInv
<1>4. CASE PrintText("svc") \/ PrintText("irq")
  BY <1>1, <1>4, PrintOrder DEF IInv
<1>5. CASE Log \/ Printk \/ SetIrq \/ Flush \/ Tick \/ UNCHANGED vars
  <2> USE DEF IInv, TypeOK, Control, Working, Aside, ring
  <2>1. CASE Log
    BY <1>1, <2>1, AsideStep DEF Log, Start
  <2>2. CASE Printk
    BY <1>1, <2>2, AsideStep DEF Printk, Start
  <2>3. CASE SetIrq
    BY <1>1, <2>3, AsideStep DEF SetIrq
  <2>4. CASE Flush
    BY <1>1, <2>4, AsideStep DEF Flush
  <2>5. CASE Tick
    BY <1>1, <2>5, AsideStep DEF Tick
  <2>6. CASE UNCHANGED vars
    BY <1>1, <2>6, AsideStep DEF vars
  <2> QED BY <1>5, <2>1, <2>2, <2>3, <2>4, <2>5, <2>6
<1>6. ASSUME NEW c \in Contexts,
             Consume(c) \/ Consumed(c) \/ ReadCpsr(c) \/ Mask(c) \/ Take(c) \/ Release(c)
      PROVE  IInv'
  <2> USE DEF IInv, TypeOK, Control, Working, Aside, ring
  <2>1. CASE Consume(c)
    BY <1>1, <2>1, AsideStep DEF Consume, Start
  <2>2. CASE Consumed(c)
    BY <1>1, <2>2, AsideStep DEF Consumed
  <2>3. CASE ReadCpsr(c)
    BY <1>1, <2>3, AsideStep DEF ReadCpsr
  <2>4. CASE Mask(c)
    BY <1>1, <2>4, AsideStep DEF Mask
  <2>5. CASE Take(c)
    BY <1>1, <2>5, AsideStep DEF Take
  <2>6. CASE Release(c)
    BY <1>1, <2>6, AsideStep DEF Release, Start
  <2> QED BY <1>6, <2>1, <2>2, <2>3, <2>4, <2>5, <2>6
<1> QED BY <1>2, <1>3, <1>4, <1>5, <1>6 DEF Next, Step

\* The inductive invariant of the log.
THEOREM LogRingInvariant == Spec => []IInv
BY LogRingInit, LogRingStep, PTL DEF Spec

\* Every message the ring accepts is printed once and in order, whatever the
\* tick interrupts, for every length of the ring (log.c, ring_buffer_write,
\* ring_buffer_read and log_consume).
THEOREM LogInOrder == Spec => []PrintedInOrder
<1>1. IInv => PrintedInOrder
  BY DEF IInv
<1> QED BY <1>1, LogRingInvariant, PTL

\* No context of the one CPU finds a lock taken, and the mask that spinlock_release
\* puts back is the one the interrupted code had (spinlock.c).
THEOREM LogLocksMask == Spec => []LocksMask
<1>1. IInv => NeverSpins
  BY DEF IInv, TypeOK, Control, Interrupted, HeldBy, Masking, InLock, NeverSpins, Runs,
         Contexts, Locks, LockOf
<1>2. IInv => MaskRestored
  BY DEF IInv, TypeOK, Control, Interrupted, Masking, MaskRestored
<1> QED BY <1>1, <1>2, LogRingInvariant, PTL DEF LocksMask
===============================================================================

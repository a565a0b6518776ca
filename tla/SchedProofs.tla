------------------------------ MODULE SchedProofs ------------------------------
(***************************************************************************)
(* The safety of Sched, and that it implements Lifecycle, for every size   *)
(* of the process table, every tick period, every longest sleep and every *)
(* span of the clock.                                                      *)
(*                                                                         *)
(* First what the operators of Sched return.  Then IInv, which is          *)
(* inductive: there is a lemma for each action, with a step for each part  *)
(* of IInv the action disturbs; most actions leave every process what it   *)
(* is (SameKind), and for these QuietStep deals with the parts about the   *)
(* process table and the sleep queue at once.  At the end the refinement:  *)
(* each step of the kernel is one of the abstract steps in the life of     *)
(* processes, or changes nobody's life; a quiet step can only hand the     *)
(* processor on.                                                           *)
(***************************************************************************)
EXTENDS Sched, FunctionTheorems, SequenceTheorems, WellFoundedInduction, TLAPS

(* What the operators return: the scan of get_next_process, the search for a    *)
(* free slot and for a pid, the sleep queue without or with a process.          *)

\* The constants and the slots, as the provers need them.
LEMMA SlotFacts ==
  /\ MaxProcesses \in Nat /\ MaxProcesses >= 2
  /\ \A p \in Procs : p \in Int /\ 0 <= p /\ p < MaxProcesses
  /\ NullProc \in Procs /\ InitProc \in Procs
  /\ NULL \notin Procs
BY SchedAssumption DEF Procs, NullProc, InitProc

\* A non-empty set of naturals has a least element.
LEMMA LeastNat ==
  ASSUME NEW T, T \subseteq Nat, T # {}
  PROVE  \E x \in T : \A y \in T : x <= y
<1> DEFINE R == {ss \in Nat \X Nat : ss[1] < ss[2]}
<1>1. IsWellFoundedOn(R, Nat)
  BY NatLessThanWellFounded DEF OpToRel
<1>2. \A x, y \in T : ~ (<<y, x>> \in R) => x <= y
  OBVIOUS
<1> HIDE DEF R
<1>3. PICK x \in T : \A y \in T : ~ (<<y, x>> \in R)
  BY <1>1, WFMin
<1> QED BY <1>2, <1>3

\* The scan of get_next_process ends at a READY slot when there is one.
LEMMA NextIsReady ==
  ASSUME pid \in [Procs -> Procs], current \in PtrTo(Procs), Ready # {}
  PROVE  NextProcess \in Ready
<1>1. \A p \in Procs : ScanDistance(p) \in Nat
  <2> SUFFICES ASSUME NEW p \in Procs PROVE ScanDistance(p) \in Nat
    OBVIOUS
  <2>1. ScanStart \in 0 .. (MaxProcesses - 1)
    BY SlotFacts DEF ScanStart, PtrTo, Procs
  <2>2. p + MaxProcesses - ScanStart \in Int
    BY <2>1, SlotFacts
  <2> HIDE DEF ScanStart
  <2> QED BY <2>2, SlotFacts DEF ScanDistance
<1> DEFINE T == {ScanDistance(p) : p \in Ready}
<1>2. Ready \subseteq Procs
  BY DEF Ready
<1>3. T \subseteq Nat /\ T # {}
  BY <1>1, <1>2
<1>4. PICK x \in T : \A y \in T : x <= y
  BY <1>3, LeastNat
<1>5. \E p \in Ready : \A q \in Ready : ScanDistance(p) <= ScanDistance(q)
  BY <1>4
<1> QED BY <1>5 DEF NextProcess

\* get_available_process returns the slot whose number is the next pid.
LEMMA FirstFreeSlot ==
  ASSUME PidIsSlot, FreeSlots # {}, curr_pid \in 0 .. MaxProcesses
  PROVE  /\ curr_pid \in Procs /\ state[curr_pid] = "NONE"
         /\ (CHOOSE c \in FreeSlots : \A q \in FreeSlots : c <= q) = curr_pid
<1>1. curr_pid \in FreeSlots /\ \A q \in FreeSlots : curr_pid <= q
  BY SlotFacts DEF PidIsSlot, FreeSlots, Procs
<1>2. \A c \in FreeSlots : (\A q \in FreeSlots : c <= q) => c = curr_pid
  BY <1>1, SlotFacts DEF FreeSlots
<1> QED BY <1>1, <1>2 DEF FreeSlots

\* get_process_by_pid finds the process that has the pid, or nothing.
LEMMA PidFindsSlot ==
  ASSUME PidIsSlot, curr_pid \in 1 .. MaxProcesses, NEW n \in Procs
  PROVE  /\ WithPid(n) # {} => n < curr_pid
         /\ WithPid(n) # {} => ByPid(n) = n
<1> SUFFICES ASSUME WithPid(n) # {}
             PROVE  n < curr_pid /\ ByPid(n) = n
  OBVIOUS
<1>1. n < curr_pid
  BY SlotFacts DEF PidIsSlot, WithPid, Procs
<1>2. n \in WithPid(n) /\ \A q \in WithPid(n) : n <= q
  BY <1>1, SlotFacts DEF PidIsSlot, WithPid, Procs
<1>3. \A p \in WithPid(n) : (\A q \in WithPid(n) : p <= q) => p = n
  BY <1>2, SlotFacts DEF WithPid
<1> QED BY <1>1, <1>2, <1>3 DEF ByPid

\* The queue without its k-th entry: the others, each once.
LEMMA WithoutOne ==
  ASSUME NEW q \in Seq(Procs), NEW k \in 1 .. Len(q),
         \A a, b \in DOMAIN q : q[a] = q[b] => a = b
  PROVE  /\ Without(q, k) \in Seq(Procs)
         /\ \A a, b \in DOMAIN Without(q, k) :
              Without(q, k)[a] = Without(q, k)[b] => a = b
         /\ \A p \in Procs :
              (\E a \in DOMAIN Without(q, k) : Without(q, k)[a] = p)
                <=> p # q[k] /\ \E a \in DOMAIN q : q[a] = p
<1>1. /\ Len(q) \in Nat /\ DOMAIN q = 1 .. Len(q)
      /\ \A a \in 1 .. Len(q) : q[a] \in Procs
  BY LenProperties, ElementOfSeq
<1> DEFINE N == Len(q)
           w == Without(q, k)
           Src(j) == IF j = k THEN N ELSE j
<1>2. N \in Nat /\ k \in 1 .. N
  BY <1>1
<1>3. /\ DOMAIN w = 1 .. (N - 1)
      /\ \A j \in 1 .. (N - 1) : w[j] = q[Src(j)] /\ Src(j) \in 1 .. N /\ Src(j) # k
      /\ \A a, b \in 1 .. (N - 1) : Src(a) = Src(b) => a = b
      /\ \A a \in 1 .. N : a # k => \E j \in 1 .. (N - 1) : Src(j) = a
  <2>1. DOMAIN w = 1 .. (N - 1) /\ \A j \in 1 .. (N - 1) : w[j] = q[Src(j)]
    BY DEF Without
  <2> HIDE DEF w
  <2>2. \A j \in 1 .. (N - 1) : Src(j) \in 1 .. N /\ Src(j) # k
    BY <1>2
  <2>3. \A a, b \in 1 .. (N - 1) : Src(a) = Src(b) => a = b
    BY <1>2
  <2>4. ASSUME NEW a \in 1 .. N, a # k PROVE \E j \in 1 .. (N - 1) : Src(j) = a
    <3>1. CASE a = N
      <4>1. k \in 1 .. (N - 1) /\ Src(k) = a
        BY <1>2, <2>4, <3>1
      <4> QED BY <4>1
    <3>2. CASE a # N
      <4>1. a \in 1 .. (N - 1) /\ Src(a) = a
        BY <1>2, <2>4, <3>2
      <4> QED BY <4>1
    <3> QED BY <3>1, <3>2
  <2> QED BY <2>1, <2>2, <2>3, <2>4
<1> HIDE DEF w, Src, N
<1>4. \A a \in 1 .. (N - 1) : w[a] \in Procs
  BY <1>1, <1>3 DEF N
<1>5. w \in Seq(Procs)
  <2>1. N - 1 \in Nat
    BY <1>2
  <2>2. w = [j \in 1 .. (N - 1) |-> w[j]]
    BY <1>3 DEF w, Without
  <2> QED BY <2>1, <2>2, <1>4, IsASeq
<1>6. \A a, b \in DOMAIN w : w[a] = w[b] => a = b
  BY <1>1, <1>3 DEF N
<1>7. ASSUME NEW p \in Procs
      PROVE  (\E a \in DOMAIN w : w[a] = p) <=> p # q[k] /\ \E a \in DOMAIN q : q[a] = p
  <2>1. ASSUME NEW a \in DOMAIN w, w[a] = p
        PROVE  p # q[k] /\ \E b \in DOMAIN q : q[b] = p
    BY <1>1, <1>2, <1>3, <2>1 DEF N
  <2>2. ASSUME NEW b \in DOMAIN q, q[b] = p, p # q[k]
        PROVE  \E a \in DOMAIN w : w[a] = p
    BY <1>1, <1>2, <1>3, <2>2 DEF N
  <2> QED BY <2>1, <2>2
<1> QED BY <1>5, <1>6, <1>7 DEF w

\* A process that joins a queue it is not in is in it once, at its end.
LEMMA QueueAppend ==
  ASSUME NEW q \in Seq(Procs), NEW p \in Procs,
         \A a, b \in DOMAIN q : q[a] = q[b] => a = b,
         \A a \in DOMAIN q : q[a] # p
  PROVE  /\ Append(q, p) \in Seq(Procs)
         /\ \A a, b \in DOMAIN Append(q, p) :
              Append(q, p)[a] = Append(q, p)[b] => a = b
         /\ \A r \in Procs : (\E a \in DOMAIN Append(q, p) : Append(q, p)[a] = r)
                               <=> r = p \/ \E a \in DOMAIN q : q[a] = r
<1> DEFINE N == Len(q)
           w == Append(q, p)
<1>1. /\ N \in Nat /\ DOMAIN q = 1 .. N /\ DOMAIN w = 1 .. (N + 1)
      /\ w \in Seq(Procs) /\ w[N + 1] = p
      /\ \A a \in 1 .. N : w[a] = q[a]
  BY AppendProperties, LenProperties
<1> HIDE DEF N, w
<1>2. \A a \in DOMAIN w : a = N + 1 \/ (a \in DOMAIN q /\ a \in 1 .. N)
  BY <1>1
<1>3. \A a \in DOMAIN q : a \in DOMAIN w
  BY <1>1
<1>4. N + 1 \in DOMAIN w
  BY <1>1
<1>5. \A a, b \in DOMAIN w : w[a] = w[b] => a = b
  BY <1>1, <1>2
<1>6. \A r \in Procs : (\E a \in DOMAIN w : w[a] = r)
                         <=> r = p \/ \E a \in DOMAIN q : q[a] = r
  BY <1>1, <1>2, <1>3, <1>4
<1> QED BY <1>1, <1>5, <1>6 DEF w

\* Numbers other than p, the ones below it moved up by one, stay different.
LEMMA SkipOne ==
  ASSUME NEW p \in Int, NEW x \in Int, NEW y \in Int, x # p, y # p,
         (IF x > p THEN x ELSE x + 1) = (IF y > p THEN y ELSE y + 1)
  PROVE  x = y
OBVIOUS

\* While a process does not sleep there is room for it in the queue.
LEMMA QueueHasRoom ==
  ASSUME sleep_queue \in Seq(Procs), SleepQueueExact,
         NEW p \in Procs, state[p] # "SLEEPING"
  PROVE  Len(sleep_queue) < MaxProcesses
<1> DEFINE N == Len(sleep_queue)
           f == [k \in 1 .. N |-> IF sleep_queue[k] > p THEN sleep_queue[k]
                                  ELSE sleep_queue[k] + 1]
<1>1. /\ N \in Nat /\ DOMAIN sleep_queue = 1 .. N
      /\ \A k \in 1 .. N : sleep_queue[k] \in Procs
  BY LenProperties, ElementOfSeq
<1>2. \A k \in 1 .. N : sleep_queue[k] # p
  BY <1>1 DEF SleepQueueExact
<1>3. \A k \in 1 .. N :
        /\ sleep_queue[k] \in Int /\ 0 <= sleep_queue[k]
        /\ sleep_queue[k] < MaxProcesses /\ sleep_queue[k] # p
        /\ f[k] = IF sleep_queue[k] > p THEN sleep_queue[k] ELSE sleep_queue[k] + 1
  BY <1>1, <1>2, SlotFacts
<1>4. /\ \A k \in 1 .. N : f[k] \in 1 .. (MaxProcesses - 1)
      /\ \A j, k \in 1 .. N : f[j] = f[k] => sleep_queue[j] = sleep_queue[k]
  <2>1. p \in Int /\ 0 <= p /\ p < MaxProcesses /\ MaxProcesses \in Nat
    BY SlotFacts
  <2> HIDE DEF f
  <2>2. ASSUME NEW k \in 1 .. N PROVE f[k] \in 1 .. (MaxProcesses - 1)
    BY <1>3, <2>1
  <2>3. ASSUME NEW j \in 1 .. N, NEW k \in 1 .. N, f[j] = f[k]
        PROVE  sleep_queue[j] = sleep_queue[k]
    <3>1. /\ f[j] = IF sleep_queue[j] > p THEN sleep_queue[j] ELSE sleep_queue[j] + 1
          /\ sleep_queue[j] \in Int /\ sleep_queue[j] # p
      BY <1>3
    <3>2. /\ f[k] = IF sleep_queue[k] > p THEN sleep_queue[k] ELSE sleep_queue[k] + 1
          /\ sleep_queue[k] \in Int /\ sleep_queue[k] # p
      BY <1>3
    <3> QED BY <2>1, <2>3, <3>1, <3>2, SkipOne
  <2> QED BY <2>2, <2>3
<1>5. \A j, k \in 1 .. N : f[j] = f[k] => j = k
  BY <1>1, <1>4 DEF SleepQueueExact
<1>6. f \in Injection(1 .. N, 1 .. (MaxProcesses - 1))
  BY <1>4, <1>5 DEF Injection, IsInjective
<1>7. ExistsInjection(1 .. N, 1 .. (MaxProcesses - 1))
  BY <1>6 DEF ExistsInjection
<1>8. MaxProcesses - 1 \in Nat
  BY SlotFacts
<1>9. N <= MaxProcesses - 1
  BY <1>1, <1>7, <1>8, Fun_NatInjLeq
<1> QED BY <1>1, <1>9, SlotFacts

-------------------------------------------------------------------------------
(* The invariant.                                                          *)

\* The inductive invariant.
IInv ==
  /\ TypeOK /\ PidIsSlot /\ SleepQueueExact /\ SweepMissesNobody
  /\ WaiterStaysBlocked /\ RunsAsItself /\ NoCurrentOnlyWhenScheduling
  /\ ImpossiblePanics
  /\ Consistent

-------------------------------------------------------------------------------
(* What most steps do to the table: nothing that matters to others.        *)

\* No process comes to be, dies, falls asleep, wakes up, blocks or is unblocked.
SameKind ==
  \A p \in Procs : \A s \in {"NONE", "SLEEPING", "BLOCKED", "KILLED"} :
    state'[p] = s <=> state[p] = s

\* Waiters survives any step that revives no dead process.
LEMMA WaitersStay ==
  ASSUME TableTypes, Waiters, UNCHANGED <<ppid, waiting_parent>>,
         \A p \in Procs : state[p] = "KILLED" => state'[p] = "KILLED"
  PROVE  Waiters'
<1> SUFFICES ASSUME NEW c \in Procs, waiting_parent[c] # NULL
             PROVE  /\ ppid[c] = waiting_parent[c] /\ waiting_parent[c] # NullProc
                    /\ state'[c] # "KILLED" => \A d \in Procs :
                         waiting_parent[d] = waiting_parent[c] /\ state'[d] # "KILLED"
                           => d = c
  BY DEF Waiters
<1> QED BY DEF Waiters

\* WaiterStaysBlocked survives any step that also unblocks nobody.
LEMMA BlockedStay ==
  ASSUME TableTypes, WaiterStaysBlocked, UNCHANGED waiting_parent,
         \A p \in Procs : state[p] = "KILLED" => state'[p] = "KILLED",
         \A p \in Procs : state[p] = "BLOCKED" => state'[p] = "BLOCKED"
  PROVE  WaiterStaysBlocked'
<1> SUFFICES ASSUME NEW c \in Procs, waiting_parent[c] # NULL, state'[c] # "KILLED"
             PROVE  state'[waiting_parent[c]] = "BLOCKED"
  BY DEF WaiterStaysBlocked
<1>1. waiting_parent[c] \in Procs
  BY DEF TableTypes, PtrTo
<1> QED BY <1>1 DEF WaiterStaysBlocked

\* The steps that leave all processes what they are.
Quiet ==
  \/ TimerIrqUser \/ TimerIrqKernel \/ Clock \/ SweepSkip \/ SweepDone
  \/ Pick \/ Switch \/ Resume \/ Return \/ Restore \/ ExecDone
  \/ \E p \in Procs :
       \/ GetPid(p)
       \/ Yield(p)
       \/ \E n \in Procs : WaitpidFails(p, n)
       \/ ForkTableFull(p)
       \/ ForkNoMemory(p)
       \/ ForkMap(p)
       \/ ExecFails(p)
       \/ ExecNoMemory(p)
       \/ ExecMap(p)

Kept == SameKind /\ UNCHANGED <<pid, ppid, waiting_parent, sleep_queue, curr_pid>>

\* A live process that stays live is what it was.
LEMMA LiveToLive ==
  ASSUME TableTypes, NEW p \in Procs, state[p] \in Live,
         NEW s \in Live, state' = [state EXCEPT ![p] = s]
  PROVE  SameKind
BY DEF TableTypes, Live, SameKind

\* They are: a system call that changes the state of its caller, a tick, a switch
\* and the end of exec find it live and leave it live.
LEMMA QuietActions ==
  ASSUME IInv, Quiet
  PROVE  Kept
<1>1. CASE TimerIrqUser \/ TimerIrqKernel
  <2>1. Tick /\ (pc = "user" \/ irq)
    BY <1>1 DEF TimerIrqUser, TimerIrqKernel
  <2>2. current = NULL \/ (current \in Procs /\ state[current] \in Live)
    BY <2>1 DEF IInv, TypeOK, Consistent, SchedulerTypes, PtrTo, CurrentLive
  <2>3. state' = state \/ (current # NULL /\ state' = [state EXCEPT ![current] = "READY"])
    <3>1. CASE tick' = 0
      BY <2>1, <3>1 DEF Tick
    <3>2. CASE tick' # 0
      BY <2>1, <3>2 DEF Tick
    <3> QED BY <3>1, <3>2
  <2>4. SameKind
    <3>1. CASE state' = state
      BY <3>1 DEF SameKind
    <3>2. CASE current # NULL /\ state' = [state EXCEPT ![current] = "READY"]
      BY <2>2, <3>2, LiveToLive DEF IInv, TypeOK, Live
    <3> QED BY <2>3, <3>1, <3>2
  <2> QED BY <2>1, <2>4 DEF Kept, Tick
<1>2. CASE Switch
  <2>1. next_process \in Procs /\ state[next_process] = "READY"
    BY <1>2 DEF IInv, TypeOK, Consistent, SchedulerTypes, PtrTo, CurrentLoaded,
       Switch
  <2>2. SameKind
    BY <1>2, <2>1, LiveToLive DEF IInv, TypeOK, Live, Switch
  <2> QED BY <1>2, <2>2 DEF Kept, Switch
<1>3. CASE ExecDone
  <2>1. current \in Procs /\ state[current] \in Live
    BY <1>3 DEF IInv, TypeOK, Consistent, SchedulerTypes, PtrTo, CurrentLive,
       NoCurrentOnlyWhenScheduling, Scheduling, ExecDone
  <2>2. SameKind
    BY <1>3, <2>1, LiveToLive DEF IInv, TypeOK, Live, ExecDone
  <2> QED BY <1>3, <2>2 DEF Kept, ExecDone
<1>4. ASSUME NEW p \in Procs, Yield(p) \/ ExecNoMemory(p) \/ ExecMap(p)
      PROVE  Kept
  <2>1. state[p] \in Live
    BY <1>4, SlotFacts DEF IInv, Consistent, CurrentLive, Scheduling, Caller,
       Yield, ExecNoMemory, ExecMap, ExecPoint
  <2>2. \E s \in Live : state' = [state EXCEPT ![p] = s]
    BY <1>4 DEF Live, Yield, ExecNoMemory, ExecMap, ExecPoint
  <2>3. SameKind
    BY <2>1, <2>2, LiveToLive DEF IInv, TypeOK
  <2> QED BY <1>4, <2>3 DEF Kept, Yield, ExecNoMemory, ExecMap, ExecPoint
<1>5. CASE Clock \/ SweepSkip \/ SweepDone \/ Pick \/ Resume \/ Return \/ Restore
  BY <1>5 DEF Kept, SameKind, Clock, SweepSkip, SweepDone, Pick, Resume, Return,
     Restore, table
<1>6. ASSUME NEW p \in Procs,
             \/ GetPid(p) \/ \E n \in Procs : WaitpidFails(p, n)
             \/ ForkTableFull(p) \/ ForkNoMemory(p) \/ ForkMap(p) \/ ExecFails(p)
      PROVE  Kept
  BY <1>6 DEF Kept, SameKind, GetPid, WaitpidFails, ForkTableFull, ForkNoMemory,
     ForkMap, ExecFails, table
<1> QED BY <1>1, <1>2, <1>3, <1>4, <1>5, <1>6 DEF Quiet

\* The part of the invariant that is about the process table and the queue.
Slots == PidIsSlot /\ UnusedBlank /\ SleepQueueExact /\ WaiterStaysBlocked /\ Waiters

\* A step that leaves all processes what they are preserves it.
LEMMA QuietStep ==
  ASSUME IInv, Kept
  PROVE  Slots'
<1>1. Waiters'
  BY WaitersStay DEF IInv, TypeOK, Consistent, Kept, SameKind
<1>2. WaiterStaysBlocked'
  BY BlockedStay DEF IInv, TypeOK, Consistent, Kept, SameKind
<1>3. SleepQueueExact'
  BY DEF IInv, SleepQueueExact, Kept, SameKind
<1>4. PidIsSlot'
  BY DEF IInv, PidIsSlot, Kept, SameKind
<1>5. UnusedBlank'
  BY DEF IInv, Consistent, UnusedBlank, Kept
<1> QED BY <1>1, <1>2, <1>3, <1>4, <1>5 DEF Slots

\* A store of a number to a saved r0 leaves a number or junk there.
LEMMA StoreType ==
  ASSUME MemoryTypes, NEW q \in Procs, NEW v \in Int
  PROVE  StoreR0(q, v) \in [Procs -> Int \cup {Junk}]
BY DEF MemoryTypes, StoreR0

-------------------------------------------------------------------------------
(* The steps, one after the other.                                         *)

\* The timer interrupts a program: the tick, then userspace_return.
LEMMA TimerIrqUserStep ==
  ASSUME IInv, TimerIrqUser
  PROVE  IInv'
<1>1. MemoryTypes' /\ ClockTypes' /\ ImpossiblePanics'
  BY DEF IInv, TypeOK, Consistent, MemoryTypes, ClockTypes, ImpossiblePanics,
     TimerIrqUser, Tick, memory, loop, clock
<1>2. Slots'
  BY QuietActions, QuietStep DEF Quiet
<1>3. TableTypes'
  BY DEF IInv, TypeOK, TableTypes, States, PtrTo, TimerIrqUser, Tick, memory,
     loop, clock
<1>4. SchedulerTypes'
  <2>1. tick' \in 0 .. (PreemptTicks - 1)
    BY SchedAssumption DEF IInv, TypeOK, SchedulerTypes, TimerIrqUser, Tick
  <2> QED BY <2>1 DEF IInv, TypeOK, SchedulerTypes, TimerIrqUser, Tick
<1>5. PlaceTypes'
  BY DEF IInv, TypeOK, PlaceTypes, Reasons, PtrTo, KernelPCs, TimerIrqUser,
     Tick, memory, loop, clock
<1>6. RunsAsItself'
  BY DEF IInv, TypeOK, TableTypes, MemoryTypes, SchedulerTypes, PlaceTypes,
     PtrTo, RunsAsItself, KernelPCs, TimerIrqUser, Tick, memory, loop, clock
<1>7. NoCurrentOnlyWhenScheduling'
  BY DEF IInv, NoCurrentOnlyWhenScheduling, TimerIrqUser, Tick, memory, loop,
     clock
<1>8. CurrentLive'
  BY DEF IInv, Consistent, TypeOK, TableTypes, SchedulerTypes, PlaceTypes,
     PtrTo, CurrentLive, Live, Scheduling, KernelPCs, RunsAsItself,
     CurrentLoaded, PidIsSlot, TimerIrqUser, Tick, memory, loop, clock
<1>9. NullReady'
  BY SlotFacts DEF IInv, Consistent, TypeOK, TableTypes, PtrTo, NullReady,
     PidIsSlot, Waiters, TimerIrqUser, Tick, memory, loop, clock
<1>10. CurrentLoaded'
  BY DEF IInv, Consistent, TypeOK, TableTypes, MemoryTypes, SchedulerTypes,
     PlaceTypes, PtrTo, CurrentLoaded, Scheduling, KernelPCs, TimerIrqUser,
     Tick, memory, loop, clock
<1>11. ForkSlot'
  BY DEF IInv, Consistent, ForkSlot, TimerIrqUser, Tick, memory, loop, clock
<1>12. Deadlines' /\ SweepMissesNobody'
  BY DEF IInv, Consistent, Deadlines, SweepMissesNobody, Expired, TimerIrqUser,
     Tick, memory, loop, clock
<1>13. ForkResults'
  BY DEF IInv, Consistent, ForkResults, TimerIrqUser, Tick, memory, loop, clock
<1> QED BY <1>1, <1>2, <1>3, <1>4, <1>5, <1>6, <1>7, <1>8, <1>9, <1>10,
   <1>11, <1>12, <1>13 DEF IInv, TypeOK, Consistent, Slots

\* The timer interrupts the kernel, where IRQs are enabled.
LEMMA TimerIrqKernelStep ==
  ASSUME IInv, TimerIrqKernel
  PROVE  IInv'
<1>1. MemoryTypes' /\ PlaceTypes' /\ ClockTypes' /\ ImpossiblePanics' /\
      ForkSlot' /\ Deadlines' /\ ForkResults'
  BY DEF IInv, TypeOK, Consistent, MemoryTypes, PlaceTypes, ClockTypes,
     ImpossiblePanics, ForkSlot, Deadlines, Expired, ForkResults, TimerIrqKernel,
     Tick, memory, loop, clock
<1>2. Slots'
  BY QuietActions, QuietStep DEF Quiet
<1>3. TableTypes'
  BY DEF IInv, TypeOK, TableTypes, States, PtrTo, KernelPCs, TimerIrqKernel,
     Tick, memory, loop, clock
<1>4. SchedulerTypes'
  <2>1. tick' \in 0 .. (PreemptTicks - 1)
    BY SchedAssumption DEF IInv, TypeOK, SchedulerTypes, TimerIrqKernel, Tick
  <2> QED BY <2>1 DEF IInv, TypeOK, SchedulerTypes, TimerIrqKernel, Tick
<1>5. RunsAsItself'
  BY DEF IInv, TypeOK, TableTypes, MemoryTypes, SchedulerTypes, PlaceTypes,
     PtrTo, RunsAsItself, KernelPCs, TimerIrqKernel, Tick, memory, loop, clock
<1>6. NoCurrentOnlyWhenScheduling'
  BY DEF IInv, NoCurrentOnlyWhenScheduling, KernelPCs, TimerIrqKernel, Tick,
     memory, loop, clock
<1>7. CurrentLive'
  BY DEF IInv, Consistent, TypeOK, TableTypes, SchedulerTypes, PlaceTypes,
     PtrTo, CurrentLive, Live, Scheduling, KernelPCs, TimerIrqKernel, Tick,
     memory, loop, clock
<1>8. NullReady'
  BY SlotFacts DEF IInv, Consistent, TypeOK, TableTypes, PtrTo, NullReady,
     KernelPCs, PidIsSlot, Waiters, TimerIrqKernel, Tick, memory, loop, clock
<1>9. CurrentLoaded'
  BY DEF IInv, Consistent, TypeOK, TableTypes, MemoryTypes, SchedulerTypes,
     PlaceTypes, PtrTo, CurrentLoaded, Scheduling, KernelPCs, TimerIrqKernel,
     Tick, memory, loop, clock
<1>10. SweepMissesNobody'
  <2>1. SameKind
    BY QuietActions DEF Quiet, Kept
  <2> QED BY <2>1 DEF IInv, SweepMissesNobody, Expired, SameKind, TimerIrqKernel,
             Tick, loop, clock
<1> QED BY <1>1, <1>2, <1>3, <1>4, <1>5, <1>6, <1>7, <1>8, <1>9, <1>10 DEF IInv,
   TypeOK, Consistent, Slots

\* Time passes, or starts again: no sleep is over by the clock too early.
LEMMA ClockStep ==
  ASSUME IInv, Clock
  PROVE  IInv'
<1>1. TableTypes' /\ SchedulerTypes' /\ PlaceTypes' /\ MemoryTypes' /\
      RunsAsItself' /\ NoCurrentOnlyWhenScheduling' /\ ImpossiblePanics' /\
      CurrentLive' /\ NullReady' /\ CurrentLoaded' /\ ForkSlot' /\ ForkResults'
  BY DEF IInv, TypeOK, Consistent, TableTypes, SchedulerTypes, PlaceTypes,
     MemoryTypes, RunsAsItself, NoCurrentOnlyWhenScheduling, ImpossiblePanics,
     CurrentLive, NullReady, CurrentLoaded, ForkSlot, ForkResults, Clock, table,
     memory, loop
<1>2. Slots' /\ SweepMissesNobody'
  BY QuietActions, QuietStep DEF IInv, Quiet, SweepMissesNobody, Expired, Clock,
     table, loop
<1>3. now \in 0 .. (ClockSpan - 1) /\ now' \in 0 .. (ClockSpan - 1) /\ now' <= now + 1
  <2>1. ClockSpan \in Nat /\ ClockSpan > 0 /\ now \in 0 .. (ClockSpan - 1)
    BY SchedAssumption DEF IInv, TypeOK, ClockTypes
  <2>2. CASE now = ClockSpan - 1
    <3>1. now' = 0
      BY <2>1, <2>2 DEF Clock
    <3> QED BY <2>1, <3>1
  <2>3. CASE now # ClockSpan - 1
    <3>1. now' = now + 1
      BY <2>1, <2>3 DEF Clock
    <3> QED BY <2>1, <2>3, <3>1
  <2> QED BY <2>2, <2>3
<1>4. \A p \in Procs : /\ wake[p] \in 0 .. MaxNap
                       /\ wake'[p] = IF wake[p] > 0 THEN wake[p] - 1 ELSE 0
  BY DEF IInv, TypeOK, ClockTypes, Clock
<1>5. ClockTypes'
  <2>1. wake' \in [Procs -> 0 .. MaxNap]
    BY <1>4, SchedAssumption DEF Clock
  <2> QED BY <1>3, <2>1 DEF IInv, TypeOK, ClockTypes, Clock, loop
<1>6. Deadlines'
  <2>1. \A p \in Procs : wake_ticks[p] \in Nat
    BY DEF IInv, TypeOK, ClockTypes
  <2>2. \A p \in Procs : wake'[p] > 0 => wake_ticks[p] >= now' + wake'[p]
    BY <1>3, <1>4, <2>1, SchedAssumption DEF IInv, Consistent, Deadlines
  <2>3. \A p \in Procs : wake'[p] > 0 => wake[p] > 0
    BY <1>4
  <2> QED BY <2>2, <2>3 DEF IInv, Consistent, Deadlines, Expired, Clock, loop
<1> QED BY <1>1, <1>2, <1>5, <1>6 DEF IInv, TypeOK, Consistent, Slots

\* When the sweep starts, no sleep is over by the clock that has time left, and no
\* entry of the queue has been passed by.
LEMMA NobodyDueEarly ==
  ASSUME IInv
  PROVE  /\ \A p \in Procs : wake[p] > 0 => ~(now >= wake_ticks[p])
         /\ \A k \in DOMAIN sleep_queue : ~(k < 1)
<1>1. \A p \in Procs : wake[p] \in Nat /\ wake_ticks[p] \in Nat
  BY DEF IInv, TypeOK, ClockTypes
<1>2. now \in Nat
  BY SchedAssumption DEF IInv, TypeOK, ClockTypes
<1>3. \A k \in DOMAIN sleep_queue : ~(k < 1)
  BY LenProperties DEF IInv, TypeOK, SchedulerTypes
<1> QED BY <1>1, <1>2, <1>3 DEF IInv, Consistent, Deadlines

\* The sweep takes a sleeper off the queue: one that is in it, once.
LEMMA SweepWakeStep ==
  ASSUME IInv, SweepWake
  PROVE  IInv'
<1>1. /\ i \in DOMAIN sleep_queue /\ i \in 1 .. Len(sleep_queue)
      /\ sleep_queue[i] \in Procs /\ state[sleep_queue[i]] = "SLEEPING"
  <2>1. i \in DOMAIN sleep_queue /\ i \in 1 .. Len(sleep_queue)
    BY LenProperties DEF IInv, TypeOK, SchedulerTypes, ClockTypes, SweepWake
  <2>2. sleep_queue[i] \in Procs
    BY <2>1, ElementOfSeq DEF IInv, TypeOK, SchedulerTypes
  <2> QED BY <2>1, <2>2 DEF IInv, SleepQueueExact
<1>2. \A p \in Procs : state'[p] = IF p = sleep_queue[i] THEN "READY" ELSE state[p]
  BY <1>1 DEF IInv, TypeOK, TableTypes, SweepWake
<1>3. /\ sleep_queue' \in Seq(Procs)
      /\ \A a, b \in DOMAIN sleep_queue' : sleep_queue'[a] = sleep_queue'[b] => a = b
      /\ \A p \in Procs : (\E a \in DOMAIN sleep_queue' : sleep_queue'[a] = p)
           <=> p # sleep_queue[i] /\ \E a \in DOMAIN sleep_queue : sleep_queue[a] = p
  <2>1. sleep_queue' = Without(sleep_queue, i) /\ sleep_queue \in Seq(Procs)
    BY DEF IInv, TypeOK, SchedulerTypes, SweepWake
  <2>2. \A a, b \in DOMAIN sleep_queue : sleep_queue[a] = sleep_queue[b] => a = b
    BY DEF IInv, SleepQueueExact
  <2> HIDE DEF Without
  <2> QED BY <1>1, <2>1, <2>2, WithoutOne
<1>4. MemoryTypes' /\ PlaceTypes' /\ UnusedBlank' /\ SweepMissesNobody' /\
      NoCurrentOnlyWhenScheduling' /\ ImpossiblePanics' /\ ForkSlot' /\ ForkResults'
  BY DEF IInv, TypeOK, Consistent, MemoryTypes, PlaceTypes, UnusedBlank,
     SweepMissesNobody, NoCurrentOnlyWhenScheduling, ImpossiblePanics, ForkSlot,
     ForkResults, SweepWake, memory, loop
<1>5. TableTypes'
  BY DEF IInv, TypeOK, TableTypes, States, PtrTo, SweepWake, memory, loop, clock
<1>6. SchedulerTypes'
  BY <1>3 DEF IInv, TypeOK, SchedulerTypes, SweepWake
<1>7. PidIsSlot'
  BY <1>1, <1>2 DEF IInv, PidIsSlot, SweepWake
<1>8. SleepQueueExact'
  <2>1. \A p \in Procs : state[p] = "SLEEPING" <=>
                          \E a \in DOMAIN sleep_queue : sleep_queue[a] = p
    BY DEF IInv, SleepQueueExact
  <2>2. \A p \in Procs : state'[p] = "SLEEPING" <=> p # sleep_queue[i] /\ state[p] = "SLEEPING"
    BY <1>1, <1>2
  <2> QED BY <1>3, <2>1, <2>2 DEF SleepQueueExact
<1>9. WaiterStaysBlocked'
  BY <1>1, <1>2, BlockedStay DEF IInv, TypeOK, SweepWake
<1>10. Waiters'
  BY <1>1, <1>2, WaitersStay DEF IInv, TypeOK, Consistent, SweepWake
<1>11. RunsAsItself'
  BY DEF IInv, RunsAsItself, SweepWake, memory, loop, clock
<1>12. CurrentLive'
  BY DEF IInv, Consistent, CurrentLive, Live, Scheduling, SweepWake, memory,
     loop, clock
<1>13. NullReady'
  BY DEF IInv, Consistent, NullReady, SweepWake, memory, loop, clock
<1>14. CurrentLoaded'
  BY DEF IInv, Consistent, CurrentLoaded, Scheduling, SweepWake, memory, loop,
     clock
<1>15. ClockTypes'
  <2>1. 0 \in 0 .. (ClockSpan - 1 + MaxNap)
    BY SchedAssumption
  <2> QED BY <2>1 DEF IInv, TypeOK, ClockTypes, SweepWake, loop
<1>16. wake[sleep_queue[i]] = 0
  BY <1>1 DEF IInv, TypeOK, Consistent, ClockTypes, Deadlines, SweepWake
<1>17. \A p \in Procs : p # sleep_queue[i] => wake_ticks'[p] = wake_ticks[p]
  BY DEF IInv, TypeOK, ClockTypes, SweepWake
<1>18. \A k \in DOMAIN sleep_queue' : k < i =>
         /\ k \in DOMAIN sleep_queue /\ sleep_queue'[k] = sleep_queue[k]
         /\ sleep_queue[k] \in Procs /\ sleep_queue[k] # sleep_queue[i]
  <2>1. sleep_queue \in Seq(Procs) /\ Len(sleep_queue) \in Nat
        /\ DOMAIN sleep_queue = 1 .. Len(sleep_queue) /\ i \in Nat
    BY LenProperties DEF IInv, TypeOK, SchedulerTypes, ClockTypes
  <2>2. DOMAIN sleep_queue' = 1 .. (Len(sleep_queue) - 1)
        /\ \A k \in 1 .. (Len(sleep_queue) - 1) :
             k # i => sleep_queue'[k] = sleep_queue[k]
    BY DEF SweepWake, Without
  <2>3. \A k \in DOMAIN sleep_queue : sleep_queue[k] \in Procs
    BY <2>1, ElementOfSeq
  <2>4. \A k \in DOMAIN sleep_queue : k # i => sleep_queue[k] # sleep_queue[i]
    BY <1>1 DEF IInv, SleepQueueExact
  <2> QED BY <2>1, <2>2, <2>3, <2>4
<1>19. Deadlines'
  <2>1. \A p \in Procs : wake[p] > 0 => p # sleep_queue[i] /\ ~Expired(p)
    BY <1>16 DEF IInv, Consistent, Deadlines, SweepWake
  <2>2. \A k \in DOMAIN sleep_queue' : k < i => ~Expired(sleep_queue[k])
    BY <1>18 DEF IInv, Consistent, Deadlines, SweepWake
  <2>3. UNCHANGED <<now, wake, pc, i, current_ticks>>
    BY DEF SweepWake, loop
  <2>4. \A p \in Procs : p # sleep_queue[i] /\ ~Expired(p) => ~Expired(p)'
    BY <1>17, <2>3 DEF Expired
  <2>5. \A p \in Procs : wake'[p] > 0 => wake_ticks'[p] >= now' + wake'[p]
    BY <1>17, <2>1, <2>3 DEF IInv, Consistent, Deadlines
  <2>6. \A p \in Procs : wake'[p] > 0 => ~Expired(p)'
    BY <2>1, <2>3, <2>4
  <2>7. \A k \in DOMAIN sleep_queue' : k < i' => ~Expired(sleep_queue[k])'
    BY <1>17, <1>18, <2>2, <2>3 DEF Expired
  <2> QED BY <2>5, <2>6, <2>7 DEF Deadlines
<1> QED BY <1>1, <1>2, <1>3, <1>4, <1>5, <1>6, <1>7, <1>8, <1>9, <1>10,
   <1>11, <1>12, <1>13, <1>14, <1>15, <1>19 DEF IInv, TypeOK, Consistent

\* The sweep passes by a sleeper.
LEMMA SweepSkipStep ==
  ASSUME IInv, SweepSkip
  PROVE  IInv'
<1>1. TableTypes' /\ MemoryTypes' /\ SchedulerTypes' /\ PlaceTypes' /\
      RunsAsItself' /\ NoCurrentOnlyWhenScheduling' /\ ImpossiblePanics' /\
      CurrentLive' /\ NullReady' /\ CurrentLoaded' /\ ForkSlot' /\ ForkResults' /\
      SweepMissesNobody'
  BY DEF IInv, TypeOK, Consistent, TableTypes, MemoryTypes, SchedulerTypes,
     PlaceTypes, RunsAsItself, NoCurrentOnlyWhenScheduling, ImpossiblePanics,
     CurrentLive, NullReady, CurrentLoaded, ForkSlot, ForkResults,
     SweepMissesNobody, SweepSkip, table, memory
<1>2. Slots'
  BY QuietActions, QuietStep DEF Quiet
<1>3. ClockTypes'
  BY DEF IInv, TypeOK, ClockTypes, SweepSkip, clock
<1>4. Deadlines'
  <2>1. \A k \in DOMAIN sleep_queue : k < i + 1 => k < i \/ k = i
    <3>1. DOMAIN sleep_queue \subseteq Nat /\ i \in Nat
      BY LenProperties DEF IInv, TypeOK, SchedulerTypes, ClockTypes
    <3> QED BY <3>1
  <2> QED BY <2>1 DEF IInv, Consistent, Deadlines, Expired, SweepSkip, clock
<1> QED BY <1>1, <1>2, <1>3, <1>4 DEF IInv, TypeOK, Consistent, Slots

\* The sweep ends.
LEMMA SweepDoneStep ==
  ASSUME IInv, SweepDone
  PROVE  IInv'
<1>1. TableTypes' /\ MemoryTypes' /\ SchedulerTypes' /\ ImpossiblePanics' /\
      NullReady'
  BY DEF IInv, TypeOK, Consistent, TableTypes, MemoryTypes, SchedulerTypes,
     ImpossiblePanics, NullReady, SweepDone, table, memory
<1>2. Slots'
  BY QuietActions, QuietStep DEF Quiet
<1>3. PlaceTypes'
  BY DEF IInv, TypeOK, PlaceTypes, Reasons, PtrTo, KernelPCs, SweepDone, table,
     memory
<1>4. ClockTypes'
  BY DEF IInv, TypeOK, ClockTypes, SweepDone, clock
<1>5. RunsAsItself'
  BY DEF IInv, RunsAsItself, SweepDone, table, memory
<1>6. NoCurrentOnlyWhenScheduling'
  BY DEF IInv, NoCurrentOnlyWhenScheduling, SweepDone, table, memory
<1>7. CurrentLive'
  BY DEF IInv, Consistent, CurrentLive, Live, Scheduling, SweepDone, table, memory
<1>8. CurrentLoaded'
  BY DEF IInv, Consistent, CurrentLoaded, Scheduling, SweepDone, table, memory
<1>9. ForkSlot'
  BY DEF IInv, Consistent, ForkSlot, SweepDone, table, memory
<1>10. Deadlines' /\ SweepMissesNobody'
  <2>1. \A k \in DOMAIN sleep_queue : k < i
    BY LenProperties DEF IInv, TypeOK, SchedulerTypes, ClockTypes, SweepDone
  <2>2. \A p \in Procs : state[p] = "SLEEPING" => ~Expired(p)
    BY <2>1 DEF IInv, SleepQueueExact, Consistent, Deadlines, SweepDone
  <2> QED BY <2>2 DEF IInv, Consistent, Deadlines, SweepMissesNobody, Expired,
             SweepDone, table, clock
<1>11. ForkResults'
  BY DEF IInv, Consistent, ForkResults, SweepDone, table, memory
<1> QED BY <1>1, <1>2, <1>3, <1>4, <1>5, <1>6, <1>7, <1>8, <1>9, <1>10,
   <1>11 DEF IInv, TypeOK, Consistent, Slots

\* get_next_process: the null process, at least, is READY.
LEMMA PickStep ==
  ASSUME IInv, Pick
  PROVE  IInv'
<1>1. next_process' \in Ready
  <2>1. NullProc \in Ready
    BY SlotFacts DEF IInv, TypeOK, Consistent, TableTypes, NullReady, CurrentLoaded,
       Scheduling, Ready, Pick
  <2> QED BY <2>1, NextIsReady DEF IInv, TypeOK, TableTypes, SchedulerTypes, Pick
<1>2. TableTypes' /\ MemoryTypes' /\ ClockTypes' /\ NullReady'
  BY SchedAssumption DEF IInv, TypeOK, Consistent, TableTypes, MemoryTypes,
     ClockTypes, NullReady, Pick, table, memory, clock
<1>3. Slots'
  BY QuietActions, QuietStep DEF Quiet
<1>4. SchedulerTypes'
  BY <1>1 DEF IInv, TypeOK, SchedulerTypes, Pick, PtrTo, Ready, table
<1>5. PlaceTypes'
  BY DEF IInv, TypeOK, PlaceTypes, Reasons, PtrTo, KernelPCs, Pick, table,
     memory, loop, clock
<1>6. RunsAsItself'
  BY DEF IInv, RunsAsItself, Pick, table, memory, loop, clock
<1>7. NoCurrentOnlyWhenScheduling'
  BY DEF IInv, NoCurrentOnlyWhenScheduling, Pick, table, memory, loop, clock
<1>8. ImpossiblePanics'
  BY <1>1, SlotFacts DEF IInv, ImpossiblePanics, Pick, Ready
<1>9. CurrentLive'
  BY DEF IInv, Consistent, CurrentLive, Live, Scheduling, Pick, table, memory,
     loop, clock
<1>10. CurrentLoaded'
  BY <1>1, SlotFacts DEF IInv, Consistent, CurrentLoaded, Scheduling, Pick, Ready,
     table, memory
<1>11. ForkSlot'
  BY DEF IInv, Consistent, ForkSlot, Pick, table, memory, loop, clock
<1>12. Deadlines' /\ SweepMissesNobody'
  BY DEF IInv, Consistent, Deadlines, SweepMissesNobody, Expired, Pick, table,
     memory, loop, clock
<1>13. ForkResults'
  BY DEF IInv, Consistent, ForkResults, Pick, table, memory, loop, clock
<1> QED BY <1>1, <1>2, <1>3, <1>4, <1>5, <1>6, <1>7, <1>8, <1>9, <1>10,
   <1>11, <1>12, <1>13 DEF IInv, TypeOK, Consistent, Slots

\* The picked process becomes the current one.
LEMMA SwitchStep ==
  ASSUME IInv, Switch
  PROVE  IInv'
<1>1. MemoryTypes' /\ ClockTypes' /\ ImpossiblePanics'
  BY DEF IInv, TypeOK, Consistent, MemoryTypes, ClockTypes, ImpossiblePanics,
     Switch, memory, loop, clock
<1>2. Slots'
  BY QuietActions, QuietStep DEF Quiet
<1>3. TableTypes'
  BY DEF IInv, TypeOK, TableTypes, States, PtrTo, Switch, memory, loop, clock
<1>4. SchedulerTypes'
  BY DEF IInv, TypeOK, SchedulerTypes, PtrTo, Switch, memory, loop, clock
<1>5. PlaceTypes'
  BY SlotFacts, SchedAssumption DEF IInv, TypeOK, PlaceTypes, Reasons, PtrTo,
     KernelPCs, SchedulerTypes, Switch, memory, loop, clock
<1>6. RunsAsItself'
  BY SlotFacts DEF IInv, RunsAsItself, Consistent, CurrentLoaded, CurrentLive,
     NoCurrentOnlyWhenScheduling, Live, Scheduling, Switch, memory, loop, clock
<1>7. NoCurrentOnlyWhenScheduling'
  BY DEF IInv, Consistent, CurrentLoaded, NoCurrentOnlyWhenScheduling, Switch
<1>8. CurrentLive'
  BY DEF IInv, Consistent, CurrentLive, RunsAsItself, CurrentLoaded, PidIsSlot,
     Live, Scheduling, Switch, memory, loop, clock
<1>9. NullReady'
  BY DEF IInv, Consistent, NullReady, Switch, memory, loop, clock
<1>10. CurrentLoaded'
  BY SlotFacts DEF IInv, Consistent, CurrentLoaded, Scheduling, Switch, memory,
     loop, clock
<1>11. ForkSlot'
  BY DEF IInv, Consistent, ForkSlot, Switch, memory, loop, clock
<1>12. Deadlines' /\ SweepMissesNobody'
  BY DEF IInv, Consistent, Deadlines, SweepMissesNobody, Expired, Switch,
     memory, loop, clock
<1>13. ForkResults'
  BY DEF IInv, Consistent, ForkResults, Switch, memory, loop, clock
<1> QED BY <1>1, <1>2, <1>3, <1>4, <1>5, <1>6, <1>7, <1>8, <1>9, <1>10,
   <1>11, <1>12, <1>13 DEF IInv, TypeOK, Consistent, Slots

\* The new current process's context is made ready; a forked one returns 0.
LEMMA ResumeStep ==
  ASSUME IInv, Resume
  PROVE  IInv'
<1>1. current \in Procs /\ ttbr = current /\ pc = "resume"
  BY DEF IInv, TypeOK, Consistent, SchedulerTypes, PtrTo, CurrentLoaded,
     NoCurrentOnlyWhenScheduling, Resume
<1>2. ClockTypes' /\ ImpossiblePanics' /\ NullReady'
  BY DEF IInv, TypeOK, Consistent, ClockTypes, ImpossiblePanics, NullReady,
     Resume, ForkedR0, loop, clock
<1>3. Slots'
  BY QuietActions, QuietStep DEF Quiet
<1>4. TableTypes'
  BY DEF IInv, TypeOK, TableTypes, States, PtrTo, Resume, ForkedR0, loop, clock
<1>5. MemoryTypes'
  <2>1. ForkedR0 \in [Procs -> Int \cup {Junk}]
    <3>1. StoreR0(current, 0) \in [Procs -> Int \cup {Junk}]
      BY <1>1, StoreType DEF IInv, TypeOK
    <3> QED BY <3>1 DEF IInv, TypeOK, MemoryTypes, ForkedR0
  <2> QED BY <2>1 DEF IInv, TypeOK, MemoryTypes, Resume
<1>6. SchedulerTypes'
  BY DEF IInv, TypeOK, SchedulerTypes, PtrTo, Resume, ForkedR0, loop, clock
<1>7. PlaceTypes'
  BY DEF IInv, TypeOK, PlaceTypes, Reasons, PtrTo, KernelPCs, Resume, ForkedR0,
     loop, clock
<1>8. RunsAsItself'
  BY DEF IInv, RunsAsItself, Resume, ForkedR0, loop, clock
<1>9. NoCurrentOnlyWhenScheduling'
  BY DEF IInv, NoCurrentOnlyWhenScheduling, Resume, ForkedR0, loop, clock
<1>10. CurrentLive'
  BY DEF IInv, Consistent, CurrentLive, Live, Scheduling, Resume, ForkedR0,
     loop, clock
<1>11. CurrentLoaded'
  BY DEF IInv, Consistent, CurrentLoaded, Scheduling, Resume, ForkedR0, loop,
     clock
<1>12. ForkSlot'
  BY DEF IInv, Consistent, ForkSlot, Resume, ForkedR0, loop, clock
<1>13. Deadlines' /\ SweepMissesNobody'
  BY DEF IInv, Consistent, Deadlines, SweepMissesNobody, Expired, Resume,
     ForkedR0, loop, clock
<1>14. ForkResults'
  BY <1>1 DEF IInv, TypeOK, Consistent, TableTypes, MemoryTypes, ForkResults,
     Resume, ForkedR0, StoreR0
<1> QED BY <1>1, <1>2, <1>3, <1>4, <1>5, <1>6, <1>7, <1>8, <1>9, <1>10,
   <1>11, <1>12, <1>13, <1>14 DEF IInv, TypeOK, Consistent, Slots

\* userspace_return: to the scheduler, or back.
LEMMA ReturnStep ==
  ASSUME IInv, Return
  PROVE  IInv'
<1>1. TableTypes' /\ MemoryTypes' /\ SchedulerTypes' /\ ImpossiblePanics' /\
      NullReady'
  BY DEF IInv, TypeOK, Consistent, TableTypes, MemoryTypes, SchedulerTypes,
     ImpossiblePanics, NullReady, Return, StartScheduler, table, memory, loop,
     clock
<1>2. Slots'
  BY QuietActions, QuietStep DEF Quiet
<1>3. PlaceTypes'
  BY SlotFacts, SchedAssumption DEF IInv, TypeOK, PlaceTypes, Reasons, PtrTo,
     KernelPCs, SchedulerTypes, Return, StartScheduler, table, memory, loop,
     clock
<1>4. ClockTypes'
  BY DEF IInv, TypeOK, ClockTypes, Return, StartScheduler, loop, clock
<1>5. RunsAsItself'
  BY DEF IInv, RunsAsItself, Return, StartScheduler, table, memory, loop, clock
<1>6. NoCurrentOnlyWhenScheduling'
  BY DEF IInv, NoCurrentOnlyWhenScheduling, Return, StartScheduler, table,
     memory, loop, clock
<1>7. CurrentLive'
  BY DEF IInv, Consistent, CurrentLive, Live, Scheduling, Return,
     StartScheduler, table, memory, loop, clock
<1>8. CurrentLoaded'
  BY DEF IInv, Consistent, CurrentLoaded, Scheduling, Return, StartScheduler,
     table, memory, loop, clock
<1>9. ForkSlot'
  BY DEF IInv, Consistent, ForkSlot, Return, StartScheduler, table, memory,
     loop, clock
<1>10. Deadlines' /\ SweepMissesNobody'
  BY NobodyDueEarly DEF IInv, Consistent, Deadlines, SweepMissesNobody, Expired,
     Return, StartScheduler, table, clock
<1>11. ForkResults'
  BY DEF IInv, Consistent, ForkResults, Return, StartScheduler, table, memory,
     loop, clock
<1> QED BY <1>1, <1>2, <1>3, <1>4, <1>5, <1>6, <1>7, <1>8, <1>9, <1>10,
   <1>11 DEF IInv, TypeOK, Consistent, Slots

\* Back to user mode, or the abort that exec without memory leads to.
LEMMA RestoreStep ==
  ASSUME IInv, Restore
  PROVE  IInv'
<1>1. current \in Procs /\ pc = "restore"
  BY DEF IInv, TypeOK, SchedulerTypes, PtrTo, NoCurrentOnlyWhenScheduling, Restore
<1>2. TableTypes' /\ SchedulerTypes' /\ ClockTypes' /\ NullReady'
  BY DEF IInv, TypeOK, Consistent, TableTypes, SchedulerTypes, ClockTypes,
     NullReady, Restore, table, loop, clock
<1>3. Slots'
  BY QuietActions, QuietStep DEF Quiet
<1>4. MemoryTypes'
  BY DEF IInv, TypeOK, MemoryTypes, Calls, Restore
<1>5. PlaceTypes'
  BY DEF IInv, TypeOK, PlaceTypes, Reasons, PtrTo, KernelPCs, Restore, table,
     loop, clock
<1>6. RunsAsItself'
  BY DEF IInv, TypeOK, TableTypes, MemoryTypes, SchedulerTypes, PlaceTypes,
     PtrTo, RunsAsItself, Live, Scheduling, KernelPCs, Consistent,
     CurrentLoaded, CurrentLive, NoCurrentOnlyWhenScheduling, Restore, table,
     loop, clock
<1>7. NoCurrentOnlyWhenScheduling'
  BY DEF IInv, NoCurrentOnlyWhenScheduling, Restore, table, loop, clock
<1>8. ImpossiblePanics'
  BY DEF IInv, ImpossiblePanics, Restore, table, loop, clock
<1>9. CurrentLive'
  BY DEF IInv, Consistent, CurrentLive, Live, Scheduling, Restore, table, loop,
     clock
<1>10. CurrentLoaded'
  BY DEF IInv, Consistent, CurrentLoaded, Scheduling, Restore, table, loop,
     clock
<1>11. ForkSlot'
  BY DEF IInv, Consistent, ForkSlot, Restore, table, loop, clock
<1>12. Deadlines' /\ SweepMissesNobody'
  BY DEF IInv, Consistent, Deadlines, SweepMissesNobody, Expired, Restore,
     table, loop, clock
<1>13. ForkResults'
  BY <1>1 DEF IInv, TypeOK, Consistent, MemoryTypes, ForkResults, Restore, table
<1> QED BY <1>1, <1>2, <1>3, <1>4, <1>5, <1>6, <1>7, <1>8, <1>9, <1>10,
   <1>11, <1>12, <1>13 DEF IInv, TypeOK, Consistent, Slots

\* The new process takes the slot whose number is the next pid.
LEMMA ForkDoneStep ==
  ASSUME IInv, ForkDone
  PROVE  IInv'
<1>1. /\ pc = "fork" /\ child = curr_pid /\ child \in Procs /\ state[child] = "NONE"
      /\ current \in Procs /\ current # child /\ state[current] \in Live
      /\ pid[current] = current /\ ttbr = current
  <2>1. pc = "fork" /\ child = curr_pid /\ current \in Procs /\ state[current] \in Live
    BY DEF IInv, TypeOK, Consistent, SchedulerTypes, PtrTo, ForkSlot, CurrentLive,
       Scheduling, NoCurrentOnlyWhenScheduling, ForkDone
  <2>2. child \in Procs
    BY <2>1, SchedAssumption DEF IInv, TypeOK, SchedulerTypes, PlaceTypes, PtrTo
  <2>3. state[child] = "NONE"
    BY <2>1, <2>2, SlotFacts DEF IInv, PidIsSlot
  <2>4. pid[current] = current
    BY <2>1, SlotFacts DEF IInv, PidIsSlot, Live
  <2>5. ttbr = current
    BY <2>1 DEF IInv, Consistent, CurrentLoaded
  <2> QED BY <2>1, <2>2, <2>3, <2>4, <2>5 DEF Live
<1>2. \A p \in Procs : /\ state'[p] = IF p = child THEN "READY" ELSE state[p]
                       /\ pid'[p] = IF p = child THEN child ELSE pid[p]
                       /\ ppid'[p] = IF p = child THEN current ELSE ppid[p]
                       /\ forked'[p] <=> p = child \/ forked[p]
                       /\ r0'[p] = IF p = current THEN child ELSE r0[p]
  <2>1. \A p \in Procs : state'[p] = IF p = child THEN "READY" ELSE state[p]
    BY DEF IInv, TypeOK, TableTypes, ForkDone
  <2>2. \A p \in Procs : pid'[p] = IF p = child THEN child ELSE pid[p]
    BY <1>1 DEF IInv, TypeOK, TableTypes, ForkDone
  <2>3. \A p \in Procs : ppid'[p] = IF p = child THEN current ELSE ppid[p]
    BY <1>1 DEF IInv, TypeOK, TableTypes, ForkDone
  <2>4. \A p \in Procs : forked'[p] <=> p = child \/ forked[p]
    BY <1>1 DEF IInv, TypeOK, TableTypes, ForkDone
  <2>5. \A p \in Procs : r0'[p] = IF p = current THEN child ELSE r0[p]
    BY <1>1 DEF IInv, TypeOK, MemoryTypes, ForkDone, StoreR0
  <2> QED BY <2>1, <2>2, <2>3, <2>4, <2>5
<1>3. curr_pid' = child + 1 /\ child \in Int /\ child >= 2
  BY <1>1, SlotFacts DEF IInv, Consistent, UnusedBlank, ForkDone
<1>4. UNCHANGED <<waiting_parent, sleep_queue, current, call>> /\ pc' = "return"
  BY DEF ForkDone
<1>5. ClockTypes' /\ ImpossiblePanics'
  BY DEF IInv, TypeOK, Consistent, ClockTypes, ImpossiblePanics, ForkDone, loop,
     clock
<1>6. TableTypes'
  BY <1>1, SlotFacts DEF IInv, TypeOK, TableTypes, States, ForkDone
<1>7. MemoryTypes'
  BY <1>1, SlotFacts DEF IInv, TypeOK, MemoryTypes, StoreR0, ForkDone
<1>8. SchedulerTypes'
  BY <1>1, <1>3, SlotFacts DEF IInv, TypeOK, SchedulerTypes, ForkDone
<1>9. PlaceTypes'
  BY <1>1 DEF IInv, TypeOK, PlaceTypes, PtrTo, KernelPCs, ForkDone
<1>10. PidIsSlot'
  <2> SUFFICES ASSUME NEW p \in Procs
               PROVE  IF p < curr_pid' THEN state'[p] # "NONE" /\ pid'[p] = p
                                       ELSE state'[p] = "NONE" /\ pid'[p] = 0
    BY DEF PidIsSlot
  <2>1. p < curr_pid' <=> p < curr_pid \/ p = child
    BY <1>1, <1>3, SlotFacts
  <2> QED BY <1>1, <1>2, <2>1 DEF IInv, PidIsSlot
<1>11. UnusedBlank'
  BY <1>1, <1>2, <1>3, SlotFacts DEF IInv, Consistent, UnusedBlank, ForkDone
<1>12. SleepQueueExact'
  BY <1>1, <1>2 DEF IInv, SleepQueueExact, ForkDone
<1>13. WaiterStaysBlocked'
  <2>1. \A p \in Procs : /\ state[p] = "KILLED" => state'[p] = "KILLED"
                         /\ state[p] = "BLOCKED" => state'[p] = "BLOCKED"
    BY <1>1, <1>2
  <2> QED BY <1>4, <2>1, BlockedStay DEF IInv, TypeOK
<1>14. Waiters'
  <2>1. waiting_parent[child] = NULL
    BY <1>1, <1>3 DEF IInv, Consistent, UnusedBlank
  <2> SUFFICES ASSUME NEW c \in Procs, waiting_parent[c] # NULL
               PROVE  /\ ppid'[c] = waiting_parent[c] /\ waiting_parent[c] # NullProc
                      /\ state'[c] # "KILLED" => \A d \in Procs :
                           waiting_parent[d] = waiting_parent[c] /\ state'[d] # "KILLED"
                             => d = c
    BY <1>4 DEF Waiters
  <2>2. c # child /\ ppid'[c] = ppid[c] /\ state'[c] = state[c]
    BY <1>2, <2>1
  <2>3. \A d \in Procs : waiting_parent[d] = waiting_parent[c] => state'[d] = state[d]
    BY <1>2, <2>1
  <2> QED BY <2>2, <2>3 DEF IInv, Consistent, Waiters
<1>15. RunsAsItself'
  BY DEF IInv, RunsAsItself, ForkDone, loop, clock
<1>16. NoCurrentOnlyWhenScheduling'
  BY DEF IInv, NoCurrentOnlyWhenScheduling, ForkDone, loop, clock
<1>17. CurrentLive'
  BY <1>1, <1>2 DEF IInv, Consistent, CurrentLive, Live, Scheduling, ForkDone
<1>18. NullReady'
  BY DEF IInv, Consistent, NullReady, ForkDone, loop, clock
<1>19. CurrentLoaded'
  BY DEF IInv, Consistent, CurrentLoaded, Scheduling, ForkDone, loop, clock
<1>20. ForkSlot'
  BY DEF IInv, Consistent, ForkSlot, ForkDone, loop, clock
<1>21. Deadlines' /\ SweepMissesNobody'
  BY DEF IInv, Consistent, Deadlines, SweepMissesNobody, Expired, ForkDone,
     loop, clock
<1>22. ForkResults'
  <2> SUFFICES ASSUME NEW p \in Procs
               PROVE  /\ forked'[p] => call[p] = "born" /\ p # current
                      /\ call[p] = "born" => forked'[p]
                      /\ call[p] = "fork" =>
                           \/ r0'[p] = -1
                           \/ r0'[p] \in 2 .. (curr_pid' - 1) /\ ppid'[r0'[p]] = p
    BY <1>4 DEF ForkResults
  <2>1. forked[p] => call[p] = "born" /\ p # current
    BY <1>1 DEF IInv, Consistent, ForkResults
  <2>2. call[p] = "born" => forked[p] \/ p = child
    BY <1>1 DEF IInv, Consistent, ForkResults
  <2>3. call[p] = "fork" => \/ p = current
                            \/ r0[p] = -1
                            \/ r0[p] \in 2 .. (curr_pid - 1) /\ ppid[r0[p]] = p
    BY <1>1 DEF IInv, Consistent, ForkResults
  <2>4. call[child] = "born"
    BY <1>1 DEF IInv, Consistent, ForkSlot
  <2>5. call[p] = "fork" => \/ r0'[p] = -1
                            \/ r0'[p] \in 2 .. (curr_pid' - 1) /\ ppid'[r0'[p]] = p
    <3> SUFFICES ASSUME call[p] = "fork"
                 PROVE  \/ r0'[p] = -1
                        \/ r0'[p] \in 2 .. (curr_pid' - 1) /\ ppid'[r0'[p]] = p
      OBVIOUS
    <3>1. CASE p = current
      <4>1. r0'[p] = child /\ ppid'[child] = p
        BY <1>1, <1>2, <3>1
      <4>2. child \in 2 .. (curr_pid' - 1)
        BY <1>3
      <4> QED BY <4>1, <4>2
    <3>2. CASE p # current /\ r0[p] = -1
      BY <1>2, <3>2
    <3>3. CASE p # current /\ r0[p] \in 2 .. (curr_pid - 1) /\ ppid[r0[p]] = p
      <4>1. r0[p] \in Procs /\ r0[p] # child
        BY <1>1, <1>3, <3>3, SlotFacts DEF Procs
      <4>2. r0'[p] = r0[p] /\ ppid'[r0[p]] = p
        BY <1>2, <3>3, <4>1
      <4>3. r0[p] \in 2 .. (curr_pid' - 1)
        BY <1>1, <1>3, <3>3
      <4> QED BY <4>2, <4>3
    <3> QED BY <2>3, <3>1, <3>2, <3>3
  <2> QED BY <1>1, <1>2, <2>1, <2>2, <2>4, <2>5
<1> QED BY <1>1, <1>2, <1>3, <1>4, <1>5, <1>6, <1>7, <1>8, <1>9, <1>10,
   <1>11, <1>12, <1>13, <1>14, <1>15, <1>16, <1>17, <1>18, <1>19,
   <1>20, <1>21, <1>22 DEF IInv, TypeOK, Consistent

\* exec ends with the new image mapped.
LEMMA ExecDoneStep ==
  ASSUME IInv, ExecDone
  PROVE  IInv'
<1>1. ClockTypes' /\ ImpossiblePanics'
  BY DEF IInv, TypeOK, Consistent, ClockTypes, ImpossiblePanics, ExecDone, loop,
     clock
<1>2. Slots'
  BY QuietActions, QuietStep DEF Quiet
<1>3. TableTypes'
  BY DEF IInv, TypeOK, TableTypes, States, PtrTo, ExecDone, loop, clock
<1>4. MemoryTypes'
  BY DEF IInv, TypeOK, MemoryTypes, Calls, ExecDone, loop, clock
<1>5. SchedulerTypes'
  BY DEF IInv, TypeOK, SchedulerTypes, PtrTo, ExecDone, loop, clock
<1>6. PlaceTypes'
  BY DEF IInv, TypeOK, PlaceTypes, Reasons, PtrTo, KernelPCs, ExecDone, loop,
     clock
<1>7. RunsAsItself'
  BY DEF IInv, RunsAsItself, ExecDone, loop, clock
<1>8. NoCurrentOnlyWhenScheduling'
  BY DEF IInv, NoCurrentOnlyWhenScheduling, ExecDone, loop, clock
<1>9. CurrentLive'
  BY DEF IInv, Consistent, CurrentLive, Live, Scheduling, ExecDone, loop, clock
<1>10. NullReady'
  BY DEF IInv, Consistent, NullReady, ExecDone, loop, clock
<1>11. CurrentLoaded'
  BY DEF IInv, Consistent, TypeOK, TableTypes, MemoryTypes, SchedulerTypes,
     PlaceTypes, PtrTo, CurrentLoaded, Scheduling, KernelPCs, ExecDone, loop,
     clock
<1>12. ForkSlot'
  BY DEF IInv, Consistent, ForkSlot, ExecDone, loop, clock
<1>13. Deadlines' /\ SweepMissesNobody'
  BY DEF IInv, Consistent, Deadlines, SweepMissesNobody, Expired, ExecDone,
     loop, clock
<1>14. ForkResults'
  BY DEF IInv, Consistent, ForkResults, ExecDone, loop, clock
<1> QED BY <1>1, <1>2, <1>3, <1>4, <1>5, <1>6, <1>7, <1>8, <1>9, <1>10,
   <1>11, <1>12, <1>13, <1>14 DEF IInv, TypeOK, Consistent, Slots

\* A system call that changes no process.
LEMMA GetPidStep ==
  ASSUME IInv, NEW p \in Procs, GetPid(p)
  PROVE  IInv'
<1>1. TableTypes' /\ SchedulerTypes' /\ ClockTypes' /\ ImpossiblePanics' /\
      NullReady'
  BY DEF IInv, TypeOK, Consistent, TableTypes, SchedulerTypes, ClockTypes,
     ImpossiblePanics, NullReady, GetPid, Caller, Result, table, loop, clock
<1>2. Slots'
  BY QuietActions, QuietStep DEF Quiet
<1>3. MemoryTypes'
  <2>1. StoreR0(p, pid[p]) \in [Procs -> Int \cup {Junk}]
    <3>1. pid[p] \in Int
      BY SlotFacts DEF IInv, TypeOK, TableTypes
    <3> QED BY <3>1, StoreType DEF IInv, TypeOK
  <2> QED BY <2>1 DEF IInv, TypeOK, MemoryTypes, Calls, GetPid, Result
<1>4. PlaceTypes'
  BY DEF IInv, TypeOK, PlaceTypes, Reasons, PtrTo, KernelPCs, GetPid, Caller,
     Result, table, loop, clock
<1>5. RunsAsItself'
  BY DEF IInv, RunsAsItself, GetPid, Caller, Result, table, loop, clock
<1>6. NoCurrentOnlyWhenScheduling'
  BY DEF IInv, NoCurrentOnlyWhenScheduling, GetPid, Caller, Result, table, loop,
     clock
<1>7. CurrentLive'
  BY SlotFacts DEF IInv, Consistent, CurrentLive, Live, Scheduling, GetPid,
     Caller, Result, table, loop, clock
<1>8. CurrentLoaded'
  BY DEF IInv, Consistent, CurrentLoaded, Scheduling, GetPid, Caller, Result,
     table, loop, clock
<1>9. ForkSlot'
  BY DEF IInv, Consistent, ForkSlot, GetPid, Caller, Result, table, loop, clock
<1>10. Deadlines' /\ SweepMissesNobody'
  BY DEF IInv, Consistent, Deadlines, SweepMissesNobody, Expired, GetPid,
     Caller, Result, table, loop, clock
<1>11. ForkResults'
  BY SlotFacts, SchedAssumption DEF IInv, Consistent, TypeOK, TableTypes,
     MemoryTypes, SchedulerTypes, PlaceTypes, ClockTypes, PtrTo, ForkResults,
     Scheduling, KernelPCs, CurrentLoaded, NoCurrentOnlyWhenScheduling, StoreR0,
     GetPid, Caller, Result, table, loop, clock
<1> QED BY <1>1, <1>2, <1>3, <1>4, <1>5, <1>6, <1>7, <1>8, <1>9, <1>10,
   <1>11 DEF IInv, TypeOK, Consistent, Slots

\* yield asks for the scheduler.
LEMMA YieldStep ==
  ASSUME IInv, NEW p \in Procs, Yield(p)
  PROVE  IInv'
<1>1. ClockTypes' /\ ImpossiblePanics'
  BY DEF IInv, TypeOK, Consistent, ClockTypes, ImpossiblePanics, Yield, Caller,
     Result, loop, clock
<1>2. Slots'
  BY QuietActions, QuietStep DEF Quiet
<1>3. TableTypes'
  BY DEF IInv, TypeOK, TableTypes, States, PtrTo, Yield, Caller, Result, loop,
     clock
<1>4. MemoryTypes'
  <2>1. StoreR0(p, 0) \in [Procs -> Int \cup {Junk}]
    BY StoreType DEF IInv, TypeOK
  <2> QED BY <2>1 DEF IInv, TypeOK, MemoryTypes, Calls, Yield, Result
<1>5. SchedulerTypes'
  BY DEF IInv, TypeOK, SchedulerTypes, PtrTo, Yield, Caller, Result, loop, clock
<1>6. PlaceTypes'
  BY DEF IInv, TypeOK, PlaceTypes, Reasons, PtrTo, KernelPCs, Yield, Caller,
     Result, loop, clock
<1>7. RunsAsItself'
  BY DEF IInv, RunsAsItself, Yield, Caller, Result, loop, clock
<1>8. NoCurrentOnlyWhenScheduling'
  BY DEF IInv, NoCurrentOnlyWhenScheduling, Yield, Caller, Result, loop, clock
<1>9. CurrentLive'
  BY DEF IInv, Consistent, CurrentLive, Live, Scheduling, Yield, Caller, Result,
     loop, clock
<1>10. NullReady'
  BY DEF IInv, Consistent, NullReady, Yield, Caller, Result, loop, clock
<1>11. CurrentLoaded'
  BY DEF IInv, Consistent, TypeOK, TableTypes, MemoryTypes, SchedulerTypes,
     PlaceTypes, PtrTo, CurrentLoaded, Scheduling, KernelPCs, Yield, Caller,
     Result, loop, clock
<1>12. ForkSlot'
  BY DEF IInv, Consistent, ForkSlot, Yield, Caller, Result, loop, clock
<1>13. Deadlines' /\ SweepMissesNobody'
  BY DEF IInv, Consistent, Deadlines, SweepMissesNobody, Expired, Yield, Caller,
     Result, loop, clock
<1>14. ForkResults'
  BY SlotFacts, SchedAssumption DEF IInv, Consistent, TypeOK, TableTypes,
     MemoryTypes, SchedulerTypes, PlaceTypes, ClockTypes, PtrTo, ForkResults,
     Scheduling, KernelPCs, CurrentLoaded, NoCurrentOnlyWhenScheduling, StoreR0,
     Yield, Caller, Result, loop, clock
<1> QED BY <1>1, <1>2, <1>3, <1>4, <1>5, <1>6, <1>7, <1>8, <1>9, <1>10,
   <1>11, <1>12, <1>13, <1>14 DEF IInv, TypeOK, Consistent, Slots

\* usleep: a live process is not in the queue, so there is room in it.
LEMMA UsleepStep ==
  ASSUME IInv, NEW p \in Procs, NEW n \in 0 .. MaxNap, Usleep(p, n)
  PROVE  IInv'
<1>1. current = p /\ pc = "user" /\ state[p] \in Live /\ ttbr = p /\ p # NullProc
  BY SlotFacts DEF IInv, Consistent, CurrentLive, CurrentLoaded, Scheduling, Caller,
     Usleep
<1>2. \A q \in Procs : state'[q] = IF q = p THEN "SLEEPING" ELSE state[q]
  BY DEF IInv, TypeOK, TableTypes, Usleep
<1>3. Len(sleep_queue) < MaxProcesses
  BY <1>1, QueueHasRoom DEF IInv, TypeOK, SchedulerTypes, Live
<1>4. /\ sleep_queue' \in Seq(Procs)
      /\ \A a, b \in DOMAIN sleep_queue' : sleep_queue'[a] = sleep_queue'[b] => a = b
      /\ \A q \in Procs : (\E a \in DOMAIN sleep_queue' : sleep_queue'[a] = q)
           <=> q = p \/ \E a \in DOMAIN sleep_queue : sleep_queue[a] = q
  <2>1. sleep_queue' = Append(sleep_queue, p)
    BY <1>3 DEF Usleep
  <2>2. \A a \in DOMAIN sleep_queue : sleep_queue[a] # p
    BY <1>1 DEF IInv, SleepQueueExact, Live
  <2> QED BY <2>1, <2>2, QueueAppend DEF IInv, TypeOK, SchedulerTypes, SleepQueueExact
<1>5. ClockTypes' /\ UnusedBlank'
  <2>1. now + n \in 0 .. (ClockSpan - 1 + MaxNap)
    BY SchedAssumption DEF IInv, TypeOK, ClockTypes
  <2> QED BY <2>1 DEF IInv, TypeOK, Consistent, ClockTypes, UnusedBlank, Usleep,
             loop
<1>6. TableTypes'
  BY DEF IInv, TypeOK, TableTypes, States, PtrTo, Usleep, Caller, Result, loop,
     clock
<1>7. MemoryTypes'
  <2>1. StoreR0(p, 0) \in [Procs -> Int \cup {Junk}]
    BY StoreType DEF IInv, TypeOK
  <2> QED BY <1>3, <2>1 DEF IInv, TypeOK, MemoryTypes, Calls, Usleep, Result
<1>8. SchedulerTypes'
  BY <1>3, <1>4 DEF IInv, TypeOK, SchedulerTypes, Usleep
<1>9. PlaceTypes'
  BY DEF IInv, TypeOK, PlaceTypes, Reasons, PtrTo, KernelPCs, Usleep, Caller,
     Result, loop, clock
<1>10. PidIsSlot'
  BY SlotFacts DEF IInv, PidIsSlot, Consistent, CurrentLive, Live, Scheduling,
     Usleep, Caller, Result, loop, clock
<1>11. SleepQueueExact'
  <2>1. \A q \in Procs : state[q] = "SLEEPING" <=>
                          \E a \in DOMAIN sleep_queue : sleep_queue[a] = q
    BY DEF IInv, SleepQueueExact
  <2>2. \A q \in Procs : state'[q] = "SLEEPING" <=> q = p \/ state[q] = "SLEEPING"
    BY <1>2
  <2> QED BY <1>4, <2>1, <2>2 DEF SleepQueueExact
<1>12. WaiterStaysBlocked'
  BY <1>1, <1>2, BlockedStay DEF IInv, TypeOK, Live, Usleep
<1>13. Waiters'
  BY <1>1, <1>2, WaitersStay DEF IInv, TypeOK, Live, Consistent, Usleep
<1>14. RunsAsItself'
  BY DEF IInv, RunsAsItself, Usleep, Caller, Result, loop, clock
<1>15. NoCurrentOnlyWhenScheduling'
  BY DEF IInv, NoCurrentOnlyWhenScheduling, Usleep, Caller, Result, loop, clock
<1>16. ImpossiblePanics'
  BY <1>3 DEF IInv, ImpossiblePanics, Usleep
<1>17. CurrentLive'
  BY DEF IInv, Consistent, CurrentLive, Live, Scheduling, Usleep, Caller,
     Result, loop, clock
<1>18. NullReady'
  BY DEF IInv, Consistent, NullReady, Usleep, Caller, Result, loop, clock
<1>19. CurrentLoaded'
  BY DEF IInv, Consistent, TypeOK, TableTypes, MemoryTypes, SchedulerTypes,
     PlaceTypes, PtrTo, CurrentLoaded, Scheduling, KernelPCs, Usleep, Caller,
     Result, loop, clock
<1>20. ForkSlot'
  BY DEF IInv, Consistent, ForkSlot, Usleep, Caller, Result, loop, clock
<1>21. Deadlines' /\ SweepMissesNobody'
  <2>1. /\ wake' = [wake EXCEPT ![p] = n] /\ wake_ticks' = [wake_ticks EXCEPT ![p] = now + n]
        /\ now' = now /\ pc' \notin {"sweep", "pick"}
    BY <1>3 DEF Usleep
  <2>2. now + n >= now + n
    BY SchedAssumption DEF IInv, TypeOK, ClockTypes
  <2> QED BY <2>1, <2>2 DEF IInv, TypeOK, ClockTypes, Consistent, Deadlines,
             SweepMissesNobody
<1>22. ForkResults'
  BY <1>1, <1>3 DEF IInv, TypeOK, Consistent, MemoryTypes, ForkResults, Usleep,
     Result, StoreR0
<1> QED BY <1>1, <1>2, <1>3, <1>4, <1>5, <1>6, <1>7, <1>8, <1>9, <1>10,
   <1>11, <1>12, <1>13, <1>14, <1>15, <1>16, <1>17, <1>18, <1>19,
   <1>20, <1>21, <1>22 DEF IInv, TypeOK, Consistent

\* waitpid for no child of the caller.
LEMMA WaitpidFailsStep ==
  ASSUME IInv, NEW p \in Procs, NEW n \in Procs, WaitpidFails(p, n)
  PROVE  IInv'
<1>1. TableTypes' /\ SchedulerTypes' /\ ClockTypes' /\ ImpossiblePanics' /\
      NullReady'
  BY DEF IInv, TypeOK, Consistent, TableTypes, SchedulerTypes, ClockTypes,
     ImpossiblePanics, NullReady, WaitpidFails, Caller, Result, ECHILD, table,
     loop, clock
<1>2. Slots'
  BY QuietActions, QuietStep DEF Quiet
<1>3. MemoryTypes'
  <2>1. StoreR0(p, -ECHILD) \in [Procs -> Int \cup {Junk}]
    BY StoreType DEF IInv, TypeOK, ECHILD
  <2> QED BY <2>1 DEF IInv, TypeOK, MemoryTypes, Calls, WaitpidFails, Result
<1>4. PlaceTypes'
  BY DEF IInv, TypeOK, PlaceTypes, Reasons, PtrTo, KernelPCs, WaitpidFails,
     Caller, Result, ECHILD, table, loop, clock
<1>5. RunsAsItself'
  BY DEF IInv, RunsAsItself, WaitpidFails, Caller, Result, ECHILD, table, loop,
     clock
<1>6. NoCurrentOnlyWhenScheduling'
  BY DEF IInv, NoCurrentOnlyWhenScheduling, WaitpidFails, Caller, Result,
     ECHILD, table, loop, clock
<1>7. CurrentLive'
  BY SlotFacts DEF IInv, Consistent, CurrentLive, Live, Scheduling,
     WaitpidFails, Caller, Result, ECHILD, table, loop, clock
<1>8. CurrentLoaded'
  BY DEF IInv, Consistent, CurrentLoaded, Scheduling, WaitpidFails, Caller,
     Result, ECHILD, table, loop, clock
<1>9. ForkSlot'
  BY DEF IInv, Consistent, ForkSlot, WaitpidFails, Caller, Result, ECHILD,
     table, loop, clock
<1>10. Deadlines' /\ SweepMissesNobody'
  BY DEF IInv, Consistent, Deadlines, SweepMissesNobody, Expired, WaitpidFails,
     Caller, Result, ECHILD, table, loop, clock
<1>11. ForkResults'
  BY SlotFacts, SchedAssumption DEF IInv, Consistent, TypeOK, TableTypes,
     MemoryTypes, SchedulerTypes, PlaceTypes, ClockTypes, PtrTo, ForkResults,
     Scheduling, KernelPCs, CurrentLoaded, NoCurrentOnlyWhenScheduling, StoreR0,
     WaitpidFails, Caller, Result, ECHILD, table, loop, clock
<1> QED BY <1>1, <1>2, <1>3, <1>4, <1>5, <1>6, <1>7, <1>8, <1>9, <1>10,
   <1>11 DEF IInv, TypeOK, Consistent, Slots

\* waitpid for a child: nobody alive had the caller as its waiter before.
LEMMA WaitpidStep ==
  ASSUME IInv, NEW p \in Procs, NEW n \in Procs, Waitpid(p, n)
  PROVE  IInv'
<1>1. current = p /\ pc = "user" /\ state[p] \in Live /\ ttbr = p /\ p # NullProc
  BY SlotFacts DEF IInv, Consistent, CurrentLive, CurrentLoaded, Scheduling, Caller,
     Waitpid
<1>2. n < curr_pid /\ ByPid(n) = n /\ ppid[n] = p
  <2>1. WithPid(n) # {} /\ ppid[ByPid(n)] = pid[p]
    BY DEF Waitpid, IsChild
  <2>2. n < curr_pid /\ ByPid(n) = n
    BY <2>1, PidFindsSlot, SlotFacts DEF IInv, TypeOK, Consistent, SchedulerTypes,
       UnusedBlank
  <2>3. pid[p] = p
    BY <1>1 DEF IInv, PidIsSlot, Live
  <2> QED BY <2>1, <2>2, <2>3
<1>3. \A q \in Procs : /\ state'[q] = IF q = p THEN "BLOCKED" ELSE state[q]
                       /\ waiting_parent'[q] = IF q = n THEN p ELSE waiting_parent[q]
  <2>1. \A q \in Procs : state'[q] = IF q = p THEN "BLOCKED" ELSE state[q]
    BY DEF IInv, TypeOK, TableTypes, Waitpid
  <2>2. \A q \in Procs : waiting_parent'[q] = IF q = n THEN p ELSE waiting_parent[q]
    BY <1>2 DEF IInv, TypeOK, TableTypes, Waitpid
  <2> QED BY <2>1, <2>2
<1>4. UNCHANGED <<pid, ppid, curr_pid, sleep_queue>>
  BY DEF Waitpid
<1>5. ClockTypes' /\ ImpossiblePanics'
  BY DEF IInv, TypeOK, Consistent, ClockTypes, ImpossiblePanics, Waitpid,
     Caller, GiveUpCPU, IsChild, loop, clock
<1>6. TableTypes'
  BY DEF IInv, TypeOK, TableTypes, States, PtrTo, Waitpid, Caller, GiveUpCPU,
     IsChild, loop, clock
<1>7. MemoryTypes'
  BY SlotFacts DEF IInv, TypeOK, MemoryTypes, Calls, Waitpid, Caller, GiveUpCPU,
     IsChild, loop, clock
<1>8. SchedulerTypes'
  BY DEF IInv, TypeOK, SchedulerTypes, PtrTo, Waitpid, Caller, GiveUpCPU,
     IsChild, loop, clock
<1>9. PlaceTypes'
  BY DEF IInv, TypeOK, PlaceTypes, Reasons, PtrTo, KernelPCs, Waitpid, Caller,
     GiveUpCPU, IsChild, loop, clock
<1>10. PidIsSlot'
  BY SlotFacts DEF IInv, PidIsSlot, Consistent, CurrentLive, Live, Scheduling,
     Waitpid, Caller, GiveUpCPU, IsChild, loop, clock
<1>11. UnusedBlank'
  BY <1>2, <1>3, <1>4, SlotFacts DEF IInv, TypeOK, SchedulerTypes, Consistent,
     UnusedBlank
<1>12. SleepQueueExact'
  BY SlotFacts DEF IInv, SleepQueueExact, Consistent, CurrentLive, Live,
     Scheduling, Waitpid, Caller, GiveUpCPU, IsChild, loop, clock
<1>13. WaiterStaysBlocked'
  <2> SUFFICES ASSUME NEW c \in Procs, waiting_parent'[c] # NULL, state'[c] # "KILLED"
               PROVE  state'[waiting_parent'[c]] = "BLOCKED"
    BY DEF WaiterStaysBlocked
  <2>1. CASE c = n
    BY <1>3, <2>1
  <2>2. CASE c # n
    <3>1. waiting_parent'[c] = waiting_parent[c] /\ state[c] # "KILLED"
      BY <1>1, <1>3, <2>2 DEF Live
    <3>2. waiting_parent[c] \in Procs /\ state[waiting_parent[c]] = "BLOCKED"
      BY <3>1 DEF IInv, TypeOK, TableTypes, PtrTo, WaiterStaysBlocked
    <3> QED BY <1>3, <3>1, <3>2
  <2> QED BY <2>1, <2>2
<1>14. Waiters'
  <2>1. \A d \in Procs : waiting_parent[d] = p => state[d] = "KILLED"
    BY <1>1, SlotFacts DEF IInv, WaiterStaysBlocked, Live
  <2> SUFFICES ASSUME NEW c \in Procs, waiting_parent'[c] # NULL
               PROVE  /\ ppid[c] = waiting_parent'[c] /\ waiting_parent'[c] # NullProc
                      /\ state'[c] # "KILLED" => \A d \in Procs :
                           waiting_parent'[d] = waiting_parent'[c] /\ state'[d] # "KILLED"
                             => d = c
    BY <1>4 DEF Waiters
  <2>2. CASE c = n
    <3>1. waiting_parent'[c] = p
      BY <1>3, <2>2
    <3>2. ASSUME NEW d \in Procs, waiting_parent'[d] = p, state'[d] # "KILLED", d # n
          PROVE FALSE
      BY <1>1, <1>3, <2>1, <3>2 DEF Live
    <3> QED BY <1>1, <1>2, <2>2, <3>1, <3>2
  <2>3. CASE c # n
    <3>1. waiting_parent'[c] = waiting_parent[c]
      BY <1>3, <2>3
    <3>2. /\ ppid[c] = waiting_parent[c] /\ waiting_parent[c] # NullProc
          /\ state[c] # "KILLED" => \A d \in Procs :
               waiting_parent[d] = waiting_parent[c] /\ state[d] # "KILLED" => d = c
      BY <3>1 DEF IInv, Consistent, Waiters
    <3>3. state'[c] # "KILLED" => state[c] # "KILLED" /\ waiting_parent[c] # p
      BY <1>1, <1>3, <2>1 DEF Live
    <3> QED BY <1>3, <1>1, <3>1, <3>2, <3>3 DEF Live
  <2> QED BY <2>2, <2>3
<1>15. RunsAsItself'
  BY DEF IInv, TypeOK, TableTypes, MemoryTypes, SchedulerTypes, PlaceTypes,
     PtrTo, RunsAsItself, KernelPCs, Waitpid, Caller, GiveUpCPU, IsChild, loop,
     clock
<1>16. NoCurrentOnlyWhenScheduling'
  BY DEF IInv, NoCurrentOnlyWhenScheduling, Waitpid, Caller, GiveUpCPU, IsChild,
     loop, clock
<1>17. CurrentLive'
  BY DEF IInv, Consistent, CurrentLive, Live, Scheduling, Waitpid, Caller,
     GiveUpCPU, IsChild, loop, clock
<1>18. NullReady'
  BY DEF IInv, Consistent, NullReady, Waitpid, Caller, GiveUpCPU, IsChild, loop,
     clock
<1>19. CurrentLoaded'
  BY DEF IInv, Consistent, TypeOK, TableTypes, MemoryTypes, SchedulerTypes,
     PlaceTypes, PtrTo, CurrentLoaded, Scheduling, KernelPCs, Waitpid, Caller,
     GiveUpCPU, IsChild, loop, clock
<1>20. ForkSlot'
  BY DEF IInv, Consistent, ForkSlot, Waitpid, Caller, GiveUpCPU, IsChild, loop,
     clock
<1>21. Deadlines' /\ SweepMissesNobody'
  BY DEF IInv, Consistent, Deadlines, SweepMissesNobody, Expired, Waitpid,
     Caller, GiveUpCPU, IsChild, loop, clock
<1>22. ForkResults'
  BY SlotFacts DEF IInv, Consistent, TypeOK, TableTypes, MemoryTypes,
     SchedulerTypes, PlaceTypes, PtrTo, ForkResults, Scheduling, KernelPCs,
     CurrentLoaded, NoCurrentOnlyWhenScheduling, Waitpid, Caller, GiveUpCPU,
     IsChild, loop, clock
<1> QED BY <1>1, <1>2, <1>3, <1>4, <1>5, <1>6, <1>7, <1>8, <1>9, <1>10,
   <1>11, <1>12, <1>13, <1>14, <1>15, <1>16, <1>17, <1>18, <1>19,
   <1>20, <1>21, <1>22 DEF IInv, TypeOK, Consistent

\* exit: whoever waits for the process is BLOCKED, and waits for it alone.
LEMMA ExitStep ==
  ASSUME IInv, NEW p \in Procs, NEW code \in ExitCodes, Exit(p, code)
  PROVE  IInv'
<1>1. current = p /\ pc = "user" /\ state[p] \in Live /\ ttbr = p /\ p # NullProc
  BY SlotFacts DEF IInv, Consistent, CurrentLive, CurrentLoaded, Scheduling, Caller,
     Exit
<1>2. waiting_parent[p] # NULL =>
        /\ waiting_parent[p] \in Procs /\ state[waiting_parent[p]] = "BLOCKED"
        /\ waiting_parent[p] # NullProc
  BY <1>1 DEF IInv, TypeOK, Consistent, TableTypes, PtrTo, WaiterStaysBlocked,
     Waiters, Live
<1>3. \A q \in Procs : state'[q] = IF q = p THEN "KILLED"
                                   ELSE IF q = waiting_parent[p] THEN "READY" ELSE state[q]
  BY SlotFacts DEF Exit, Woken
<1>4. r0' = r0
  BY <1>1, <1>2, SlotFacts DEF IInv, TypeOK, MemoryTypes, Exit, Woken, StoreR0, Live
<1>5. /\ UNCHANGED <<pid, ppid, waiting_parent, curr_pid, sleep_queue, forked, call>>
      /\ pc' = "return" /\ current' = NULL
  BY DEF Exit, GiveUpCPU
<1>6. ClockTypes' /\ UnusedBlank' /\ ImpossiblePanics'
  BY DEF IInv, TypeOK, Consistent, ClockTypes, UnusedBlank, ImpossiblePanics,
     Exit, Caller, GiveUpCPU, Woken, loop, clock
<1>7. TableTypes'
  BY SlotFacts, SchedAssumption DEF IInv, TypeOK, TableTypes, States, PtrTo,
     Exit, Caller, GiveUpCPU, Woken, loop, clock
<1>8. MemoryTypes'
  BY SlotFacts, SchedAssumption DEF IInv, TypeOK, MemoryTypes, Calls, PtrTo,
     SchedulerTypes, StoreR0, Exit, Caller, GiveUpCPU, Woken, loop, clock
<1>9. SchedulerTypes'
  BY DEF IInv, TypeOK, SchedulerTypes, PtrTo, Exit, Caller, GiveUpCPU, Woken,
     loop, clock
<1>10. PlaceTypes'
  BY DEF IInv, TypeOK, PlaceTypes, Reasons, PtrTo, KernelPCs, Exit, Caller,
     GiveUpCPU, Woken, loop, clock
<1>11. PidIsSlot'
  BY <1>1, <1>2, <1>3, <1>5, SlotFacts DEF IInv, PidIsSlot, Live
<1>12. SleepQueueExact'
  <2>1. \A q \in Procs : state'[q] = "SLEEPING" <=> state[q] = "SLEEPING"
    BY <1>1, <1>2, <1>3, SlotFacts DEF Live
  <2> QED BY <1>5, <2>1 DEF IInv, SleepQueueExact
<1>13. WaiterStaysBlocked'
  <2> SUFFICES ASSUME NEW c \in Procs, waiting_parent[c] # NULL, state'[c] # "KILLED"
               PROVE  state'[waiting_parent[c]] = "BLOCKED"
    BY <1>5 DEF WaiterStaysBlocked
  <2>1. c # p /\ state[c] # "KILLED"
    BY <1>2, <1>3, SlotFacts
  <2>2. waiting_parent[c] \in Procs /\ state[waiting_parent[c]] = "BLOCKED"
    BY <2>1 DEF IInv, TypeOK, TableTypes, PtrTo, WaiterStaysBlocked
  <2>3. waiting_parent[c] # waiting_parent[p]
    BY <1>1, <2>1 DEF IInv, Consistent, Waiters, Live
  <2> QED BY <1>1, <1>3, <2>2, <2>3 DEF Live
<1>14. Waiters'
  <2>1. \A q \in Procs : state[q] = "KILLED" => state'[q] = "KILLED"
    BY <1>1, <1>2, <1>3, SlotFacts DEF Live
  <2> QED BY <1>5, <2>1, WaitersStay DEF IInv, TypeOK, Consistent
<1>15. RunsAsItself'
  BY DEF IInv, RunsAsItself, Exit, Caller, GiveUpCPU, Woken, loop, clock
<1>16. NoCurrentOnlyWhenScheduling'
  BY DEF IInv, NoCurrentOnlyWhenScheduling, Exit, Caller, GiveUpCPU, Woken,
     loop, clock
<1>17. CurrentLive'
  BY DEF IInv, Consistent, CurrentLive, Live, Scheduling, Exit, Caller,
     GiveUpCPU, Woken, loop, clock
<1>18. NullReady'
  BY SlotFacts DEF IInv, Consistent, NullReady, Exit, Caller, GiveUpCPU, Woken,
     loop, clock
<1>19. CurrentLoaded'
  BY DEF IInv, Consistent, CurrentLoaded, Scheduling, Exit, Caller, GiveUpCPU,
     Woken, loop, clock
<1>20. ForkSlot'
  BY DEF IInv, Consistent, ForkSlot, Exit, Caller, GiveUpCPU, Woken, loop, clock
<1>21. Deadlines' /\ SweepMissesNobody'
  BY DEF IInv, Consistent, Deadlines, SweepMissesNobody, Expired, Exit, Caller,
     GiveUpCPU, Woken, loop, clock
<1>22. ForkResults'
  BY <1>1, <1>4, <1>5, SlotFacts DEF IInv, Consistent, ForkResults
<1> QED BY <1>1, <1>2, <1>3, <1>4, <1>5, <1>6, <1>7, <1>8, <1>9, <1>10,
   <1>11, <1>12, <1>13, <1>14, <1>15, <1>16, <1>17, <1>18, <1>19,
   <1>20, <1>21, <1>22 DEF IInv, TypeOK, Consistent

\* fork with a full table.
LEMMA ForkTableFullStep ==
  ASSUME IInv, NEW p \in Procs, ForkTableFull(p)
  PROVE  IInv'
<1>1. TableTypes' /\ MemoryTypes' /\ SchedulerTypes' /\ ClockTypes' /\ NullReady'
  BY DEF IInv, TypeOK, Consistent, TableTypes, MemoryTypes, SchedulerTypes,
     ClockTypes, NullReady, ForkTableFull, Caller, table, memory, loop, clock
<1>2. Slots'
  BY QuietActions, QuietStep DEF Quiet
<1>3. PlaceTypes'
  BY DEF IInv, TypeOK, PlaceTypes, Reasons, PtrTo, KernelPCs, ForkTableFull,
     Caller, table, memory, loop, clock
<1>4. RunsAsItself'
  BY DEF IInv, RunsAsItself, ForkTableFull, Caller, table, memory, loop, clock
<1>5. NoCurrentOnlyWhenScheduling'
  BY DEF IInv, NoCurrentOnlyWhenScheduling, ForkTableFull, Caller, table,
     memory, loop, clock
<1>6. ImpossiblePanics'
  BY DEF IInv, ImpossiblePanics, ForkTableFull, Caller, table, memory, loop,
     clock
<1>7. CurrentLive'
  BY DEF IInv, Consistent, CurrentLive, Live, Scheduling, ForkTableFull, Caller,
     table, memory, loop, clock
<1>8. CurrentLoaded'
  BY DEF IInv, Consistent, CurrentLoaded, Scheduling, ForkTableFull, Caller,
     table, memory, loop, clock
<1>9. ForkSlot'
  BY DEF IInv, Consistent, ForkSlot, ForkTableFull, Caller, table, memory, loop,
     clock
<1>10. Deadlines' /\ SweepMissesNobody'
  BY DEF IInv, Consistent, Deadlines, SweepMissesNobody, Expired, ForkTableFull,
     Caller, table, memory, loop, clock
<1>11. ForkResults'
  BY DEF IInv, Consistent, ForkResults, ForkTableFull, Caller, table, memory,
     loop, clock
<1> QED BY <1>1, <1>2, <1>3, <1>4, <1>5, <1>6, <1>7, <1>8, <1>9, <1>10,
   <1>11 DEF IInv, TypeOK, Consistent, Slots

\* fork without memory.
LEMMA ForkNoMemoryStep ==
  ASSUME IInv, NEW p \in Procs, ForkNoMemory(p)
  PROVE  IInv'
<1>1. TableTypes' /\ SchedulerTypes' /\ ClockTypes' /\ ImpossiblePanics' /\
      NullReady'
  BY DEF IInv, TypeOK, Consistent, TableTypes, SchedulerTypes, ClockTypes,
     ImpossiblePanics, NullReady, ForkNoMemory, Caller, Result, table, loop,
     clock
<1>2. Slots'
  BY QuietActions, QuietStep DEF Quiet
<1>3. MemoryTypes'
  <2>1. StoreR0(p, -1) \in [Procs -> Int \cup {Junk}]
    BY StoreType DEF IInv, TypeOK
  <2> QED BY <2>1 DEF IInv, TypeOK, MemoryTypes, Calls, ForkNoMemory, Result
<1>4. PlaceTypes'
  BY DEF IInv, TypeOK, PlaceTypes, Reasons, PtrTo, KernelPCs, ForkNoMemory,
     Caller, Result, table, loop, clock
<1>5. RunsAsItself'
  BY DEF IInv, RunsAsItself, ForkNoMemory, Caller, Result, table, loop, clock
<1>6. NoCurrentOnlyWhenScheduling'
  BY DEF IInv, NoCurrentOnlyWhenScheduling, ForkNoMemory, Caller, Result, table,
     loop, clock
<1>7. CurrentLive'
  BY SlotFacts DEF IInv, Consistent, CurrentLive, Live, Scheduling,
     ForkNoMemory, Caller, Result, table, loop, clock
<1>8. CurrentLoaded'
  BY DEF IInv, Consistent, CurrentLoaded, Scheduling, ForkNoMemory, Caller,
     Result, table, loop, clock
<1>9. ForkSlot'
  BY DEF IInv, Consistent, ForkSlot, ForkNoMemory, Caller, Result, table, loop,
     clock
<1>10. Deadlines' /\ SweepMissesNobody'
  BY DEF IInv, Consistent, Deadlines, SweepMissesNobody, Expired, ForkNoMemory,
     Caller, Result, table, loop, clock
<1>11. ForkResults'
  BY SlotFacts DEF IInv, TypeOK, Consistent, MemoryTypes, CurrentLoaded,
     ForkResults,
     ForkNoMemory, Caller, Result, StoreR0, table
<1> QED BY <1>1, <1>2, <1>3, <1>4, <1>5, <1>6, <1>7, <1>8, <1>9, <1>10,
   <1>11 DEF IInv, TypeOK, Consistent, Slots

\* fork takes the first free slot and begins to map pages.
LEMMA ForkMapStep ==
  ASSUME IInv, NEW p \in Procs, ForkMap(p)
  PROVE  IInv'
<1>1. /\ child' = curr_pid /\ curr_pid \in Procs /\ state[curr_pid] = "NONE"
      /\ current = p /\ state[p] \in Live /\ ttbr = p /\ p # curr_pid
  <2>1. child' = curr_pid /\ curr_pid \in Procs /\ state[curr_pid] = "NONE"
    BY FirstFreeSlot DEF IInv, TypeOK, SchedulerTypes, ForkMap
  <2>2. current = p /\ state[p] \in Live /\ ttbr = p
    BY SlotFacts DEF IInv, Consistent, CurrentLive, CurrentLoaded, Caller, ForkMap
  <2> QED BY <2>1, <2>2 DEF Live
<1>2. TableTypes' /\ SchedulerTypes' /\ ClockTypes' /\ ImpossiblePanics' /\
      NullReady'
  BY DEF IInv, TypeOK, Consistent, TableTypes, SchedulerTypes, ClockTypes,
     ImpossiblePanics, NullReady, ForkMap, Caller, table, loop, clock
<1>3. Slots'
  BY QuietActions, QuietStep DEF Quiet
<1>4. MemoryTypes'
  BY DEF IInv, TypeOK, MemoryTypes, Calls, ForkMap, Caller, table, loop, clock
<1>5. PlaceTypes'
  BY <1>1 DEF IInv, TypeOK, PlaceTypes, PtrTo, KernelPCs, ForkMap
<1>6. RunsAsItself'
  BY DEF IInv, RunsAsItself, ForkMap, Caller, table, loop, clock
<1>7. NoCurrentOnlyWhenScheduling'
  BY DEF IInv, NoCurrentOnlyWhenScheduling, ForkMap, Caller, table, loop, clock
<1>8. CurrentLive'
  BY DEF IInv, Consistent, CurrentLive, Live, Scheduling, ForkMap, Caller,
     table, loop, clock
<1>9. CurrentLoaded'
  BY <1>1, SlotFacts DEF IInv, TypeOK, Consistent, MemoryTypes, CurrentLoaded,
     Scheduling, Live, ForkMap, Caller, table
<1>10. ForkSlot'
  BY <1>1 DEF IInv, TypeOK, MemoryTypes, ForkSlot, ForkMap
<1>11. Deadlines' /\ SweepMissesNobody'
  BY DEF IInv, Consistent, Deadlines, SweepMissesNobody, Expired, ForkMap,
     Caller, table, loop, clock
<1>12. ForkResults'
  BY DEF IInv, Consistent, TypeOK, TableTypes, MemoryTypes, SchedulerTypes,
     PlaceTypes, PtrTo, ForkResults, KernelPCs, ForkMap, Caller, table, loop,
     clock
<1> QED BY <1>1, <1>2, <1>3, <1>4, <1>5, <1>6, <1>7, <1>8, <1>9, <1>10,
   <1>11, <1>12 DEF IInv, TypeOK, Consistent, Slots

\* exec of something that is no program.
LEMMA ExecFailsStep ==
  ASSUME IInv, NEW p \in Procs, ExecFails(p)
  PROVE  IInv'
<1>1. TableTypes' /\ SchedulerTypes' /\ ClockTypes' /\ ImpossiblePanics' /\
      NullReady'
  BY DEF IInv, TypeOK, Consistent, TableTypes, SchedulerTypes, ClockTypes,
     ImpossiblePanics, NullReady, ExecFails, Caller, table, loop, clock
<1>2. Slots'
  BY QuietActions, QuietStep DEF Quiet
<1>3. MemoryTypes'
  BY DEF IInv, TypeOK, MemoryTypes, Calls, ExecFails, Caller, table, loop, clock
<1>4. PlaceTypes'
  BY DEF IInv, TypeOK, PlaceTypes, Reasons, PtrTo, KernelPCs, ExecFails, Caller,
     table, loop, clock
<1>5. RunsAsItself'
  BY DEF IInv, RunsAsItself, ExecFails, Caller, table, loop, clock
<1>6. NoCurrentOnlyWhenScheduling'
  BY DEF IInv, NoCurrentOnlyWhenScheduling, ExecFails, Caller, table, loop,
     clock
<1>7. CurrentLive'
  BY SlotFacts DEF IInv, Consistent, CurrentLive, Live, Scheduling, ExecFails,
     Caller, table, loop, clock
<1>8. CurrentLoaded'
  BY DEF IInv, Consistent, CurrentLoaded, Scheduling, ExecFails, Caller, table,
     loop, clock
<1>9. ForkSlot'
  BY DEF IInv, Consistent, ForkSlot, ExecFails, Caller, table, loop, clock
<1>10. Deadlines' /\ SweepMissesNobody'
  BY DEF IInv, Consistent, Deadlines, SweepMissesNobody, Expired, ExecFails,
     Caller, table, loop, clock
<1>11. ForkResults'
  BY DEF IInv, Consistent, TypeOK, TableTypes, MemoryTypes, SchedulerTypes,
     PlaceTypes, PtrTo, ForkResults, KernelPCs, ExecFails, Caller, table, loop,
     clock
<1> QED BY <1>1, <1>2, <1>3, <1>4, <1>5, <1>6, <1>7, <1>8, <1>9, <1>10,
   <1>11 DEF IInv, TypeOK, Consistent, Slots

\* exec that has lost the old image and gets no new one.
LEMMA ExecNoMemoryStep ==
  ASSUME IInv, NEW p \in Procs, ExecNoMemory(p)
  PROVE  IInv'
<1>1. SchedulerTypes' /\ ClockTypes' /\ ImpossiblePanics'
  BY DEF IInv, TypeOK, Consistent, SchedulerTypes, ClockTypes, ImpossiblePanics,
     ExecNoMemory, Caller, ExecPoint, loop, clock
<1>2. Slots'
  BY QuietActions, QuietStep DEF Quiet
<1>3. TableTypes'
  BY DEF IInv, TypeOK, TableTypes, States, PtrTo, ExecNoMemory, Caller,
     ExecPoint, loop, clock
<1>4. MemoryTypes'
  BY DEF IInv, TypeOK, MemoryTypes, Calls, ExecNoMemory, Caller, ExecPoint,
     loop, clock
<1>5. PlaceTypes'
  BY DEF IInv, TypeOK, PlaceTypes, Reasons, PtrTo, KernelPCs, ExecNoMemory,
     Caller, ExecPoint, loop, clock
<1>6. RunsAsItself'
  BY DEF IInv, RunsAsItself, ExecNoMemory, Caller, ExecPoint, loop, clock
<1>7. NoCurrentOnlyWhenScheduling'
  BY DEF IInv, NoCurrentOnlyWhenScheduling, ExecNoMemory, Caller, ExecPoint,
     loop, clock
<1>8. CurrentLive'
  BY SlotFacts DEF IInv, Consistent, CurrentLive, Live, Scheduling,
     ExecNoMemory, Caller, ExecPoint, loop, clock
<1>9. NullReady'
  BY DEF IInv, Consistent, NullReady, ExecNoMemory, Caller, ExecPoint, loop,
     clock
<1>10. CurrentLoaded'
  BY DEF IInv, Consistent, TypeOK, TableTypes, MemoryTypes, SchedulerTypes,
     PlaceTypes, PtrTo, CurrentLoaded, Scheduling, KernelPCs, ExecNoMemory,
     Caller, ExecPoint, loop, clock
<1>11. ForkSlot'
  BY DEF IInv, Consistent, ForkSlot, ExecNoMemory, Caller, ExecPoint, loop,
     clock
<1>12. Deadlines' /\ SweepMissesNobody'
  BY DEF IInv, Consistent, Deadlines, SweepMissesNobody, Expired, ExecNoMemory,
     Caller, ExecPoint, loop, clock
<1>13. ForkResults'
  BY DEF IInv, Consistent, TypeOK, TableTypes, MemoryTypes, SchedulerTypes,
     PlaceTypes, PtrTo, ForkResults, KernelPCs, ExecNoMemory, Caller, ExecPoint,
     loop, clock
<1> QED BY <1>1, <1>2, <1>3, <1>4, <1>5, <1>6, <1>7, <1>8, <1>9, <1>10,
   <1>11, <1>12, <1>13 DEF IInv, TypeOK, Consistent, Slots

\* exec begins to map the new image.
LEMMA ExecMapStep ==
  ASSUME IInv, NEW p \in Procs, ExecMap(p)
  PROVE  IInv'
<1>1. SchedulerTypes' /\ ClockTypes' /\ ImpossiblePanics'
  BY DEF IInv, TypeOK, Consistent, SchedulerTypes, ClockTypes, ImpossiblePanics,
     ExecMap, Caller, ExecPoint, loop, clock
<1>2. Slots'
  BY QuietActions, QuietStep DEF Quiet
<1>3. TableTypes'
  BY DEF IInv, TypeOK, TableTypes, States, PtrTo, ExecMap, Caller, ExecPoint,
     loop, clock
<1>4. MemoryTypes'
  BY DEF IInv, TypeOK, MemoryTypes, Calls, ExecMap, Caller, ExecPoint, loop,
     clock
<1>5. PlaceTypes'
  BY DEF IInv, TypeOK, PlaceTypes, Reasons, PtrTo, KernelPCs, ExecMap, Caller,
     ExecPoint, loop, clock
<1>6. RunsAsItself'
  BY DEF IInv, RunsAsItself, ExecMap, Caller, ExecPoint, loop, clock
<1>7. NoCurrentOnlyWhenScheduling'
  BY DEF IInv, NoCurrentOnlyWhenScheduling, ExecMap, Caller, ExecPoint, loop,
     clock
<1>8. CurrentLive'
  BY DEF IInv, Consistent, CurrentLive, Live, Scheduling, ExecMap, Caller,
     ExecPoint, loop, clock
<1>9. NullReady'
  BY DEF IInv, Consistent, NullReady, ExecMap, Caller, ExecPoint, loop, clock
<1>10. CurrentLoaded'
  BY DEF IInv, Consistent, TypeOK, TableTypes, MemoryTypes, SchedulerTypes,
     PlaceTypes, PtrTo, CurrentLoaded, Scheduling, KernelPCs, ExecMap, Caller,
     ExecPoint, loop, clock
<1>11. ForkSlot'
  BY DEF IInv, Consistent, ForkSlot, ExecMap, Caller, ExecPoint, loop, clock
<1>12. Deadlines' /\ SweepMissesNobody'
  BY DEF IInv, Consistent, Deadlines, SweepMissesNobody, Expired, ExecMap,
     Caller, ExecPoint, loop, clock
<1>13. ForkResults'
  BY DEF IInv, Consistent, TypeOK, TableTypes, MemoryTypes, SchedulerTypes,
     PlaceTypes, PtrTo, ForkResults, KernelPCs, ExecMap, Caller, ExecPoint,
     loop, clock
<1> QED BY <1>1, <1>2, <1>3, <1>4, <1>5, <1>6, <1>7, <1>8, <1>9, <1>10,
   <1>11, <1>12, <1>13 DEF IInv, TypeOK, Consistent, Slots

\* An undefined instruction kills the process.
LEMMA UndefinedStep ==
  ASSUME IInv, NEW p \in Procs, Undefined(p)
  PROVE  IInv'
<1>1. current = p /\ pc = "user" /\ state[p] \in Live /\ ttbr = p /\ p # NullProc
  BY SlotFacts DEF IInv, Consistent, CurrentLive, CurrentLoaded, Scheduling, Caller,
     Undefined
<1>2. \A q \in Procs : state'[q] = IF q = p THEN "KILLED" ELSE state[q]
  BY DEF IInv, TypeOK, TableTypes, Undefined
<1>3. MemoryTypes' /\ SchedulerTypes' /\ UnusedBlank' /\ ImpossiblePanics'
  BY DEF IInv, TypeOK, Consistent, MemoryTypes, SchedulerTypes, UnusedBlank,
     ImpossiblePanics, Undefined, Caller, StartScheduler, memory
<1>4. TableTypes'
  BY DEF IInv, TypeOK, TableTypes, States, PtrTo, Undefined, Caller,
     StartScheduler, memory
<1>5. PlaceTypes'
  BY DEF IInv, TypeOK, PlaceTypes, Reasons, PtrTo, KernelPCs, Undefined, Caller,
     StartScheduler, memory
<1>6. ClockTypes'
  BY DEF IInv, TypeOK, ClockTypes, Undefined, StartScheduler, clock
<1>7. PidIsSlot'
  BY SlotFacts DEF IInv, PidIsSlot, Consistent, CurrentLive, Live, Scheduling,
     Undefined, Caller, StartScheduler, memory
<1>8. SleepQueueExact'
  BY SlotFacts DEF IInv, SleepQueueExact, Consistent, CurrentLive, Live,
     Scheduling, Undefined, Caller, StartScheduler, memory
<1>9. WaiterStaysBlocked'
  BY <1>1, <1>2, BlockedStay DEF IInv, TypeOK, Live, Undefined
<1>10. Waiters'
  BY <1>1, <1>2, WaitersStay DEF IInv, TypeOK, Consistent, Undefined
<1>11. RunsAsItself'
  BY DEF IInv, RunsAsItself, Undefined, Caller, StartScheduler, memory
<1>12. NoCurrentOnlyWhenScheduling'
  BY DEF IInv, NoCurrentOnlyWhenScheduling, Undefined, Caller, StartScheduler,
     memory
<1>13. CurrentLive'
  BY DEF IInv, Consistent, CurrentLive, Live, Scheduling, Undefined, Caller,
     StartScheduler, memory
<1>14. NullReady'
  BY DEF IInv, Consistent, NullReady, Undefined, Caller, StartScheduler, memory
<1>15. CurrentLoaded'
  BY DEF IInv, Consistent, TypeOK, TableTypes, MemoryTypes, SchedulerTypes,
     PlaceTypes, PtrTo, CurrentLoaded, Scheduling, KernelPCs, Undefined, Caller,
     StartScheduler, memory
<1>16. ForkSlot'
  BY DEF IInv, Consistent, ForkSlot, Undefined, Caller, StartScheduler, memory
<1>17. Deadlines' /\ SweepMissesNobody'
  BY NobodyDueEarly DEF IInv, Consistent, Deadlines, SweepMissesNobody, Expired,
     Undefined, StartScheduler, clock
<1>18. ForkResults'
  BY DEF IInv, Consistent, ForkResults, Undefined, Caller, StartScheduler, memory
<1> QED BY <1>1, <1>2, <1>3, <1>4, <1>5, <1>6, <1>7, <1>8, <1>9, <1>10,
   <1>11, <1>12, <1>13, <1>14, <1>15, <1>16, <1>17, <1>18 DEF
   IInv, TypeOK, Consistent

-------------------------------------------------------------------------------
(* The invariant.                                                          *)

\* scheduler_init leaves the kernel in a state that satisfies the invariant.
LEMMA InitIInv == Init => IInv
<1> SUFFICES ASSUME Init PROVE IInv
  OBVIOUS
<1>1. TypeOK
  <2>1. TableTypes
    <3>1. state \in [Procs -> States] /\ forked \in [Procs -> BOOLEAN]
      BY DEF Init, States
    <3>2. pid \in [Procs -> Procs] /\ ppid \in [Procs -> Procs]
      BY SlotFacts DEF Init, NullProc, InitProc
    <3>3. waiting_parent \in [Procs -> PtrTo(Procs)] /\ exit_status \in [Procs -> Int]
      BY DEF Init, PtrTo
    <3> QED BY <3>1, <3>2, <3>3 DEF TableTypes
  <2>2. MemoryTypes
    BY SlotFacts, SchedAssumption DEF Init, MemoryTypes, Calls
  <2>3. SchedulerTypes
    <3>1. sleep_queue \in Seq(Procs)
      BY EmptySeq DEF Init
    <3>2. tick \in 0 .. (PreemptTicks - 1) /\ curr_pid \in 0 .. MaxProcesses
      BY SchedAssumption DEF Init
    <3> QED BY <3>1, <3>2 DEF Init, SchedulerTypes, PtrTo
  <2>4. PlaceTypes /\ ClockTypes
    BY SchedAssumption DEF Init, PlaceTypes, ClockTypes, KernelPCs, PtrTo, Reasons
  <2> QED BY <2>1, <2>2, <2>3, <2>4 DEF TypeOK
<1>2. PidIsSlot
  BY SlotFacts DEF Init, PidIsSlot, NullProc, InitProc
<1>3. SleepQueueExact
  <2>1. DOMAIN sleep_queue = {}
    BY DEF Init
  <2> QED BY <2>1, SlotFacts DEF Init, SleepQueueExact
<1>4. WaiterStaysBlocked /\ RunsAsItself
  BY DEF Init, WaiterStaysBlocked, RunsAsItself
<1>5. NoCurrentOnlyWhenScheduling /\ ImpossiblePanics
  BY DEF Init, NoCurrentOnlyWhenScheduling, ImpossiblePanics
<1>6. UnusedBlank /\ CurrentLive /\ NullReady
  BY SlotFacts DEF Init, UnusedBlank, CurrentLive, NullReady, Scheduling
<1>7. CurrentLoaded /\ ForkSlot
  BY DEF Init, CurrentLoaded, ForkSlot, Scheduling
<1>8. Waiters /\ Deadlines /\ SweepMissesNobody /\ ForkResults
  BY DEF Init, Waiters, Deadlines, SweepMissesNobody, ForkResults
<1> QED BY <1>1, <1>2, <1>3, <1>4, <1>5, <1>6, <1>7, <1>8 DEF IInv, Consistent

\* Stuttering, and a kernel that has panicked.
LEMMA Unchanged == IInv /\ UNCHANGED vars => IInv'
<1> SUFFICES ASSUME IInv, UNCHANGED vars PROVE IInv'
  OBVIOUS
<1>1. TypeOK'
  BY DEF IInv, TypeOK, TableTypes, MemoryTypes, SchedulerTypes, PlaceTypes,
     ClockTypes, vars
<1>2. PidIsSlot' /\ SleepQueueExact' /\ WaiterStaysBlocked'
  BY DEF IInv, PidIsSlot, SleepQueueExact, WaiterStaysBlocked, vars
<1>3. RunsAsItself' /\ NoCurrentOnlyWhenScheduling' /\ ImpossiblePanics'
  BY DEF IInv, RunsAsItself, NoCurrentOnlyWhenScheduling, ImpossiblePanics, vars
<1>4. UnusedBlank' /\ CurrentLive' /\ NullReady' /\ CurrentLoaded' /\ ForkSlot'
  BY DEF IInv, Consistent, UnusedBlank, CurrentLive, NullReady, CurrentLoaded,
     ForkSlot, vars
<1>5. Waiters' /\ Deadlines' /\ SweepMissesNobody' /\ ForkResults'
  BY DEF IInv, Consistent, Waiters, Deadlines, SweepMissesNobody, Expired,
     ForkResults, vars
<1> QED BY <1>1, <1>2, <1>3, <1>4, <1>5 DEF IInv, Consistent

\* Every step preserves the invariant.
LEMMA NextIInv == IInv /\ [Next]_vars => IInv'
<1> SUFFICES ASSUME IInv, [Next]_vars PROVE IInv'
  OBVIOUS
<1>1. CASE TimerIrqUser \/ TimerIrqKernel \/ Clock
  BY <1>1, TimerIrqUserStep, TimerIrqKernelStep, ClockStep
<1>2. CASE KernelStep
  BY <1>2, SweepWakeStep, SweepSkipStep, SweepDoneStep, PickStep, SwitchStep,
     ResumeStep, ReturnStep, RestoreStep, ForkDoneStep, ExecDoneStep DEF KernelStep
<1>3. CASE UserStep
  BY <1>3, GetPidStep, YieldStep, UsleepStep, WaitpidFailsStep, WaitpidStep,
     ExitStep,
     ForkTableFullStep, ForkNoMemoryStep, ForkMapStep, ExecFailsStep,
     ExecNoMemoryStep, ExecMapStep, UndefinedStep DEF UserStep
<1>4. CASE Halted \/ UNCHANGED vars
  BY <1>4, Unchanged DEF Halted
<1> QED BY <1>1, <1>2, <1>3, <1>4 DEF Next

\* The invariant holds in every reachable state, for any size of the table, any
\* tick period and any longest sleep.
THEOREM SchedInvariant == Spec => []IInv
<1> QED BY InitIInv, NextIInv, PTL DEF Spec

-------------------------------------------------------------------------------
(* What it implies.                                                        *)

\* The variables keep their types: no pid beyond the table, no undefined state.
THEOREM SchedTypes == Spec => []TypeOK
<1>1. IInv => TypeOK
  BY DEF IInv
<1> QED BY <1>1, SchedInvariant, PTL

\* A pid is a slot number: slots are taken in order and never given back.
THEOREM PidsAreSlots == Spec => []PidIsSlot
<1>1. IInv => PidIsSlot
  BY DEF IInv
<1> QED BY <1>1, SchedInvariant, PTL

\* sleep_queue and the SLEEPING states agree, in spite of the tick, the sweep and
\* the system calls that write a process's state on their own.
THEOREM SleepQueueIsExact == Spec => []SleepQueueExact
<1>1. IInv => SleepQueueExact
  BY DEF IInv
<1> QED BY <1>1, SchedInvariant, PTL

\* The sweep takes entries out of the queue it goes through and passes by nobody.
THEOREM NobodyIsMissed == Spec => []SweepMissesNobody
<1>1. IInv => SweepMissesNobody
  BY DEF IInv
<1> QED BY <1>1, SchedInvariant, PTL

\* sys_exit may write READY into the waiting parent without looking.
THEOREM WaitersStayBlocked == Spec => []WaiterStaysBlocked
<1>1. IInv => WaiterStaysBlocked
  BY DEF IInv
<1> QED BY <1>1, SchedInvariant, PTL

\* What the handlers rely on when they read the table: who runs, who waits for
\* whom, which sleepers are due, which slot a fork is filling, what it returns.
THEOREM HandlersFindTheTableAsLeft == Spec => []Consistent
<1>1. IInv => Consistent
  BY DEF IInv
<1> QED BY <1>1, SchedInvariant, PTL

\* There is always a process to run, and always room in the sleep queue.
THEOREM PanicsAreImpossible == Spec => []ImpossiblePanics
<1>1. IInv => ImpossiblePanics
  BY DEF IInv
<1> QED BY <1>1, SchedInvariant, PTL

\* A program runs only while it is live, under its own tables.
THEOREM ProgramsRunAsThemselves == Spec => []RunsAsItself
<1>1. IInv => RunsAsItself
  BY DEF IInv
<1> QED BY <1>1, SchedInvariant, PTL

\* current_process is null only on the way through the scheduler.
THEOREM NullOnlyWhenScheduling == Spec => []NoCurrentOnlyWhenScheduling
<1>1. IInv => NoCurrentOnlyWhenScheduling
  BY DEF IInv
<1> QED BY <1>1, SchedInvariant, PTL

\* fork returns twice, with the values it should.
THEOREM ForkReturnsTwiceAlways == Spec => []ForkReturnsTwice
<1>1. IInv => ForkReturnsTwice
  <2> SUFFICES ASSUME IInv, pc = "restore" PROVE ForkReturnsTwice
    BY DEF ForkReturnsTwice
  <2>1. current \in Procs /\ pid[current] = current
    <3>1. current \in Procs /\ state[current] # "NONE"
      BY DEF IInv, TypeOK, Consistent, SchedulerTypes, PtrTo, CurrentLive,
         NoCurrentOnlyWhenScheduling
    <3> QED BY <3>1 DEF IInv, PidIsSlot
  <2>2. call[current] = "born" => r0[current] = 0
    BY <2>1 DEF IInv, Consistent, ForkResults
  <2>3. ASSUME call[current] = "fork", r0[current] # -1
        PROVE  /\ r0[current] \in Procs \ {NullProc, InitProc}
               /\ pid[r0[current]] = r0[current]
               /\ ppid[r0[current]] = pid[current]
    <3>1. r0[current] \in 2 .. (curr_pid - 1) /\ ppid[r0[current]] = current
      BY <2>1, <2>3 DEF IInv, Consistent, ForkResults
    <3>2. r0[current] \in Procs \ {NullProc, InitProc} /\ r0[current] < curr_pid
      BY <3>1, SlotFacts
      DEF IInv, TypeOK, SchedulerTypes, Procs, NullProc, InitProc
    <3> QED BY <2>1, <3>1, <3>2 DEF IInv, PidIsSlot
  <2> QED BY <2>2, <2>3 DEF ForkReturnsTwice
<1> QED BY <1>1, SchedInvariant, PTL

-------------------------------------------------------------------------------
(* What a step may do to a process.                                        *)

\* A step that is not Quiet is one of these.
LEMMA StepKinds ==
  ASSUME IInv, [Next]_vars
  PROVE  \/ SameKind
         \/ SweepWake
         \/ ForkDone
         \/ \E p \in Procs : \/ \E n \in 0 .. MaxNap : Usleep(p, n)
                             \/ \E n \in Procs : Waitpid(p, n)
                             \/ \E code \in ExitCodes : Exit(p, code)
                             \/ Undefined(p)
<1>1. CASE UNCHANGED vars \/ Halted
  BY <1>1 DEF SameKind, Halted, vars
<1>2. CASE TimerIrqUser \/ TimerIrqKernel \/ Clock
  BY <1>2, QuietActions DEF Kept, Quiet
<1>3. CASE KernelStep
  BY <1>3, QuietActions DEF Kept, Quiet, KernelStep
<1>4. CASE UserStep
  BY <1>4, QuietActions DEF Kept, Quiet, UserStep
<1> QED BY <1>1, <1>2, <1>3, <1>4 DEF Next

\* Which process a step that is not Quiet changes, and how.
LEMMA Changes ==
  ASSUME IInv, [Next]_vars, NEW p \in Procs, state'[p] # state[p]
  PROVE  \/ SameKind
         \/ /\ state[p] = "SLEEPING" /\ state'[p] = "READY" /\ SweepWake
            /\ p = sleep_queue[i]
         \/ state[p] = "NONE" /\ state'[p] = "READY"
         \/ state[p] \in Live /\ state'[p] \in {"SLEEPING", "BLOCKED", "KILLED"}
         \/ /\ state[p] = "BLOCKED" /\ state'[p] = "READY"
            /\ \E c \in Procs : /\ waiting_parent[c] = p
                                /\ state[c] \in Live /\ state'[c] = "KILLED"
<1>1. CASE SweepWake
  <2>1. i \in DOMAIN sleep_queue /\ sleep_queue[i] \in Procs
    <3>1. i \in DOMAIN sleep_queue
      BY <1>1, LenProperties DEF IInv, TypeOK, SchedulerTypes, ClockTypes,
         SweepWake
    <3> QED BY <3>1, ElementOfSeq DEF IInv, TypeOK, SchedulerTypes
  <2>2. state[sleep_queue[i]] = "SLEEPING"
    BY <2>1 DEF IInv, SleepQueueExact
  <2> QED BY <1>1, <2>1, <2>2 DEF IInv, TypeOK, TableTypes, SweepWake
<1>2. CASE ForkDone
  <2>1. state[child] = "NONE"
    <3>1. pc = "fork" /\ child = curr_pid
      BY <1>2 DEF IInv, Consistent, ForkSlot, ForkDone
    <3>2. child \in Procs
      BY <3>1, SchedAssumption DEF IInv, TypeOK, SchedulerTypes, PlaceTypes, PtrTo
    <3> QED BY <3>1, <3>2, SlotFacts DEF IInv, PidIsSlot
  <2> QED BY <1>2, <2>1 DEF IInv, TypeOK, TableTypes, ForkDone
<1>3. ASSUME NEW q \in Procs, NEW n \in 0 .. MaxNap, Usleep(q, n)
      PROVE  state[p] \in Live /\ state'[p] = "SLEEPING"
  <2>1. state[q] \in Live
    BY <1>3, SlotFacts DEF IInv, Consistent, CurrentLive, Scheduling, Usleep, Caller
  <2> QED BY <1>3, <2>1 DEF IInv, TypeOK, TableTypes, Usleep
<1>4. ASSUME NEW q \in Procs, NEW n \in Procs, Waitpid(q, n)
      PROVE  state[p] \in Live /\ state'[p] = "BLOCKED"
  <2>1. state[q] \in Live
    BY <1>4, SlotFacts DEF IInv, Consistent, CurrentLive, Scheduling, Waitpid,
       Caller
  <2> QED BY <1>4, <2>1 DEF IInv, TypeOK, TableTypes, Waitpid
<1>5. ASSUME NEW q \in Procs, Undefined(q)
      PROVE  state[p] \in Live /\ state'[p] = "KILLED"
  <2>1. state[q] \in Live
    BY <1>5, SlotFacts DEF IInv, Consistent, CurrentLive, Scheduling, Undefined,
       Caller
  <2> QED BY <1>5, <2>1 DEF IInv, TypeOK, TableTypes, Undefined
<1>6. ASSUME NEW q \in Procs, NEW code \in ExitCodes, Exit(q, code)
      PROVE  \/ state[p] \in Live /\ state'[p] = "KILLED"
             \/ /\ state[p] = "BLOCKED" /\ state'[p] = "READY"
                /\ \E c \in Procs : /\ waiting_parent[c] = p
                                    /\ state[c] \in Live /\ state'[c] = "KILLED"
  <2>1. state[q] \in Live
    BY <1>6, SlotFacts DEF IInv, Consistent, CurrentLive, Scheduling, Exit, Caller
  <2>2. state'[q] = "KILLED"
    BY <1>6 DEF Exit
  <2>3. CASE p = q
    BY <2>1, <2>2, <2>3
  <2>4. CASE p # q
    <3>1. p = waiting_parent[q] /\ state'[p] = "READY"
      BY <1>6, <2>4 DEF Exit, Woken
    <3>2. state[p] = "BLOCKED"
      BY <2>1, <3>1, SlotFacts DEF IInv, WaiterStaysBlocked, Live
    <3> QED BY <2>1, <2>2, <3>1, <3>2
  <2> QED BY <2>3, <2>4
<1> QED BY <1>1, <1>2, <1>3, <1>4, <1>5, <1>6, StepKinds

\* Death is for ever: no tick, sweep, exit or fork brings a dead process back.
THEOREM TheDeadStayDead == Spec => DeadStaysDead
<1>1. ASSUME IInv, [Next]_vars, NEW p \in Procs, state[p] = "KILLED"
      PROVE  state'[p] = "KILLED"
  BY <1>1, Changes DEF SameKind, Live
<1>2. IInv /\ [Next]_vars => [\A p \in Procs : state[p] = "KILLED" => state'[p] = "KILLED"]_vars
  BY <1>1
<1> QED BY <1>2, SchedInvariant, PTL DEF Spec, DeadStaysDead

\* Only the sweep ends a sleep, and not early.
THEOREM SleepersSleepUntilDue == Spec => SleepsUntilDue
<1>1. ASSUME IInv, [Next]_vars, NEW p \in Procs,
             state[p] = "SLEEPING", state'[p] # "SLEEPING"
      PROVE  state'[p] = "READY" /\ pc = "sweep" /\ wake[p] = 0
  <2>1. state'[p] = "READY" /\ SweepWake /\ p = sleep_queue[i]
    BY <1>1, Changes DEF SameKind, Live
  <2> QED BY <1>1, <2>1 DEF IInv, TypeOK, ClockTypes, Consistent, Deadlines,
            SweepWake
<1>2. IInv /\ [Next]_vars =>
        [\A p \in Procs : state[p] = "SLEEPING" /\ state'[p] # "SLEEPING"
           => state'[p] = "READY" /\ pc = "sweep" /\ wake[p] = 0]_vars
  BY <1>1
<1> QED BY <1>2, SchedInvariant, PTL DEF Spec, SleepsUntilDue

\* Only the death of a child that is waited for ends a wait.
THEOREM WaitersWaitForTheirChild == Spec => WaitsForItsChild
<1>1. ASSUME IInv, [Next]_vars, NEW p \in Procs,
             state[p] = "BLOCKED", state'[p] # "BLOCKED"
      PROVE  /\ state'[p] = "READY"
             /\ \E c \in Procs : /\ waiting_parent[c] = p /\ ppid[c] = pid[p]
                                 /\ state[c] # "KILLED" /\ state'[c] = "KILLED"
  <2>1. /\ state'[p] = "READY"
        /\ \E c \in Procs : /\ waiting_parent[c] = p
                            /\ state[c] \in Live /\ state'[c] = "KILLED"
    BY <1>1, Changes DEF SameKind, Live
  <2>2. \A c \in Procs : waiting_parent[c] = p => ppid[c] = p
    BY <1>1, SlotFacts DEF IInv, Consistent, Waiters
  <2>3. pid[p] = p
    BY <1>1 DEF IInv, PidIsSlot
  <2> QED BY <2>1, <2>2, <2>3 DEF Live
<1>2. IInv /\ [Next]_vars =>
        [\A p \in Procs : state[p] = "BLOCKED" /\ state'[p] # "BLOCKED"
           => /\ state'[p] = "READY"
              /\ \E c \in Procs : /\ waiting_parent[c] = p /\ ppid[c] = pid[p]
                                  /\ state[c] # "KILLED" /\ state'[c] = "KILLED"]_vars
  BY <1>1
<1> QED BY <1>2, SchedInvariant, PTL DEF Spec, WaitsForItsChild

-------------------------------------------------------------------------------
(* Sched implements Lifecycle.                                             *)

\* The current process has the processor here.
OnCPU ==
  \/ pc \in {"user", "resume", "restore", "fork", "exec", "halted"}
  \/ pc = "return" /\ ~schedule_next

Lives == [p \in Procs |-> Life(p)]

\* Life, state by state.
LEMMA LifeNow ==
  ASSUME TableTypes, NEW p \in Procs
  PROVE  /\ Life(p) = "absent" <=> state[p] = "NONE"
         /\ Life(p) = "asleep" <=> state[p] = "SLEEPING"
         /\ Life(p) = "waiting" <=> state[p] = "BLOCKED"
         /\ Life(p) = "dead" <=> state[p] = "KILLED"
         /\ Life(p) = "running" <=> state[p] \in Live /\ current = p /\ OnCPU
         /\ Life(p) = "ready" <=> state[p] \in Live /\ ~(current = p /\ OnCPU)
BY DEF TableTypes, States, Live, Life, HasCPU, OnCPU

LEMMA LifeNext ==
  ASSUME TableTypes', NEW p \in Procs
  PROVE  /\ Life(p)' = "absent" <=> state'[p] = "NONE"
         /\ Life(p)' = "asleep" <=> state'[p] = "SLEEPING"
         /\ Life(p)' = "waiting" <=> state'[p] = "BLOCKED"
         /\ Life(p)' = "dead" <=> state'[p] = "KILLED"
         /\ Life(p)' = "running" <=> state'[p] \in Live /\ current' = p /\ OnCPU'
         /\ Life(p)' = "ready" <=> state'[p] \in Live /\ ~(current' = p /\ OnCPU')
BY DEF TableTypes, States, Live, Life, HasCPU, OnCPU

-------------------------------------------------------------------------------
(* Steps that leave every process what it is.                              *)

LEMMA KeptLives ==
  ASSUME IInv, IInv', Kept, NEW p \in Procs
  PROVE  /\ state[p] \notin Live => Life(p)' = Life(p)
         /\ state[p] \in Live <=> state'[p] \in Live
         /\ (current' = p /\ OnCPU') <=> (current = p /\ OnCPU) => Life(p)' = Life(p)
<1>1. /\ \A s \in {"NONE", "SLEEPING", "BLOCKED", "KILLED"} : state'[p] = s <=> state[p] = s
      /\ state[p] \in States /\ state'[p] \in States
  BY DEF Kept, SameKind, IInv, TypeOK, TableTypes
<1>2. state[p] \in Live <=> state'[p] \in Live
  BY <1>1 DEF Live, States
<1>3. TableTypes /\ TableTypes'
  BY DEF IInv, TypeOK
<1> QED BY <1>1, <1>2, <1>3, LifeNow, LifeNext DEF States, Live

\* Nobody gets or loses the processor.
LEMMA NobodyMoves ==
  ASSUME IInv, IInv', Kept, UNCHANGED wake,
         \A p \in Procs : (current' = p /\ OnCPU') <=> (current = p /\ OnCPU)
  PROVE  UNCHANGED Abstract!vars
<1>1. \A p \in Procs : Life(p)' = Life(p)
  BY KeptLives
<1>2. Lives' = Lives
  BY <1>1 DEF Lives
<1> QED BY <1>2 DEF Kept, Lives, Abstract!vars

\* The current process loses it.
LEMMA CurrentLoses ==
  ASSUME IInv, IInv', Kept, UNCHANGED wake,
         NEW p \in Procs, current = p, state[p] \in Live, OnCPU, ~OnCPU'
  PROVE  Abstract!Deschedule(p)
<1>1. TableTypes /\ TableTypes'
  BY DEF IInv, TypeOK
<1>2. Life(p) = "running"
  BY <1>1, LifeNow
<1>3. Life(p)' = "ready"
  BY <1>1, KeptLives, LifeNext
<1>4. \A q \in Procs : q # p => Life(q)' = Life(q)
  BY KeptLives
<1>5. Lives' = [Lives EXCEPT ![p] = "ready"]
  BY <1>3, <1>4 DEF Lives
<1> QED BY <1>2, <1>5 DEF Kept, Lives, Abstract!Deschedule, Abstract!Becomes

\* A READY process gets it.
LEMMA ReadyGains ==
  ASSUME IInv, IInv', Kept, UNCHANGED wake,
         NEW p \in Procs, state[p] = "READY", ~OnCPU, OnCPU', current' = p
  PROVE  Abstract!Dispatch(p)
<1>1. TableTypes /\ TableTypes'
  BY DEF IInv, TypeOK
<1>2. Life(p) = "ready"
  BY <1>1, LifeNow DEF Live
<1>3. \A q \in Procs : Life(q) # "running"
  BY <1>1, LifeNow
<1>4. Life(p)' = "running"
  BY <1>1, KeptLives, LifeNext DEF Live
<1>5. \A q \in Procs : q # p => Life(q)' = Life(q)
  BY KeptLives
<1>6. Lives' = [Lives EXCEPT ![p] = "running"]
  BY <1>4, <1>5 DEF Lives
<1> QED BY <1>2, <1>3, <1>6 DEF Kept, Lives, Abstract!Dispatch, Abstract!Becomes

\* The steps that leave the current process the current one give the processor
\* to nobody, and only take it from a live process.
LEMMA QuietCPU ==
  ASSUME IInv, Quiet, ~Clock, ~Switch
  PROVE  /\ UNCHANGED <<current, wake>>
         /\ OnCPU' => OnCPU
         /\ OnCPU /\ ~OnCPU' => current \in Procs /\ state[current] \in Live
<1>1. CASE TimerIrqUser
  BY <1>1 DEF IInv, TypeOK, Consistent, SchedulerTypes, PtrTo, CurrentLive, Scheduling,
     NoCurrentOnlyWhenScheduling, OnCPU, TimerIrqUser, Tick, clock
<1>2. CASE TimerIrqKernel
  BY <1>2 DEF IInv, TypeOK, Consistent, SchedulerTypes, PtrTo, CurrentLive, Scheduling,
     NoCurrentOnlyWhenScheduling, OnCPU, TimerIrqKernel, Tick, KernelPCs,
     clock
<1>3. CASE SweepSkip \/ SweepDone
  BY <1>3 DEF OnCPU, SweepSkip, SweepDone, clock
<1>4. CASE Pick
  <2>1. ImpossiblePanics'
    BY <1>4, PickStep DEF IInv
  <2> QED BY <1>4, <2>1 DEF ImpossiblePanics, OnCPU, Pick, clock
<1>5. CASE Resume \/ Return \/ Restore
  BY <1>5 DEF OnCPU, Resume, Return, Restore, StartScheduler, clock
<1>6. CASE ExecDone
  BY <1>6 DEF IInv, TypeOK, Consistent, SchedulerTypes, PtrTo, CurrentLive, Scheduling,
     NoCurrentOnlyWhenScheduling, OnCPU, ExecDone, clock
<1>7. ASSUME NEW p \in Procs,
             \/ GetPid(p) \/ Yield(p) \/ \E n \in Procs : WaitpidFails(p, n)
             \/ ForkTableFull(p) \/ ForkNoMemory(p) \/ ForkMap(p)
             \/ ExecFails(p) \/ ExecNoMemory(p) \/ ExecMap(p)
      PROVE  /\ UNCHANGED <<current, wake>>
             /\ OnCPU' => OnCPU
             /\ OnCPU /\ ~OnCPU' => current \in Procs /\ state[current] \in Live
  <2>1. Caller(p)
    BY <1>7 DEF GetPid, Yield, WaitpidFails, ForkTableFull, ForkNoMemory, ForkMap,
       ExecFails, ExecNoMemory, ExecMap, ExecPoint
  <2>2. UNCHANGED <<current, wake>>
    BY <1>7 DEF GetPid, Yield, WaitpidFails, ForkTableFull, ForkNoMemory, ForkMap,
       ExecFails, ExecNoMemory, ExecMap, ExecPoint, clock
  <2>3. OnCPU /\ current = p /\ state[p] \in Live
    BY <2>1, SlotFacts DEF IInv, Consistent, CurrentLive, Scheduling, Caller, OnCPU
  <2> QED BY <2>2, <2>3
<1> QED BY <1>1, <1>2, <1>3, <1>4, <1>5, <1>6, <1>7 DEF Quiet

LEMMA QuietMaps ==
  ASSUME IInv, IInv', Quiet
  PROVE  Abstract!Next \/ UNCHANGED Abstract!vars
<1>1. Kept
  BY QuietActions
<1>2. CASE Clock
  <2>1. \A p \in Procs : Life(p)' = Life(p)
    BY <1>1, <1>2, KeptLives DEF Clock, OnCPU
  <2>2. Lives' = Lives
    BY <2>1 DEF Lives
  <2>3. Abstract!TimePasses
    BY <1>2, <2>2 DEF Clock, Lives, table, Abstract!TimePasses
  <2> QED BY <2>3 DEF Abstract!Next
<1>3. CASE Switch
  <2>1. next_process \in Procs /\ state[next_process] = "READY"
    BY <1>3 DEF IInv, TypeOK, Consistent, SchedulerTypes, PtrTo, CurrentLoaded, Switch
  <2>2. current' = next_process /\ UNCHANGED wake /\ ~OnCPU /\ OnCPU'
    BY <1>3 DEF Switch, OnCPU, clock
  <2>3. Abstract!Dispatch(next_process)
    BY <1>1, <2>1, <2>2, ReadyGains
  <2> QED BY <2>1, <2>3 DEF Abstract!Next
<1>4. CASE ~Clock /\ ~Switch
  <2>1. /\ UNCHANGED <<current, wake>>
        /\ OnCPU' => OnCPU
        /\ OnCPU /\ ~OnCPU' => current \in Procs /\ state[current] \in Live
    BY <1>4, QuietCPU
  <2>2. CASE OnCPU' <=> OnCPU
    BY <1>1, <2>1, <2>2, NobodyMoves
  <2>3. CASE OnCPU /\ ~OnCPU'
    <3>1. PICK p \in Procs : p = current
      BY <2>1, <2>3
    <3>2. Abstract!Deschedule(p)
      BY <1>1, <2>1, <2>3, <3>1, CurrentLoses
    <3> QED BY <3>2 DEF Abstract!Next
  <2> QED BY <2>1, <2>2, <2>3
<1> QED BY <1>2, <1>3, <1>4

-------------------------------------------------------------------------------
(* Steps that make a process something else.                               *)

LEMMA SameLife ==
  ASSUME TableTypes, TableTypes', NEW q \in Procs, state'[q] = state[q],
         (current' = q /\ OnCPU') <=> (current = q /\ OnCPU)
  PROVE  Life(q)' = Life(q)
<1>1. state[q] \in {"NONE", "SLEEPING", "BLOCKED", "KILLED"} \cup Live
  BY DEF TableTypes, States, Live
<1> QED BY <1>1, LifeNow, LifeNext

\* A process that makes a system call is the running one.
LEMMA CallerRuns ==
  ASSUME IInv, NEW p \in Procs, Caller(p)
  PROVE  Life(p) = "running" /\ state[p] \in Live /\ current = p /\ OnCPU
<1>1. state[p] \in Live /\ current = p /\ OnCPU
  BY SlotFacts DEF IInv, Consistent, CurrentLive, Scheduling, Caller, OnCPU
<1> QED BY <1>1, LifeNow DEF IInv, TypeOK

LEMMA SweepWakeMaps ==
  ASSUME IInv, IInv', SweepWake
  PROVE  \E p \in Procs : Abstract!Wake(p)
<1>1. PICK p \in Procs : p = sleep_queue[i] /\ state[p] = "SLEEPING"
  <2>1. i \in DOMAIN sleep_queue
    BY LenProperties DEF IInv, TypeOK, SchedulerTypes, ClockTypes, SweepWake
  <2>2. sleep_queue[i] \in Procs
    BY <2>1, ElementOfSeq DEF IInv, TypeOK, SchedulerTypes
  <2> QED BY <2>1, <2>2 DEF IInv, SleepQueueExact
<1>2. TableTypes /\ TableTypes' /\ ~OnCPU /\ ~OnCPU'
  BY DEF IInv, TypeOK, SweepWake, OnCPU
<1>3. state'[p] = "READY" /\ \A q \in Procs : q # p => state'[q] = state[q]
  BY <1>1, <1>2 DEF SweepWake, TableTypes
<1>4. Life(p) = "asleep" /\ Life(p)' = "ready"
  BY <1>1, <1>2, <1>3, LifeNow, LifeNext DEF Live
<1>5. \A q \in Procs : q # p => Life(q)' = Life(q)
  BY <1>2, <1>3, SameLife
<1>6. Lives' = [Lives EXCEPT ![p] = "ready"]
  BY <1>4, <1>5 DEF Lives
<1>7. wake[p] = 0 /\ UNCHANGED <<wake, ppid, waiting_parent>>
  BY <1>1 DEF IInv, TypeOK, ClockTypes, Consistent, Deadlines, SweepWake
<1> QED BY <1>4, <1>6, <1>7 DEF Lives, Abstract!Wake, Abstract!Becomes

LEMMA UsleepMaps ==
  ASSUME IInv, IInv', NEW p \in Procs, NEW n \in 0 .. MaxNap, Usleep(p, n)
  PROVE  Abstract!Sleep(p, n)
<1>1. TableTypes /\ TableTypes' /\ Caller(p)
  BY DEF IInv, TypeOK, Usleep
<1>2. Life(p) = "running" /\ current = p /\ current' = p
  BY <1>1, CallerRuns DEF Usleep
<1>3. state'[p] = "SLEEPING" /\ \A q \in Procs : q # p => state'[q] = state[q]
  BY <1>1 DEF Usleep, TableTypes
<1>4. Life(p)' = "asleep"
  BY <1>1, <1>3, LifeNext
<1>5. \A q \in Procs : q # p => Life(q)' = Life(q)
  BY <1>1, <1>2, <1>3, SameLife
<1>6. Lives' = [Lives EXCEPT ![p] = "asleep"]
  BY <1>4, <1>5 DEF Lives
<1> QED BY <1>2, <1>6 DEF Usleep, Lives, Abstract!Sleep, Abstract!Becomes

LEMMA WaitpidMaps ==
  ASSUME IInv, IInv', NEW p \in Procs, NEW n \in Procs, Waitpid(p, n)
  PROVE  Abstract!Wait(p, n)
<1>1. TableTypes /\ TableTypes' /\ Caller(p)
  BY DEF IInv, TypeOK, Waitpid
<1>2. Life(p) = "running" /\ current = p /\ current' # p /\ state[p] \in Live
      /\ ~\E q \in Procs : current' = q
  BY <1>1, CallerRuns, SlotFacts DEF Waitpid, GiveUpCPU
<1>3. state'[p] = "BLOCKED" /\ \A q \in Procs : q # p => state'[q] = state[q]
  BY <1>1 DEF Waitpid, TableTypes
<1>4. Life(p)' = "waiting"
  BY <1>1, <1>3, LifeNext
<1>5. \A q \in Procs : q # p => Life(q)' = Life(q)
  BY <1>1, <1>2, <1>3, SameLife
<1>6. Lives' = [Lives EXCEPT ![p] = "waiting"]
  BY <1>4, <1>5 DEF Lives
<1>7. n < curr_pid /\ ByPid(n) = n
  <2>1. curr_pid \in 1 .. MaxProcesses
    BY DEF IInv, TypeOK, SchedulerTypes, Consistent, UnusedBlank
  <2> QED BY <2>1, PidFindsSlot DEF IInv, Waitpid, IsChild
<1>8. state[n] # "NONE" /\ pid[p] = p
  <2>1. state[p] # "NONE"
    BY <1>2 DEF Live
  <2> QED BY <1>7, <2>1 DEF IInv, PidIsSlot
<1>9. ppid[n] = p /\ Life(n) # "absent"
  BY <1>1, <1>7, <1>8, LifeNow DEF Waitpid, IsChild
<1>10. waiting_parent[n] \in {p, NULL}
  BY <1>9 DEF IInv, Consistent, Waiters
<1>11. waiting_parent' = [waiting_parent EXCEPT ![n] = p] /\ UNCHANGED <<wake, ppid>>
  BY <1>7 DEF Waitpid, clock
<1> QED BY <1>2, <1>6, <1>9, <1>10, <1>11 DEF Lives, Abstract!Wait, Abstract!Becomes

LEMMA ExitMaps ==
  ASSUME IInv, IInv', NEW p \in Procs, NEW code \in ExitCodes, Exit(p, code)
  PROVE  Abstract!Exit(p)
<1>1. TableTypes /\ TableTypes' /\ Caller(p)
  BY DEF IInv, TypeOK, Exit
<1>2. Life(p) = "running" /\ current = p /\ state[p] \in Live
      /\ ~\E q \in Procs : current' = q
  BY <1>1, CallerRuns, SlotFacts DEF Exit, GiveUpCPU
<1>3. waiting_parent[p] # NULL => state[waiting_parent[p]] = "BLOCKED"
  BY <1>2 DEF IInv, WaiterStaysBlocked, Live
<1>4. Life(p)' = "dead"
  BY <1>1, LifeNext DEF Exit
<1>5. ASSUME NEW q \in Procs, q # p, q = waiting_parent[p]
      PROVE  Life(q) = "waiting" /\ Life(q)' = "ready"
  <2>1. q # NULL
    BY SlotFacts
  <2>2. state[q] = "BLOCKED" /\ state'[q] = "READY"
    BY <1>3, <1>5, <2>1 DEF Exit, Woken
  <2> QED BY <1>1, <1>2, <2>2, LifeNow, LifeNext DEF Live
<1>6. ASSUME NEW q \in Procs, q # p, q # waiting_parent[p]
      PROVE  Life(q)' = Life(q)
  <2>1. state'[q] = state[q]
    BY <1>6 DEF Exit, Woken
  <2> QED BY <1>1, <1>2, <1>6, <2>1, SameLife
<1>7. Lives' = [q \in Procs |-> IF q = p THEN "dead"
                                ELSE IF q = waiting_parent[p] THEN "ready" ELSE Lives[q]]
  BY <1>4, <1>5, <1>6 DEF Lives
<1>8. waiting_parent[p] # NULL => Lives[waiting_parent[p]] = "waiting"
  <2>1. waiting_parent[p] # NULL => waiting_parent[p] \in Procs /\ waiting_parent[p] # p
    BY <1>1, <1>2, <1>3 DEF TableTypes, PtrTo, Live
  <2> QED BY <1>5, <2>1 DEF Lives
<1>9. Lives[p] = "running" /\ UNCHANGED <<wake, ppid, waiting_parent>>
  BY <1>2 DEF Lives, Exit, clock
<1> QED BY <1>7, <1>8, <1>9 DEF Lives, Abstract!Exit

LEMMA UndefinedMaps ==
  ASSUME IInv, IInv', NEW p \in Procs, Undefined(p)
  PROVE  Abstract!Crash(p)
<1>1. TableTypes /\ TableTypes' /\ Caller(p)
  BY DEF IInv, TypeOK, Undefined
<1>2. Life(p) = "running" /\ current = p /\ current' = p
  BY <1>1, CallerRuns DEF Undefined
<1>3. state'[p] = "KILLED" /\ \A q \in Procs : q # p => state'[q] = state[q]
  BY <1>1 DEF Undefined, TableTypes
<1>4. Life(p)' = "dead"
  BY <1>1, <1>3, LifeNext
<1>5. \A q \in Procs : q # p => Life(q)' = Life(q)
  BY <1>1, <1>2, <1>3, SameLife
<1>6. Lives' = [Lives EXCEPT ![p] = "dead"]
  BY <1>4, <1>5 DEF Lives
<1> QED BY <1>2, <1>6 DEF Undefined, Lives, clock, Abstract!Crash, Abstract!Becomes

\* The parent keeps the processor unless a tick came in the middle of the fork.
LEMMA ForkDoneMaps ==
  ASSUME IInv, IInv', ForkDone
  PROVE  \E p, c \in Procs : Abstract!Fork(p, c)
<1>1. TableTypes /\ TableTypes' /\ OnCPU
  BY DEF IInv, TypeOK, ForkDone, OnCPU
<1>2. PICK p \in Procs : p = current
  BY DEF IInv, TypeOK, SchedulerTypes, PtrTo, NoCurrentOnlyWhenScheduling, ForkDone
<1>3. PICK c \in Procs : c = child /\ c >= curr_pid
  <2>1. child = curr_pid /\ curr_pid \in Int /\ child \in Procs \cup {NULL}
    BY SlotFacts DEF IInv, TypeOK, PlaceTypes, PtrTo, SchedulerTypes, Consistent, ForkSlot,
       ForkDone
  <2>2. child # NULL
    BY <2>1, SchedAssumption
  <2> QED BY <2>1, <2>2
<1>4. state[c] = "NONE" /\ state[p] \in Live /\ pid[p] = p /\ c # p
  <2>1. state[p] \in Live
    BY <1>2, SlotFacts DEF IInv, Consistent, CurrentLive, Scheduling, ForkDone
  <2>2. state[c] = "NONE"
    BY <1>3, SlotFacts DEF IInv, TypeOK, SchedulerTypes, PidIsSlot
  <2> QED BY <2>1, <2>2 DEF IInv, PidIsSlot, Live
<1>5. /\ state'[c] = "READY" /\ current' = p
      /\ \A q \in Procs : q # c => state'[q] = state[q]
  BY <1>1, <1>2, <1>3 DEF ForkDone, TableTypes
<1>6. Life(p) = "running" /\ Life(c) = "absent" /\ Life(c)' = "ready"
  BY <1>1, <1>2, <1>4, <1>5, LifeNow, LifeNext DEF Live
<1>7. Life(p)' \in {"running", "ready"}
  BY <1>1, <1>4, <1>5, LifeNext
<1>8. \A q \in Procs : q # p /\ q # c => Life(q)' = Life(q)
  BY <1>1, <1>2, <1>5, SameLife
<1>9. \E l \in {"running", "ready"} : Lives' = [Lives EXCEPT ![c] = "ready", ![p] = l]
  <2>1. Lives' = [Lives EXCEPT ![c] = "ready", ![p] = Life(p)']
    BY <1>4, <1>6, <1>8 DEF Lives
  <2> QED BY <1>7, <2>1
<1>10. ppid' = [ppid EXCEPT ![c] = p] /\ UNCHANGED <<wake, waiting_parent>>
  BY <1>2, <1>3, <1>4 DEF ForkDone, clock
<1> QED BY <1>6, <1>9, <1>10 DEF Lives, Abstract!Fork

-------------------------------------------------------------------------------
(* The refinement.                                                         *)

LEMMA InitMaps == Init => Abstract!Init
<1> SUFFICES ASSUME Init PROVE Abstract!Init
  OBVIOUS
<1>1. TableTypes /\ ~OnCPU
  BY InitIInv DEF IInv, TypeOK, Init, OnCPU
<1>2. ASSUME NEW p \in Procs
      PROVE  Life(p) = IF p \in {NullProc, InitProc} THEN "ready" ELSE "absent"
  BY <1>1, LifeNow DEF Init, Live
<1> QED BY <1>2 DEF Init, Abstract!Init

LEMMA NextMaps ==
  IInv /\ IInv' /\ [Next]_vars => [Abstract!Next]_Abstract!vars
<1> SUFFICES ASSUME IInv, IInv', [Next]_vars
             PROVE  Abstract!Next \/ UNCHANGED Abstract!vars
  OBVIOUS
<1>1. CASE UNCHANGED vars
  <2>1. \A p \in Procs : Life(p)' = Life(p)
    BY <1>1 DEF vars, Life, HasCPU
  <2>2. Lives' = Lives
    BY <2>1 DEF Lives
  <2> QED BY <1>1, <2>2 DEF vars, Lives, Abstract!vars
<1>2. CASE Halted
  BY <1>1, <1>2 DEF Halted
<1>3. CASE Quiet
  BY <1>3, QuietMaps
<1>4. CASE SweepWake
  BY <1>4, SweepWakeMaps DEF Abstract!Next
<1>5. CASE ForkDone
  BY <1>5, ForkDoneMaps DEF Abstract!Next
<1>6. ASSUME NEW p \in Procs,
             \/ \E n \in 0 .. MaxNap : Usleep(p, n)
             \/ \E n \in Procs : Waitpid(p, n)
             \/ \E code \in ExitCodes : Exit(p, code)
             \/ Undefined(p)
      PROVE  Abstract!Next
  BY <1>6, UsleepMaps, WaitpidMaps, ExitMaps, UndefinedMaps DEF Abstract!Next
<1> QED BY <1>1, <1>2, <1>3, <1>4, <1>5, <1>6 DEF Next, KernelStep, UserStep, Quiet

\* Every behaviour of the kernel is a life of processes as Lifecycle has it:
\* masking, flags, the sweep's loop, the ticks in the middle of fork and exec and
\* the order of the process table make no difference to it.
THEOREM SchedImplementsLifecycle == Spec => Implements
<1>1. IInv /\ [Next]_vars => IInv'
  BY NextIInv
<1> QED BY <1>1, SchedInvariant, InitMaps, NextMaps, PTL DEF Spec, Implements, Abstract!Spec
===============================================================================

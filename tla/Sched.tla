--------------------------------- MODULE Sched ---------------------------------
(***************************************************************************)
(* Processes, the scheduler, the syscalls that change a process's state,   *)
(* the sleep queue and the timer interrupt: kernel/src/sched.c, syscall.c, *)
(* sleep.c and the entry code of asm/vectors.S, on the one CPU.            *)
(*                                                                         *)
(* pc says where the CPU is.  Exceptions mask IRQs, so a syscall and the   *)
(* scheduler run to the end without the timer, with one exception:         *)
(* map_page ends in "cpsie i", so from the first page mapped by fork or    *)
(* exec on, the rest of the kernel path runs with IRQs enabled.  irq is    *)
(* that flag; a tick taken in the kernel only sets flags (the kernel is    *)
(* not preempted), but it does write current_process->state.               *)
(*                                                                         *)
(* Process memory is abstracted to "does the process have a mapped user    *)
(* stack" and to the saved r0, where a syscall's result is delivered.      *)
(*                                                                         *)
(* A definition named Mut... is a faulty variant of the one after it; no   *)
(* action uses it.  It is there to see that the properties notice it.      *)
(***************************************************************************)
EXTENDS Integers, Sequences, FiniteSets

CONSTANTS MaxProcesses,   \* MAX_PROCESSES: slots of process_table
          PreemptTicks,   \* SCHEDULER_PREEMPT_TICKS
          MaxNap,         \* bound: the longest sleep, in clock steps
          ClockSpan,      \* values the hardware counter goes through, 2^32
          ExitCodes,      \* the exit statuses programs use
          MemoryRunsOut,  \* may page allocations of fork and exec fail?
          NULL,           \* the null pointer
          Junk            \* a register value the kernel did not set

ASSUME SchedAssumption ==
  /\ MaxProcesses \in Nat /\ MaxProcesses >= 2
  /\ PreemptTicks \in Nat \ {0}
  /\ MaxNap \in Nat /\ ClockSpan \in Nat \ {0}
  /\ ExitCodes \subseteq Int /\ ExitCodes # {}
  /\ MemoryRunsOut \in BOOLEAN
  /\ NULL \notin Int /\ Junk \notin Int

VARIABLES
  state, pid, ppid, waiting_parent, forked, exit_status,  \* process_table fields
  now,             \* what get_ticks returns
  wake_ticks,      \* the field wake_ticks; not kept (0) once a sleep is over
  wake,            \* history: how long each process has still to sleep
  mapped,          \* is the saved context in a mapped user stack page?
  r0,              \* r0 of the saved context, stack_top[0]
  call,            \* the call whose result the saved context is to receive
  sleep_queue,     \* sleep_queue.procs, up to sleep_queue.count
  current,         \* current_process
  next_process,    \* next_process
  schedule_next,   \* scheduler_driver.schedule_next
  tick,            \* scheduler_driver.current_tick modulo PreemptTicks
  curr_pid,        \* curr_pid
  pc,              \* where the CPU is
  irq,             \* IRQs enabled (CPSR.I clear)
  ttbr,            \* whose level-1 table TTBR0 holds; NULL: an orphaned one
  i, current_ticks,  \* check_sleep_expiry: index, time read (kept until Pick)
  child,           \* fork: the slot being filled
  reason           \* why the kernel has panicked

table   == <<state, pid, ppid, waiting_parent, forked, exit_status>>
memory  == <<mapped, r0, call>>
loop    == <<i, current_ticks>>
clock   == <<now, wake_ticks, wake>>
vars == <<state, pid, ppid, waiting_parent, forked, exit_status, now, wake_ticks,
          wake, mapped, r0, call, sleep_queue, current, next_process,
          schedule_next, tick, curr_pid, pc, irq, ttbr, i, current_ticks, child,
          reason>>

Procs == 0 .. (MaxProcesses - 1)
NullProc == 0    \* the first process created, NULL_PROCESS_FILE
InitProc == 1    \* the second one, INIT_PROCESS_FILE
ECHILD == 10

States == {"NONE", "RUNNING", "KILLED", "READY", "BLOCKED", "SLEEPING",
           "UNINTERUPTABLE"}
KernelPCs == {"return", "sweep", "pick", "switch", "resume", "restore",
              "fork", "exec"}
Reasons == {"none", "no_runnable", "sleep_full", "null_process", "exec_lost"}
Calls == {"none", "wait", "fork", "born", "failed_exec"}

\* scheduler_init made the null process and init; enter_userspace then enables
\* interrupts and calls scheduler() with no current process.
Init ==
  /\ state = [p \in Procs |-> IF p \in {NullProc, InitProc} THEN "READY" ELSE "NONE"]
  /\ pid = [p \in Procs |-> IF p = InitProc THEN 1 ELSE 0]
  /\ ppid = [p \in Procs |-> 0]
  /\ waiting_parent = [p \in Procs |-> NULL]
  /\ forked = [p \in Procs |-> FALSE]
  /\ exit_status = [p \in Procs |-> 0]
  /\ now = 0
  /\ wake_ticks = [p \in Procs |-> 0] /\ wake = [p \in Procs |-> 0]
  /\ mapped = [p \in Procs |-> p \in {NullProc, InitProc}]
  /\ r0 = [p \in Procs |-> Junk]
  /\ call = [p \in Procs |-> "none"]
  /\ sleep_queue = <<>>
  /\ current = NULL /\ next_process = NULL
  /\ schedule_next = FALSE /\ tick = 0 /\ curr_pid = 2
  /\ pc = "sweep" /\ irq = TRUE /\ ttbr = NULL
  /\ i = 1 /\ current_ticks = 0
  /\ child = NULL /\ reason = "none"

-------------------------------------------------------------------------------
(* Interrupts and time.                                                    *)

\* tick(): every PreemptTicks-th one asks for a reschedule and makes the
\* current process READY, whatever state it is in.
Tick ==
  /\ tick' = (tick + 1) % PreemptTicks
  /\ IF tick' = 0
     THEN /\ schedule_next' = TRUE
          /\ state' = IF current = NULL THEN state
                      ELSE [state EXCEPT ![current] = "READY"]
     ELSE UNCHANGED <<schedule_next, state>>
  /\ UNCHANGED <<pid, ppid, waiting_parent, forked, exit_status, clock, memory,
                 sleep_queue, current, next_process, curr_pid, ttbr, loop, child,
                 reason>>

\* The timer interrupts a user program: afterwards userspace_return.
TimerIrqUser ==
  /\ pc = "user"
  /\ Tick
  /\ pc' = "return" /\ irq' = FALSE

\* irq_from_kernel: back to where the kernel was.
TimerIrqKernel ==
  /\ pc \in KernelPCs /\ irq
  /\ Tick
  /\ UNCHANGED <<pc, irq>>

\* The clock runs on its own.  get_ticks puts the count of wraps in the high word,
\* but nobody counts them: timer_init overwrites the wrap interrupt's enable bit.
\* So every ClockSpan steps time starts again.
Clock ==
  /\ pc # "halted"
  /\ now' = (now + 1) % ClockSpan
  /\ wake' = [p \in Procs |-> IF wake[p] > 0 THEN wake[p] - 1 ELSE 0]
  /\ UNCHANGED <<table, wake_ticks, memory, sleep_queue, current, next_process,
                 schedule_next, tick, curr_pid, pc, irq, ttbr, loop, child, reason>>

-------------------------------------------------------------------------------
(* scheduler(), from the sleep queue to the return to user mode.           *)

\* check_sleep_expiry reads the clock once, before its loop.
StartScheduler ==
  /\ pc' = "sweep" /\ i' = 1
  /\ current_ticks' = now

MutExpired(p) == current_ticks + 1 >= wake_ticks[p]
Expired(p) == current_ticks >= wake_ticks[p]

\* The last entry of the queue takes the place of the k-th.
MutWithout(q, k) == SubSeq(q, 1, Len(q) - 1)
Without(q, k) ==
  [j \in 1 .. (Len(q) - 1) |-> IF j = k THEN q[Len(q)] ELSE q[j]]

MutSweepWake ==
  /\ pc = "sweep" /\ i <= Len(sleep_queue) /\ Expired(sleep_queue[i])
  /\ state' = [state EXCEPT ![sleep_queue[i]] = "READY"]
  /\ sleep_queue' = Without(sleep_queue, i)
  /\ wake_ticks' = [wake_ticks EXCEPT ![sleep_queue[i]] = 0]
  /\ i' = i + 1
  /\ UNCHANGED <<pid, ppid, waiting_parent, forked, exit_status, now, wake, memory,
                 current, next_process, schedule_next, tick, curr_pid, pc, irq,
                 ttbr, current_ticks, child, reason>>

\* An expired sleeper leaves the queue; i stays, for the entry that took its place.
SweepWake ==
  /\ pc = "sweep" /\ i <= Len(sleep_queue) /\ Expired(sleep_queue[i])
  /\ state' = [state EXCEPT ![sleep_queue[i]] = "READY"]
  /\ sleep_queue' = Without(sleep_queue, i)
  /\ wake_ticks' = [wake_ticks EXCEPT ![sleep_queue[i]] = 0]
  /\ UNCHANGED <<pid, ppid, waiting_parent, forked, exit_status, now, wake, memory,
                 current, next_process, schedule_next, tick, curr_pid, pc, irq,
                 ttbr, loop, child, reason>>

SweepSkip ==
  /\ pc = "sweep" /\ i <= Len(sleep_queue) /\ ~Expired(sleep_queue[i])
  /\ i' = i + 1
  /\ UNCHANGED <<table, clock, memory, sleep_queue, current, next_process,
                 schedule_next, tick, curr_pid, pc, irq, ttbr, current_ticks, child,
                 reason>>

SweepDone ==
  /\ pc = "sweep" /\ i > Len(sleep_queue)
  /\ pc' = "pick" /\ i' = 1
  /\ UNCHANGED <<table, clock, memory, sleep_queue, current, next_process,
                 schedule_next, tick, curr_pid, irq, ttbr, current_ticks, child,
                 reason>>

\* get_next_process: the first READY slot going round from the one after the
\* current process (from slot 0 when there is none), else the current process.
MutScanStart == 0
ScanStart == IF current = NULL THEN 0 ELSE (pid[current] + 1) % MaxProcesses
ScanDistance(p) == (p + MaxProcesses - ScanStart) % MaxProcesses
MutReady == {p \in Procs : state[p] \notin {"NONE", "SLEEPING", "KILLED"}}
Ready == {p \in Procs : state[p] = "READY"}
NextProcess ==
  IF Ready = {} THEN current
  ELSE CHOOSE p \in Ready : \A q \in Ready : ScanDistance(p) <= ScanDistance(q)

Pick ==
  /\ pc = "pick"
  /\ next_process' = NextProcess
  /\ IF next_process' = NULL \/ state[next_process'] = "NONE"
     THEN pc' = "halted" /\ reason' = "no_runnable"
     ELSE pc' = "switch" /\ UNCHANGED reason
  /\ current_ticks' = 0
  /\ UNCHANGED <<table, clock, memory, sleep_queue, current, schedule_next, tick,
                 curr_pid, irq, ttbr, i, child>>

MutSwitch ==
  /\ pc = "switch"
  /\ current' = next_process
  /\ state' = [state EXCEPT ![next_process] = "RUNNING"]
  /\ pc' = "resume"
  /\ UNCHANGED <<pid, ppid, waiting_parent, forked, exit_status, clock, memory,
                 sleep_queue, next_process, schedule_next, tick, curr_pid, irq,
                 ttbr, loop, child, reason>>

\* set_l1_with_asid, then the process is current and RUNNING.
Switch ==
  /\ pc = "switch"
  /\ ttbr' = next_process /\ current' = next_process
  /\ state' = [state EXCEPT ![next_process] = "RUNNING"]
  /\ pc' = "resume"
  /\ UNCHANGED <<pid, ppid, waiting_parent, forked, exit_status, clock, memory,
                 sleep_queue, next_process, schedule_next, tick, curr_pid, irq,
                 loop, child, reason>>

\* A store of v to q->stack_top[0] goes through the tables that are loaded: it
\* reaches q's saved context only when these are q's own.
StoreR0(q, v) == IF ttbr = q THEN [r0 EXCEPT ![q] = v] ELSE r0

\* A process that runs for the first time after fork has its r0 set to 0, under
\* its own tables.
MutForkedR0 == r0
ForkedR0 == IF forked[current] THEN StoreR0(current, 0) ELSE r0

Resume ==
  /\ pc = "resume"
  /\ schedule_next' = FALSE
  /\ r0' = ForkedR0
  /\ forked' = [forked EXCEPT ![current] = FALSE]
  /\ pc' = "restore"
  /\ UNCHANGED <<state, pid, ppid, waiting_parent, exit_status, clock, mapped, call,
                 sleep_queue, current, next_process, tick, curr_pid, irq, ttbr,
                 loop, child, reason>>

\* userspace_return: on to the scheduler, or back to the same process.
Return ==
  /\ pc = "return"
  /\ IF schedule_next
     THEN StartScheduler /\ UNCHANGED ttbr
     ELSE /\ ttbr' = current /\ pc' = "restore"
          /\ UNCHANGED loop
  /\ UNCHANGED <<table, clock, memory, sleep_queue, current, next_process,
                 schedule_next, tick, curr_pid, irq, child, reason>>

\* user_context_return pops the saved context: the program has its r0.  When the
\* user stack is not mapped the load aborts, and the abort handler panics.
Restore ==
  /\ pc = "restore"
  /\ IF mapped[current]
     THEN /\ pc' = "user" /\ irq' = TRUE
          /\ r0' = [r0 EXCEPT ![current] = Junk]
          /\ call' = [call EXCEPT ![current] = "none"]
          /\ UNCHANGED reason
     ELSE /\ pc' = "halted" /\ reason' = "exec_lost"
          /\ UNCHANGED <<irq, r0, call>>
  /\ UNCHANGED <<table, clock, mapped, sleep_queue, current, next_process,
                 schedule_next, tick, curr_pid, ttbr, loop, child>>

-------------------------------------------------------------------------------
(* System calls.  handle_svc_c runs with IRQs masked; the null process is  *)
(* a wait-for-interrupt loop and makes none.  handle_syscall stores the    *)
(* result in the caller's saved context if there still is a current one.   *)

MutCaller(p) == pc = "user" /\ current = p
Caller(p) == pc = "user" /\ current = p /\ p # NullProc

Result(p, v, c) ==
  /\ r0' = StoreR0(p, v)
  /\ call' = [call EXCEPT ![p] = c]

\* getpid stands for all calls that change no process state.
GetPid(p) ==
  /\ Caller(p)
  /\ Result(p, pid[p], "none")
  /\ pc' = "return" /\ irq' = FALSE
  /\ UNCHANGED <<table, clock, mapped, sleep_queue, current, next_process,
                 schedule_next, tick, curr_pid, ttbr, loop, child, reason>>

Yield(p) ==
  /\ Caller(p)
  /\ schedule_next' = TRUE
  /\ state' = [state EXCEPT ![p] = "READY"]
  /\ Result(p, 0, "none")
  /\ pc' = "return" /\ irq' = FALSE
  /\ UNCHANGED <<pid, ppid, waiting_parent, forked, exit_status, clock, mapped,
                 sleep_queue, current, next_process, tick, curr_pid, ttbr, loop,
                 child, reason>>

\* usleep: n clock steps from now.  The current process stays current.
Usleep(p, n) ==
  /\ Caller(p)
  /\ wake_ticks' = [wake_ticks EXCEPT ![p] = now + n]
  /\ wake' = [wake EXCEPT ![p] = n]
  /\ state' = [state EXCEPT ![p] = "SLEEPING"]
  /\ IF Len(sleep_queue) < MaxProcesses
     THEN /\ sleep_queue' = Append(sleep_queue, p)
          /\ schedule_next' = TRUE
          /\ Result(p, 0, "none")
          /\ pc' = "return" /\ UNCHANGED reason
     ELSE /\ pc' = "halted" /\ reason' = "sleep_full"
          /\ UNCHANGED <<sleep_queue, schedule_next, r0, call>>
  /\ irq' = FALSE
  /\ UNCHANGED <<pid, ppid, waiting_parent, forked, exit_status, now, mapped,
                 current, next_process, tick, curr_pid, ttbr, loop, child>>

\* get_process_by_pid: the first slot whose pid field matches, used or not.
WithPid(n) == {p \in Procs : pid[p] = n}
ByPid(n) == CHOOSE p \in WithPid(n) : \A q \in WithPid(n) : p <= q
MutIsChild(n, p) == WithPid(n) # {}
IsChild(n, p) == WithPid(n) # {} /\ ppid[ByPid(n)] = pid[p]

\* waitpid for something that is not a child of the caller.
WaitpidFails(p, n) ==
  /\ Caller(p) /\ ~IsChild(n, p)
  /\ Result(p, -ECHILD, "none")
  /\ pc' = "return" /\ irq' = FALSE
  /\ UNCHANGED <<table, clock, mapped, sleep_queue, current, next_process,
                 schedule_next, tick, curr_pid, ttbr, loop, child, reason>>

\* After waitpid and exit no process is current.
MutGiveUpCPU == current' = NULL /\ UNCHANGED schedule_next
GiveUpCPU == current' = NULL /\ schedule_next' = TRUE

\* waitpid for a child, whether or not it still lives: the caller blocks.  The
\* result 0 is not stored, there being no current process; the saved r0 is the
\* argument.
Waitpid(p, n) ==
  /\ Caller(p) /\ IsChild(n, p)
  /\ waiting_parent' = [waiting_parent EXCEPT ![ByPid(n)] = p]
  /\ state' = [state EXCEPT ![p] = "BLOCKED"]
  /\ GiveUpCPU
  /\ r0' = [r0 EXCEPT ![p] = n]
  /\ call' = [call EXCEPT ![p] = "wait"]
  /\ pc' = "return" /\ irq' = FALSE
  /\ UNCHANGED <<pid, ppid, forked, exit_status, clock, mapped, sleep_queue,
                 next_process, tick, curr_pid, ttbr, loop, child, reason>>

\* Whom sys_exit makes READY: the process that waits for p, if any.
MutWoken(p) == {ppid[p]}
Woken(p) == {waiting_parent[p]} \ {NULL}

\* exit: memory freed, a waiting parent made READY and the status stored through
\* its stack_top, the process KILLED; the slot is never reused.
Exit(p, code) ==
  /\ Caller(p)
  /\ state' = [q \in Procs |-> IF q = p THEN "KILLED"
                               ELSE IF q \in Woken(p) THEN "READY" ELSE state[q]]
  /\ r0' = [q \in Procs |-> IF q \in Woken(p) THEN StoreR0(q, code)[q] ELSE r0[q]]
  /\ exit_status' = [exit_status EXCEPT ![p] = code]
  /\ mapped' = [mapped EXCEPT ![p] = FALSE]
  /\ GiveUpCPU
  /\ pc' = "return" /\ irq' = FALSE
  /\ UNCHANGED <<pid, ppid, waiting_parent, forked, clock, call, sleep_queue,
                 next_process, tick, curr_pid, ttbr, loop, child, reason>>

-------------------------------------------------------------------------------
(* fork.                                                                   *)

MutFreeSlots == {p \in Procs : state[p] \in {"NONE", "KILLED"}}
FreeSlots == {p \in Procs : state[p] = "NONE"}

\* get_available_process finds no slot: create_process goes on with the null
\* pointer, and initialize_process_memory's first store aborts.
ForkTableFull(p) ==
  /\ Caller(p) /\ FreeSlots = {}
  /\ pc' = "halted" /\ reason' = "null_process" /\ irq' = FALSE
  /\ UNCHANGED <<table, clock, memory, sleep_queue, current, next_process,
                 schedule_next, tick, curr_pid, ttbr, loop, child>>

MutForkNoMemory(p) ==
  /\ Caller(p) /\ FreeSlots # {} /\ MemoryRunsOut
  /\ Result(p, -1, "fork")
  /\ curr_pid' = curr_pid + 1
  /\ pc' = "return" /\ irq' = FALSE
  /\ UNCHANGED <<table, clock, mapped, sleep_queue, current, next_process,
                 schedule_next, tick, ttbr, loop, child, reason>>

\* A page allocation fails: the slot stays NONE, no pid is used.
ForkNoMemory(p) ==
  /\ Caller(p) /\ FreeSlots # {} /\ MemoryRunsOut
  /\ Result(p, -1, "fork")
  /\ pc' = "return" /\ irq' = FALSE
  /\ UNCHANGED <<table, clock, mapped, sleep_queue, current, next_process,
                 schedule_next, tick, curr_pid, ttbr, loop, child, reason>>

\* The first free slot gets its pages, a copy of the caller's stack with the
\* saved r0 as the caller left it, and mappings: IRQs are enabled from here on.
ForkMap(p) ==
  /\ Caller(p) /\ FreeSlots # {}
  /\ child' = CHOOSE c \in FreeSlots : \A q \in FreeSlots : c <= q
  /\ mapped' = [mapped EXCEPT ![child'] = TRUE]
  /\ r0' = [r0 EXCEPT ![child'] = Junk, ![p] = Junk]
  /\ call' = [call EXCEPT ![child'] = "born", ![p] = "fork"]
  /\ pc' = "fork" /\ irq' = TRUE
  /\ UNCHANGED <<table, clock, sleep_queue, current, next_process, schedule_next,
                 tick, curr_pid, ttbr, loop, reason>>

\* The slot becomes a READY process.  sys_fork stores 0 through the child's
\* stack_top while the parent's tables are loaded: both contexts are at the same
\* address, so it is the parent's r0 that is overwritten, before the result.
ForkDone ==
  /\ pc = "fork"
  /\ state' = [state EXCEPT ![child] = "READY"]
  /\ pid' = [pid EXCEPT ![child] = curr_pid]
  /\ curr_pid' = curr_pid + 1
  /\ ppid' = [ppid EXCEPT ![child] = pid[current]]
  /\ forked' = [forked EXCEPT ![child] = TRUE]
  /\ ttbr' = current
  /\ r0' = [StoreR0(child, 0) EXCEPT ![current] = curr_pid]
  /\ pc' = "return" /\ child' = NULL
  /\ UNCHANGED <<waiting_parent, exit_status, clock, mapped, call, sleep_queue,
                 current, next_process, schedule_next, tick, irq, loop, reason>>

-------------------------------------------------------------------------------
(* exec, and the undefined-instruction handler.                            *)

\* The path, its inode or its contents are no good, or the image is no ELF file:
\* the error is returned, but for SYS_EXEC handle_syscall does not store it.
ExecFails(p) ==
  /\ Caller(p)
  /\ r0' = [r0 EXCEPT ![p] = Junk]
  /\ call' = [call EXCEPT ![p] = "failed_exec"]
  /\ pc' = "return" /\ irq' = FALSE
  /\ UNCHANGED <<table, clock, mapped, sleep_queue, current, next_process,
                 schedule_next, tick, curr_pid, ttbr, loop, child, reason>>

\* swap_process has freed the old image; the process owns a new, empty table.
ExecPoint(p) ==
  /\ Caller(p)
  /\ state' = [state EXCEPT ![p] = "UNINTERUPTABLE"]
  /\ mapped' = [mapped EXCEPT ![p] = FALSE]
  /\ r0' = [r0 EXCEPT ![p] = Junk]
  /\ ttbr' = NULL
  /\ UNCHANGED <<pid, ppid, waiting_parent, forked, exit_status, clock, sleep_queue,
                 current, next_process, schedule_next, tick, curr_pid, loop, child,
                 reason>>

\* A page allocation fails after that: swap_process returns with the process
\* UNINTERUPTABLE and nothing mapped.
ExecNoMemory(p) ==
  /\ MemoryRunsOut
  /\ ExecPoint(p)
  /\ call' = [call EXCEPT ![p] = "failed_exec"]
  /\ pc' = "return" /\ irq' = FALSE

\* The new image's pages are there and being mapped, with IRQs enabled.
ExecMap(p) ==
  /\ ExecPoint(p)
  /\ call' = [call EXCEPT ![p] = "none"]
  /\ pc' = "exec" /\ irq' = TRUE

ExecDone ==
  /\ pc = "exec"
  /\ mapped' = [mapped EXCEPT ![current] = TRUE]
  /\ state' = [state EXCEPT ![current] = "READY"]
  /\ schedule_next' = TRUE
  /\ pc' = "return"
  /\ UNCHANGED <<pid, ppid, waiting_parent, forked, exit_status, clock, r0, call,
                 sleep_queue, current, next_process, tick, curr_pid, irq, ttbr,
                 loop, child, reason>>

\* An undefined instruction: KILLED, nothing freed, nobody told; then straight to
\* the scheduler, with the dead process still the current one.
Undefined(p) ==
  /\ Caller(p)
  /\ state' = [state EXCEPT ![p] = "KILLED"]
  /\ StartScheduler
  /\ irq' = FALSE
  /\ UNCHANGED <<pid, ppid, waiting_parent, forked, exit_status, clock, memory,
                 sleep_queue, current, next_process, schedule_next, tick, curr_pid,
                 ttbr, child, reason>>

\* panic() loops for ever.
Halted == pc = "halted" /\ UNCHANGED vars

-------------------------------------------------------------------------------
KernelStep ==
  \/ SweepWake \/ SweepSkip \/ SweepDone
  \/ Pick \/ Switch \/ Resume \/ Return \/ Restore
  \/ ForkDone \/ ExecDone

UserStep ==
  \E p \in Procs :
    \/ GetPid(p)
    \/ Yield(p)
    \/ \E n \in 0 .. MaxNap : Usleep(p, n)
    \/ \E n \in Procs : WaitpidFails(p, n)
    \/ \E n \in Procs : Waitpid(p, n)
    \/ \E code \in ExitCodes : Exit(p, code)
    \/ ForkTableFull(p)
    \/ ForkNoMemory(p)
    \/ ForkMap(p)
    \/ ExecFails(p)
    \/ ExecNoMemory(p)
    \/ ExecMap(p)
    \/ Undefined(p)

Next ==
  \/ TimerIrqUser
  \/ TimerIrqKernel
  \/ Clock
  \/ KernelStep
  \/ UserStep
  \/ Halted

Spec == Init /\ [][Next]_vars

\* The CPU does not stop in the kernel, and the timer keeps interrupting: it is
\* periodic and a pending interrupt is taken as soon as the processor is in user
\* mode, so it cannot be missed for ever however often the program enters the kernel
\* in between.  Programs owe nobody a step, and nothing is assumed of the clock.
Fairness ==
  /\ WF_vars(KernelStep)
  /\ SF_vars(TimerIrqUser)

FairSpec == Spec /\ Fairness

-------------------------------------------------------------------------------
(* What must hold.                                                         *)

PtrTo(S) == S \cup {NULL}

TableTypes ==
  /\ state \in [Procs -> States]
  /\ pid \in [Procs -> Procs] /\ ppid \in [Procs -> Procs]
  /\ waiting_parent \in [Procs -> PtrTo(Procs)]
  /\ forked \in [Procs -> BOOLEAN]
  /\ exit_status \in [Procs -> Int]

ClockTypes ==
  /\ now \in 0 .. (ClockSpan - 1)
  /\ wake_ticks \in [Procs -> 0 .. (ClockSpan - 1 + MaxNap)]
  /\ wake \in [Procs -> 0 .. MaxNap]
  /\ i \in Nat \ {0} /\ current_ticks \in 0 .. (ClockSpan - 1)

MemoryTypes ==
  /\ mapped \in [Procs -> BOOLEAN]
  /\ r0 \in [Procs -> Int \cup {Junk}]
  /\ call \in [Procs -> Calls]

SchedulerTypes ==
  /\ sleep_queue \in Seq(Procs)
  /\ current \in PtrTo(Procs) /\ next_process \in PtrTo(Procs)
  /\ schedule_next \in BOOLEAN
  /\ tick \in 0 .. (PreemptTicks - 1)
  /\ curr_pid \in 0 .. MaxProcesses

PlaceTypes ==
  /\ pc \in KernelPCs \cup {"user", "halted"}
  /\ irq \in BOOLEAN
  /\ ttbr \in PtrTo(Procs)
  /\ child \in PtrTo(Procs)
  /\ reason \in Reasons

\* The types of the variables.
TypeOK == TableTypes /\ ClockTypes /\ MemoryTypes /\ SchedulerTypes /\ PlaceTypes

\* get_next_process takes pid + 1 for the next slot, and get_process_by_pid
\* compares pids of unused slots too: both are right because slots are taken in
\* order, never given back, and a pid is drawn only when create_process succeeds.
PidIsSlot ==
  \A p \in Procs : IF p < curr_pid THEN state[p] # "NONE" /\ pid[p] = p
                                   ELSE state[p] = "NONE" /\ pid[p] = 0

\* The sleep queue holds exactly the SLEEPING processes, each of them once: a
\* sleeper missing from it never wakes, a process in it that does not sleep, or
\* is there twice, is made READY by the sweep whatever it is doing.
SleepQueueExact ==
  /\ \A j, k \in DOMAIN sleep_queue : sleep_queue[j] = sleep_queue[k] => j = k
  /\ \A p \in Procs : state[p] = "SLEEPING" <=>
                        \E k \in DOMAIN sleep_queue : sleep_queue[k] = p

\* While a child whose death is awaited lives, its parent is BLOCKED: sys_exit
\* writes READY into the parent without looking, which is right only because
\* nothing else can have unblocked it.
WaiterStaysBlocked ==
  \A c \in Procs :
    waiting_parent[c] # NULL /\ state[c] # "KILLED"
      => state[waiting_parent[c]] = "BLOCKED"

\* "this should never happen, so we panic" (no process to run), and "this should
\* never be able to happen" (sleep queue full): indeed they cannot.
ImpossiblePanics == reason \notin {"no_runnable", "sleep_full"}

\* Only the current process is RUNNING, and a program only runs while it is
\* RUNNING or has been marked READY by a tick, under its own page tables with a
\* mapped stack: never a dead, sleeping or blocked one, never in another's memory.
RunsAsItself ==
  /\ \A p \in Procs : state[p] = "RUNNING" => p = current
  /\ pc = "user" => /\ current # NULL
                    /\ state[current] \in {"RUNNING", "READY"}
                    /\ ttbr = current /\ mapped[current]

\* fork returns 0 in the child and, in the parent, the pid of a child of the
\* parent (or -1), however many ticks and switches lie between.
ForkReturnsTwice ==
  pc = "restore" =>
    /\ call[current] = "born" => r0[current] = 0
    /\ call[current] = "fork" =>
         \/ r0[current] = -1
         \/ /\ r0[current] \in Procs \ {NullProc, InitProc}
            /\ pid[r0[current]] = r0[current]
            /\ ppid[r0[current]] = pid[current]

\* Without a current process the kernel is on its way to pick another: in every
\* other place it follows the pointer.
NoCurrentOnlyWhenScheduling ==
  current = NULL => \/ pc \in {"sweep", "pick", "switch", "halted"}
                    \/ pc = "return" /\ schedule_next

\* A dead process is never made anything else, although after an undefined
\* instruction it is still the current process, whose state a tick overwrites.
DeadStaysDead ==
  [][\A p \in Procs : state[p] = "KILLED" => state'[p] = "KILLED"]_vars

\* A sleeper is woken by the sweep only, and not before its time, though the clock
\* starts again in between: no tick, no exiting child and no scheduling of another
\* process ends its sleep.
SleepsUntilDue ==
  [][\A p \in Procs : state[p] = "SLEEPING" /\ state'[p] # "SLEEPING"
                        => state'[p] = "READY" /\ pc = "sweep" /\ wake[p] = 0]_vars

\* The sweep misses nobody, though it takes entries out of the queue while it goes
\* through it: when the next process is picked, nobody sleeps whose time had come
\* when the sweep read the clock.
SweepMissesNobody ==
  pc = "pick" => \A p \in Procs : state[p] = "SLEEPING" => ~Expired(p)

\* A process that waits for a child is unblocked only by the exit of a child of
\* its own that it waited for.
WaitsForItsChild ==
  [][\A p \in Procs : state[p] = "BLOCKED" /\ state'[p] # "BLOCKED"
       => /\ state'[p] = "READY"
          /\ \E c \in Procs : /\ waiting_parent[c] = p /\ ppid[c] = pid[p]
                              /\ state[c] # "KILLED" /\ state'[c] = "KILLED"]_vars

\* A process has the processor from the scheduler's choice until the kernel asks
\* for another one, in user mode and in its own system calls.
HasCPU(p) ==
  /\ current = p
  /\ \/ pc \in {"user", "resume", "restore", "fork", "exec", "halted"}
     \/ pc = "return" /\ ~schedule_next

Life(p) ==
  CASE state[p] = "NONE"     -> "absent"
    [] state[p] = "SLEEPING" -> "asleep"
    [] state[p] = "BLOCKED"  -> "waiting"
    [] state[p] = "KILLED"   -> "dead"
    [] state[p] \in {"READY", "RUNNING", "UNINTERUPTABLE"} ->
         IF HasCPU(p) THEN "running" ELSE "ready"

Abstract == INSTANCE Lifecycle
  WITH life <- [p \in Procs |-> Life(p)], nap <- wake, parent <- ppid,
       awaiter <- waiting_parent, First <- {NullProc, InitProc}, Nobody <- NULL

\* The scheduler, the system calls, the sleep queue and the timer give processes
\* the life Lifecycle promises: slots, pids, flags, masking and ticks in the
\* middle of a system call make no difference to it.
Implements == Abstract!Spec

\* Round robin starves nobody: a READY process, or a sleeper whose time has come by
\* the clock, gets the CPU in user mode, though exit and waitpid restart the scan
\* from slot 0.  (The kernel may panic first; and when the clock starts again before
\* the sweep has found the sleeper, its time has not come any more.)
Due(p) == state[p] = "SLEEPING" /\ now >= wake_ticks[p]
ReadyRuns ==
  \A p \in Procs :
    state[p] = "READY" \/ Due(p)
      ~> \/ pc = "user" /\ current = p
         \/ state[p] = "SLEEPING" /\ ~Due(p)
         \/ pc = "halted"

-------------------------------------------------------------------------------
(* What the proofs of SchedProofs need besides the invariants above: how   *)
(* the variables are related at each place of the kernel.                  *)

Live == {"READY", "RUNNING", "UNINTERUPTABLE"}
Scheduling == {"sweep", "pick", "switch"}

\* Unused slots are as memset left them, and the first two are used.
UnusedBlank ==
  /\ curr_pid >= 2
  /\ \A p \in Procs : p >= curr_pid => ppid[p] = 0 /\ waiting_parent[p] = NULL

\* The current process is a live one wherever the kernel or a program goes on
\* with it, and wherever a tick may come that makes it READY.
CurrentLive ==
  /\ current # NULL /\ pc \notin Scheduling \cup {"return", "halted"}
       => state[current] \in Live
  /\ pc = "return" /\ ~schedule_next => state[current] \in Live
  /\ pc = "user" \/ irq => current = NULL \/ state[current] \in Live
  /\ current # NULL => state[current] # "NONE"

\* The null process never leaves the processor for good.
NullReady == state[NullProc] \in {"READY", "RUNNING"}

\* Who is RUNNING, and under whose tables.
CurrentLoaded ==
  /\ \A p \in Procs : state[p] = "RUNNING" => p = current
  /\ current # NULL /\ (schedule_next \/ pc \in Scheduling) /\ pc # "resume"
       => state[current] # "RUNNING"
  /\ pc \in {"user", "resume", "restore", "fork"} => ttbr = current
  /\ pc = "switch" => next_process # NULL /\ state[next_process] = "READY"
  /\ \A p \in Procs : state[p] = "UNINTERUPTABLE" => ~mapped[p]

\* fork fills the first unused slot; exec has the caller's memory unmapped.
ForkSlot ==
  IF pc = "fork" THEN child = curr_pid /\ call[child] = "born" ELSE child = NULL

\* A process waited for is a child of the waiter, and no two living processes
\* have the same waiter.
Waiters ==
  \A c \in Procs : waiting_parent[c] # NULL =>
    /\ ppid[c] = waiting_parent[c] /\ waiting_parent[c] # NullProc
    /\ state[c] # "KILLED" => \A d \in Procs :
         waiting_parent[d] = waiting_parent[c] /\ state[d] # "KILLED" => d = c

\* By the clock no sleep is over before its time, in the sweep either; and the
\* sweep has left only sleepers behind that are not due.
Deadlines ==
  /\ \A p \in Procs : wake[p] > 0 => wake_ticks[p] >= now + wake[p]
  /\ pc = "sweep" =>
       /\ \A p \in Procs : wake[p] > 0 => ~Expired(p)
       /\ \A k \in DOMAIN sleep_queue : k < i => ~Expired(sleep_queue[k])

\* The result of a fork waits in the saved context of the parent; the child's
\* is set when it is first resumed.
ForkResults ==
  \A p \in Procs :
    /\ forked[p] => call[p] = "born" /\ (p = current => pc = "resume")
    /\ call[p] = "born" =>
         \/ forked[p]
         \/ pc = "fork" /\ p = child
         \/ p = current /\ pc \in {"restore", "halted"} /\ r0[p] = 0
    /\ call[p] = "fork" =>
         \/ pc = "fork" /\ p = current
         \/ r0[p] = -1
         \/ /\ r0[p] \in 2 .. (curr_pid - 1)
            /\ ppid[r0[p]] = p

Consistent ==
  /\ UnusedBlank /\ CurrentLive /\ NullReady /\ CurrentLoaded /\ ForkSlot
  /\ Waiters /\ Deadlines /\ ForkResults

-------------------------------------------------------------------------------
(* What the repository says of the program, and the code does not do.      *)

\* "process should free all memory on exit, but stay alive until waitpid comes over"
\* (docs/todo.txt): a waitpid for a child that has exited, before or after, has
\* something to collect, so nobody is blocked on such children only.  (A fault frees
\* no memory and is another matter.)
Exited(c) == state[c] = "KILLED" /\ ~mapped[c]
NobodyWaitsForTheDead ==
  \A p \in Procs : state[p] = "BLOCKED" =>
    \E c \in Procs : waiting_parent[c] = p /\ ~Exited(c)

\* "Parent should get return value %d" (sys_exit): when waitpid returns, its
\* result is the exit status of the child waited for.
ParentGetsExitStatus ==
  pc = "restore" /\ call[current] = "wait" =>
    \E c \in Procs : /\ waiting_parent[c] = current /\ state[c] = "KILLED"
                     /\ r0[current] = exit_status[c]

\* "if (!child) return -1": when no process can be created fork fails, and the
\* kernel goes on.
ForkFailsCleanly == reason # "null_process"
===============================================================================

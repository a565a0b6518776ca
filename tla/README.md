# A verification development for the kernel

TLA+ modules that model parts of this ARM kernel, TLC configurations that check them on
small instances, and TLAPS proofs that hold for every instance. This file says what the
system consists of, what is modelled and how it corresponds to the code, what is checked and
proved, and what is left. All source paths are relative to the repository; `PROJECT.json`
gives, for every definition that models code, the lines it stands for.

The kernel runs on one CPU. Programs enter it by SVC (system calls), by an interrupt (timer,
UART) or by a fault. Exception entry masks IRQs and kernel code is never preempted, so the
concurrency is that of interrupt handlers, of processes whose system calls alternate, and of
a few stretches where the kernel runs with IRQs enabled: **`map_page` ends in `cpsie i`**,
so from the first page that fork or exec maps, the rest of that kernel path can be
interrupted by ticks.

## 1. Inventory

| Component (source) | State | Operations | Hard behaviour | Correct when |
|---|---|---|---|---|
| page allocator (`kernel/src/paging.c`) | one descriptor per page with a `next` link, list head, `free_pages` | alloc/free of a page, alloc/free of an aligned block | list order is arbitrary after frees; stale links in pages in use | no page has two owners or none; counter = list length; blocks aligned |
| scheduler, process table (`sched.c`) | `process_table`, `current_process`, `next_process`, `curr_pid`, `schedule_next`, tick count | `scheduler`, `get_next_process`, `tick`, `userspace_return`, `create_process`, `swap_process`, `free_process_memory` | ticks overwrite the current process's state; the current pointer is null after exit and waitpid; five failure exits in `create_process` | a live process runs, as itself; nobody starves; dead stay dead |
| system calls (`syscall.c`) | none of its own; writes the table, the sleep queue, saved contexts | fork, exec, exit, waitpid, usleep, yield, files, time, debug | results stored through user addresses under whichever tables are loaded | a call's result reaches its caller |
| sleep queue (`sleep.c`) | array and count | append (usleep), sweep with swap-removal | index and count change while sweeping | exactly the sleepers, each once |
| exception entry (`asm/vectors.S`, `asm/swtch.S`, `drivers/qemu/int*.c`) | banked registers, stacks | SVC, IRQ from user or kernel, aborts, undefined, context restore | scratch registers overwritten before they are saved; stale structure offsets | a context comes back as it was saved |
| timer, clock (`drivers/qemu/timer.c`) | counter, high word | tick interrupt, `get_ticks`, conversions | high word incremented by an interrupt that may be masked; 64-bit products | time is monotonic; conversions exact |
| MMU, process memory (`drivers/mmu.c`, `drivers/qemu/mmu.c`, `sched.c`) | level-1/2 tables, TTBR0, ASID bitmap, TLB, page lists, reference counts | map, unmap, load table, ASID allocation, user address check; clone, load, set up and free the pages of a process | the walker reads tables that exit has freed and exec has forgotten; failure exits undo nothing; ASIDs never come back | a process reaches its own pages only; no frame is two things at once |
| kernel heap (`heap.c`) | bump pointer | kmalloc, kfree (empty) | only ever shrinks | blocks disjoint |
| VFS and drivers on it (`vfs/*.c`) | descriptor tables, `num_fds`, file reference counts, offsets | open, close, read, write, fork's sharing | count used as bound; shared files freed | a descriptor is valid until its last close |
| FAT32 (`drivers/fat32.c`) | FAT, clusters, directory entries on the device | mount, open, read, write, extend, create | several device writes per operation, each may fail | chains disjoint and terminated |
| log ring, spinlock (`log.c`, `spinlock.c`) | ring indices | log, consume (in the tick) | writer interrupted by consumer | messages in order, none torn |
| UART ring (`drivers/qemu/uart.c`, `vfs/vfs_uart.c`) | head, tail | interrupt handler, `circular_read` | head runs freely, tail wraps | bytes come out once, in order |
| XMODEM (`drivers/xmodem.c`, `crc16.c`) | packet number, retries | receive | retransmission, timeouts | file received once, in order |
| ELF loader, RTC, MMC, boot, board drivers, strings, printing | device registers or nothing | set-up, parsing, formatting | no interaction worth a model | see section 7 |

Interactions. The timer interrupt calls `tick`, which writes the current process and
`schedule_next`; `userspace_return` reads `schedule_next` after every SVC and IRQ from user
mode and calls `scheduler`, which first sweeps the sleep queue. fork, exec and exit take and
give pages of the page allocator and blocks of the kernel heap. exit wakes the parent that
`waiting_parent` points to. System calls store results through `stack_top`, a *user* address
that is the same in every process, so what they reach depends on TTBR0.

The things that are hard to test are listed in `PROJECT.json` under `hazards`, each at its
line, with the properties that would notice it, or the reason why there is none.

## 2. Modules

| Module | Models |
|---|---|
| `PageAlloc` | abstract: what the page allocator promises (exclusive blocks, nothing lost) |
| `Paging` | the allocator with its free list as a sequence |
| `PagingLinks` | the allocator with the `next` pointers the code writes, stale ones included |
| `PagingProofs` | TLAPS: invariants of `Paging`; `Paging` implements `PageAlloc` |
| `PagingLinksProofs` | TLAPS: the pointers are a list; `PagingLinks` implements `Paging` |
| `Lifecycle` | abstract: the life of processes (absent, ready, running, asleep, waiting, dead) |
| `Sched` | process table, scheduler, system calls, sleep queue, timer interrupt |
| `SchedProofs` | TLAPS: the operators of `Sched`, its inductive invariant and what follows from it; `Sched` implements `Lifecycle` |
| `ProcMem` | the memory of processes over any allocator that keeps `PageAlloc`'s promise; TTBR0, the TLB and the table walker |
| `Memory` | `ProcMem` on the free list of `Paging`: the two composed |
| `ProcMemProofs` | TLAPS: the inductive invariant of `ProcMem`, its properties; `ProcMem` is a legal user of `PageAlloc`, and `Memory` of `Paging` |
| `Descriptors` | abstract: what file descriptors promise |
| `FileTable` | descriptor tables, open files, and what fork and exit do to them |
| `FileTableProofs` | TLAPS: invariants of `FileTable`; `FileTable` implements `Descriptors` |
| `UartRing` | the receive ring of the serial port, interrupt handler and reader |
| `Fat32` | cluster chains and the root directory, every device write able to fail, power loss between any two |
| `Fat32Proofs` | TLAPS: the inductive invariant of `Fat32` and its properties |
| `LogRing` | the log ring and the spinlocks, kernel code and the tick that interrupts it |
| `LogRingProofs` | TLAPS: the inductive invariant of `LogRing` and its properties |
| `Xmodem` | the XMODEM receiver and a transmitter over a line that loses and garbles |
| `XmodemProofs` | TLAPS: the inductive invariant of `Xmodem` and its properties |
| `MCPaging`, `MCPagingLinks`, `MCSched`, `MCMemory`, `MCFileTable`, `MCUartRing`, `MCFat32`, `MCLogRing`, `MCXmodem` | instances for TLC |

Refinements: `PagingLinks` implements `Paging`, `Paging` implements `PageAlloc`, `Sched`
implements `Lifecycle`, `FileTable` implements `Descriptors`, `ProcMem` implements
`PageAlloc` as its user and `Memory` implements `Paging` as its user.

Definitions named `Mut...` are faulty variants of the definition that follows them, the way
a plausible bug would change the code. No action uses them; put in the place of the original
they make a property fail, which shows the property sees that code.

### The page allocator

A page is its index in `alloc->pages`. In `Paging`, `free_list` is the sequence of the
indices that the list links. `held` is the callers' side: the blocks returned and not given
back. `AllocPage`, `AllocAligned`, `FreePage`, `FreeAligned` are the four functions; a call
that finds nothing changes nothing and is a stuttering step. `AllocAligned` takes the first
list position whose page is aligned and whose successors on the list are the next higher
pages, as the scan does, and `FreeAligned` pushes the pages in the order the loop does.
Callers free only what they hold, so the range checks of the free functions always pass.
That this is so is a property of the callers: `ProcMem` says what they do without assuming
it, and `UsesPaging` and `Implements` of the `memory` run show it.

`PagingLinks` has the pointers themselves: `alloc_page` does not clear the link of the page
it hands out and `alloc_aligned_pages` clears only the last page's, so descriptors of pages
in use hold stale links; the refinement says that no scan ever follows one.

### The scheduler

`pc` says where the CPU is:

| `pc` | Code |
|---|---|
| `user` | a program runs |
| `return` | `userspace_return`, after an SVC or an IRQ from user mode |
| `sweep` | `check_sleep_expiry`, one step per loop iteration |
| `pick`, `switch`, `resume` | `scheduler`: choose; load tables and make current; prepare the context |
| `restore` | `user_context_return` |
| `fork`, `exec` | inside `create_process`, `swap_process`, after pages were mapped: IRQs enabled |
| `halted` | `panic` |

| Variable | Code |
|---|---|
| `state`, `pid`, `ppid`, `waiting_parent`, `forked`, `exit_status` | the fields of `process_table[p]` |
| `now`, `wake_ticks` | what `get_ticks` returns; the field `wake_ticks` (0 once the sleep is over) |
| `wake` | history: how long a process has still to sleep |
| `mapped`, `r0`, `call` | is the saved context in a mapped stack page; the saved r0; the call it is to answer |
| `sleep_queue`, `current`, `next_process`, `curr_pid` | the globals of these names |
| `schedule_next`, `tick` | `scheduler_driver`; the tick count modulo the preemption period |
| `irq`, `ttbr` | are IRQs enabled; whose level-1 table TTBR0 holds |
| `i`, `current_ticks` | the sweep's index, and the clock value it read (kept until `Pick`) |
| `child` | the slot that fork is filling |
| `reason` | which panic halted the kernel |

Actions: `TimerIrqUser`, `TimerIrqKernel` (the tick, in user mode or where the kernel runs
with IRQs enabled), `Clock`, `SweepWake`/`SweepSkip`/`SweepDone`, `Pick`, `Switch`,
`Resume`, `Return`, `Restore`, and one or more per system call: a call that succeeds and
each way it fails are separate actions (`ForkTableFull`, `ForkNoMemory`, `ForkMap` then
`ForkDone`; `ExecFails`, `ExecNoMemory`, `ExecMap` then `ExecDone`; `Waitpid`,
`WaitpidFails`; `Exit`; `Usleep`; `Yield`; `GetPid` for all calls that change no process;
`Undefined` for the undefined-instruction handler). Programs are arbitrary: any process but
the null process (a wait-for-interrupt loop) makes any call at any time.

Process memory is abstracted to whether the user stack is mapped and to the saved r0. That
is enough for where a result goes: `StoreR0` models a store through `stack_top`, which
reaches the saved context of `q` only when `q`'s tables are loaded. Where it goes otherwise
(the same address of another process) is modelled where the code does it: in `ForkDone` the
parent's own r0, overwritten before the result is stored; in `Exit` the memory of the dead
child.

### Process memory

`ProcMem` cuts `create_process`, `swap_process`, `sys_exit` and `free_process_memory` at
every call of the allocator, so one step takes or gives at most one page or block:

| `pc` | Code |
|---|---|
| `boot` | `spawn_elf_init_process`, between the null process and init |
| `user` | a program runs |
| `table` | `initialize_process_memory`: level-1 table and ASID |
| `load`, `clone` | `load_elf_binary` page by page; `clone_parent_pages` |
| `heap`, `stack` | `setup_stack_and_heap`, with the copy of the parent's pages |
| `map` | `map_page` for each page of the list, a level-2 page taken where needed; then READY (`Finish`) |
| `free`, `drop` | `free_process_memory` entry by entry; `sys_exit` frees the level-1 table |
| `switch`, `invalidate` | `scheduler`: TTBR0 and ASID loaded; `TLBIASID` |
| `panic` | `panic`, or an abort of the kernel |

| Variable | Code |
|---|---|
| `free`, `held` | the allocator, as `PageAlloc` promises it |
| `pages` | `pages_head`: the frame behind each user page (the list is in address order) |
| `ref_count` | `process_page.ref_count`, by frame |
| `ttbr0`, `level2`, `mapping` | the level-1 table of a process; by table, its level-2 pages and what they map |
| `asid_bitmap`, `loaded`, `tlb` | ASIDs given out; the table in TTBR0; any one entry of the TLB |
| `op`, `target`, `size`, `va` | which operation is under way, on whom, pages of the program, the loop |
| `lost` | history: frames nothing points to any more |

The kernel path is not preempted by anything that allocates, but the hardware's table walker
runs all the time: `Walk` may fill the TLB between any two steps from whatever TTBR0 holds,
which during an exit is a table that has been freed and during an exec one that has been
forgotten. Every allocation may fail. `Undefined` includes the registers that the
undefined-instruction handler stores over the page list and table address of the process.

`Memory` adds the free list. Which page an allocation returns is then what the list says,
and a table is refused exactly when the scan finds no run. The list follows `ProcMem`'s
gives without looking whether they are legal.

### File descriptors

In `FileTable` an open file is its address on the kernel heap, whose `kfree` does nothing.
`fd_table` and `num_fds` are the fields of these names, `file` the `vfs_file_t` behind an
address. Each system call is one action, with the ways it fails: `Open` with a full table
loses the file, `OpenMissing` follows a null pointer, `ForkFails` leaves the parent's
descriptors in the unused slot, `WriteFile` panics, as `fat32_vfs_write` does after a write
that succeeded. `ReadFile` adds to the offset whatever `fat32_vfs_read` returns: what was
read, the -1 of a failed read, or, as that function compares as ints, any negative number
for a count of 2^31 or more; so an offset may become any int (`Offsets`, `Wrap`, with `Half`
in the place of 2^31). read, write and lseek reject negative descriptors only; with one of
`MAX_FDS` or more they index past the table, into that of another process or into something
else. So `ReadFile`, `WriteFile` and `Lseek` act on the file of any table (`Entries`), and
`WildDescriptor` is the pointer that is none: a panic. (What a stray pointer to memory that
happens to look like a file would write is not modelled.) `Descriptors` is what a program
may rely on: a descriptor names the open file of the `open` that made it until its own
process closes it.

### The serial port's receive ring

`Receive` is `uart_handler`, `CircularRead` is `circular_read`. `head` runs freely, `tail`
is kept reduced, as in the code. A byte is its place in the input, which is all that order
and loss depend on.

### FAT32

`Fat32` cuts `fat32_write` and `fat32_create` at every sector they write. `Write` chooses
file, offset and end and does the arithmetic of `clusters_to_add` (unsigned, modulo `Word`);
`First`, `Link`, `End`, `Final` are the updates of the allocation table, `Data` the
clusters' contents, `Directory` the update of the entry. In each the write may fail, and
where the code does not look at the result the action goes on. `Restart` may come between
any two: power loss, or the panic after every successful write. `pc = "hang"` is the walk to
the last cluster that does not end at an error, `BAD` an error code taken for a cluster
number.

### The log

`LogRing` has two contexts on one CPU: kernel code (`svc`), which logs, prints and flushes
the log, and the tick (`irq`), which calls `log_consume` and may come between any two steps
of the former where IRQs are enabled. `at` and `job` are the place in the function, `saved`
the register with the CPSR, `msg` the message on the stack. `ReadCpsr`, `Mask`, `Take`,
`Release` are the parts of `spinlock_acquire` and `spinlock_release`, for either lock (the
log's and printk's); `Write`, `Read`, `PrintText` what is done under them. There is no
action for a spin: a lock that is found taken on one CPU is never released.

### XMODEM

`Xmodem` takes a packet for one step and calls it by its block. `line` and `answers` are the
two directions, of which the environment may lose or garble the first element at any time;
what is put into a full one is lost (`Depth`). The receiver is `xmodemReceive` with its
packet number modulo `Word`, its count of duplicates and its request for a first packet;
the transmitter is the one in the same file, which is compiled out and stands for the `sx`
of `tools/boot_uart.sh`. A flush discards what is on the line. A timeout may come at any
time: timeouts are counts of polls (`UARTCharGetTimeout`), not milliseconds, so the code
does not exclude that the answer is under way.

A packet that the line has garbled fails its checks (`Reject`), or has lost its start. The
switch then gets the rest of it byte by byte (`Misread`): a 4, be it the number of packet 4
or data, is EOT, which is acknowledged and ends the transfer; 24 twice is CAN; before the
first packet each other byte is answered, and more follow. `astray` remembers that a timeout
came early or a packet was misread. Two things are assumed of the line: the CRC detects what
it garbles, and it does not make one answer of another.

## 3. What is checked

| Run | Instance | Shows |
|---|---|---|
| `paging` | 8 pages, 1 reserved, blocks of 3 on 2-page boundaries | the allocator's invariants; it implements `PageAlloc` |
| `paging_links` | 6 pages, 1 reserved, blocks of 2 | the pointers implement `Paging` |
| `sched` | 4 slots, tick period 2, sleeps of 0 or 1, a clock of 2 values, memory may run out | 9 invariants, 3 action properties, `Sched` implements `Lifecycle`; with fairness, every READY process and every sleeper that is due by the clock runs |
| `memory` | 26 pages, blocks of 2 on 2-page boundaries, 3 processes, programs of 1 or 2 pages, 2 ASIDs | `ProcMem` on the free list: 7 invariants; both sides use the allocator legally |
| `files` | 3 processes, 3 descriptors of which 1 is the console's, 5 open files, offsets from -2 to 1 | 2 invariants; `FileTable` implements `Descriptors` |
| `fat32` | 4 clusters, 3 directory entries, 2 names, 2 open files, writes up to 3 clusters | 2 invariants under write errors and power loss |
| `log_ring` | a ring of 3 places, 5 messages | 2 invariants, with a tick at every place where IRQs are enabled |
| `xmodem` | 11 packets, room for 10, 5 packet numbers, 3 duplicates accepted, 4 tries, 2 frames under way | 2 invariants under loss, garbling, misread packets and early timeouts |
| `wait_for_dead`, `exit_status`, `fork_full`, `uart_wrap` | 4 slots; a ring of 4 bytes | what the repository says and the code does not do (section 5) |

The invariants of `Sched`:

* `PidIsSlot`: a used slot's pid is its number, an unused slot has pid 0 and lies above all
  used ones. The round-robin scan and `get_process_by_pid` depend on it.
* `SleepQueueExact`: the queue holds exactly the SLEEPING processes, each once.
* `SweepMissesNobody`: when the next process is picked, nobody sleeps whose time had come
  when the sweep read the clock, although the sweep moves queue entries while it goes
  through them.
* `WaiterStaysBlocked`: while an awaited child lives its waiter is BLOCKED, so the blind
  store of READY in `sys_exit` is right.
* `ImpossiblePanics`: the two panics the code calls impossible are.
* `RunsAsItself`: only the current process is RUNNING, and user mode is entered only by a
  live current process under its own tables with a mapped stack.
* `ForkReturnsTwice`: 0 in the child; the pid of a child, or -1, in the parent.
* `NoCurrentOnlyWhenScheduling`: a null `current_process` is never followed.
* `Consistent`: how the variables are related at each place of the kernel, the strengthening
  the proof needs (section 6), checked here first.

Action properties: `DeadStaysDead` (a tick writes READY into whatever is current, and after
an undefined instruction that is a dead process), `SleepsUntilDue` (only the sweep ends a
sleep, and never before its time, though the clock starts again in between),
`WaitsForItsChild`. `ReadyRuns` is liveness: a READY process, or a sleeper whose
`wake_ticks` the clock has reached, gets the CPU. It promises nothing of a sleeper whose
time the clock passes back from when it starts again before a sweep: the code does not wake
it (section 5). `Implements` relates all of it: slots, flags, masking and ticks in the
middle of a system call do not change what a process's life looks like from outside.

The properties of `Memory`:

* `RefCountCovers`: a shared code page has a reference for each process that lists it, so it
  is freed with the last one only. (A failed fork leaves it counted too often: then it is
  never freed.)
* `OneOwner`: a frame is free, lost, a user page, or part of one process's tables, never two
  of these.
* `Accounted`: memory is lost in the listed ways only: level-2 pages at exit, the old tables
  at exec, what a failed fork had got, and everything of a process killed by an undefined
  instruction.
* `UserSeesOwnPages`, `LoadedTableIntact`: in user mode TTBR0 holds the process's own table,
  which maps the pages on its list; and a table that TTBR0 still holds has not been handed
  out again, although it may be free already.
* `TranslationsCurrent`: no stale TLB entry in user mode, given `FlushAll` (section 5).
* `ImpossiblePanics`: a zero reference count, a parent without heap or stack page, a page
  mapped twice.
* `UsesPaging`, `Implements`: each step is one legal call of the allocator, or none.

The properties of `FileTable`: `CountCovers` (`num_fds` never counts a descriptor that is
not open), `SharedByFork` (processes share a file only through fork, under the same
descriptor), `Implements`.

The properties of `Fat32`: `SizeCovered` (no file is longer than its chain, so a read within
its size finds its clusters) and `ChainsSound` (chains end, and share nothing). The second
needs an exception that the model makes precise: `torn`, set when the one write that ends a
chain fails or power is lost just before it. The cluster is then linked but free, and will
be given to another file.

The properties of `LogRing`: `PrintedInOrder` (what is printed, in hand and in the ring is
what the ring accepted; a full ring drops, and overwrites nothing) and `LocksMask`: no lock
is found taken, and a tick that uses the same lock, and so stores its own CPSR in it, does
not change the mask that the interrupted code gets back.

The properties of `Xmodem`: `StoredInOrder`; and `CompleteAtEnd`, a length is returned for
the whole image only, and the transmitter reports success only if the receiver does. The
second holds only until a timeout comes early: then TLC finds a repeated packet acknowledged
twice, the second acknowledgement taken for that of the next packet, and an EOT accepted
with a packet missing. Nor does it hold once a packet is misread (section 5). So it says
that there is no other way to a partial image: no loss, garbling or repetition by itself.

The type invariants of `Paging`, `Sched`, `ProcMem` and `FileTable` are theorems (section 6)
and not repeated in the runs; that of `Fat32` was checked once, on the instance of its run.

**Bounds.** Four slots are the null process, init, and two more: enough for a full table,
for a parent waiting for one of two children, for a grandchild, for two sleepers and a
removal from the middle of the queue, and for a scan that wraps. Tick period 2 is the
code's. A sleep of 0 or 1 clock steps gives sleepers that are due at once, due later, and
out of order. A clock of two values starts again at every second step, so a wrap falls into
every place of the kernel and into every sleep; `wake_ticks` beyond it are never reached, as
in the code. One exit code suffices, as no property compares codes of different exits. Slots
are never reused, so histories are finite without a bound. For the allocator, blocks of
three pages make the scan follow two links, and eight pages leave room for two blocks and
for pages that break the order. In `PagingLinks` the refinement mapping follows the list in
every evaluation, hence six pages. In `Memory` three processes are the null process, init
and a child: the only sharing there is. 26 pages are enough for three processes and for
execs that lose tables until memory runs out at each of the places where it can; two ASIDs
make the third table flush the TLB. In `FileTable` three descriptors let a close leave a gap
with an open descriptor above it, and five files are the console's for three processes and
two opens; with a size of 1 and `Half` 2 reads take the offset below 0 and round. `Fat32`
has one file to begin with, one free name, and a volume that fills up while two handles
extend files; `Word` 8 wraps as a uint32_t does, being larger than every count that does not
wrap. It was also run once with five clusters. In `UartRing` twelve bytes are three times
round. In `LogRing` three places hold two messages, so five fill the ring and go round. In
`Xmodem` five packet numbers are the fewest that two frames under way allow: with four, a
transmitter that late acknowledgements have carried far enough ahead has a packet stored in
the place of another (the code has 256 numbers, and a line that holds less than a packet);
eleven packets go round twice. The transmitter tries a packet once more than the receiver
takes it, so that this one gives up: with the 25 of both ends in the file it never does, but
`sx` has a limit of its own. Safety does not rest on these bounds where section 6 has a
theorem.

**Deadlock** is checked in the runs of `Paging`, `Sched`, `Fat32` and `LogRing`: no
reachable state is without a successor (`Halted` is the loop of `panic`, `Restart` follows
one in `Fat32`; in `LogRing` it would be a lock that is never given back). In `memory`,
`files`, `xmodem` and `uart_wrap` it is not, because there a panic, the end of a transfer or
a bound really ends the behaviour.

**Fairness** (`FairSpec`, used by `sched` only). Weak fairness of the kernel's own steps:
the CPU does not stop. Nothing is assumed of `Clock`. Strong fairness of `TimerIrqUser`: the
timer is periodic and a pending interrupt is taken as soon as IRQs are unmasked, so a
program that enters the kernel again and again cannot avoid it for ever. Programs owe nobody
a step. `ReadyRuns` allows the kernel to have panicked, which fork on a full table and exec
without memory really do.

## 4. How the models were abstracted

Data is reduced to what the properties tell apart. The clock of `Sched` starts again after
`ClockSpan` steps, as that of the code does after 2^32 ticks (section 5); `wake_ticks` is 64
bits wide and does not wrap. `check_sleep_expiry` reads the clock once, so a sleep that ends
during the sweep waits for the next. `wake` counts each sleep down beside the clock: it is
what `SleepsUntilDue` and `Lifecycle` compare with. Out-of-memory is a choice at the two
points where it matters, before a slot is taken (fork) and after the old image is gone
(exec). IRQs in the scheduler itself are possible only if the path that led there enabled
them; the model carries `irq` along instead of assuming it.

The undefined-instruction handler stores seventeen registers from offset 20 of `process_t`
on; that offset is now `state`, `wake_ticks`, the table pointers, the page list and the
first descriptors. `state` is set to KILLED right after, which is all that `Sched` sees of
it; `ProcMem` loses the page list and the tables there.

In `ProcMem` every loaded segment is code, as `userspace/linker.ld` makes one segment of a
whole program. A TLB entry is `<<user page, frame>>`, and one of them is followed: entries
do not depend on each other. `FlushAll` says whether `TLBIASID` drops global entries too. In
`Fat32` sizes are in clusters and data is left out; only the first copy of the table, the
one that is read, is modelled. In `FileTable` the volume's files have one size, and path
lookup either finds or does not.

## 5. Where the code and its documentation differ

Each has a run that ends in a counterexample.

* `NobodyWaitsForTheDead` (`syscall.c:321`): `waitpid` for a child that has already exited
  blocks for ever, although `docs/todo.txt:11` wants the dead to stay around until waitpid
  comes. The trace: fork, the child's exit, waitpid. (A child killed by an undefined
  instruction does not count: its memory is not freed, and the line is about exit.)
* `ParentGetsExitStatus` (`syscall.c:233`): the exit status is stored through the parent's
  stack address while the child's tables are loaded; waitpid returns its argument.
* `ForkFailsCleanly` (`sched.c:526`): with a full table `create_process` initialises the
  memory of a null process and the kernel aborts, instead of fork returning -1.
* `WrapAroundHandled` (`vfs_uart.c:13`): once a whole buffer of bytes has come in, the
  free-running head and the reduced tail no longer compare, and readers get old bytes, in
  spite of "handle wrap-around".

Seen while modelling, and part of the models rather than of a run of their own:

* A failed exec returns without storing its error (`syscall.c:369`), although init prints it
  (`userspace/src/init.c:19`): the caller goes on with r0 as it was (`ExecFails`).
* `timer_start_callback` stores over `irq_enable` (`drivers/qemu/timer.c:59`), which
  disables the interrupt that `system_tick_clock` has enabled for the wrap of the counter,
  and `handle_irq` acknowledges the heartbeat's bit instead of its own: `get_ticks` starts
  again from 0 every 2^32 ticks, about three minutes. A sleep whose end lies beyond that
  moment never ends (`Clock`, `Expired`): no property of `Sched` says that every sleeper
  wakes.
* XMODEM: a repeated packet 255 is not recognised after the number has gone round
  (`xmodem.c:155`, an `int` compared with -1); the receiver never gives up on its own, the
  `return -2` being out of reach; what does not fit into the destination is acknowledged all
  the same. A packet whose start is lost is read byte by byte, and the number of packet 4 or
  any data byte 4 then is EOT: the receiver answers ACK and returns a length with blocks
  missing, without any timeout (`xmodem.c:112-121`, `Misread`); 24 twice cancels likewise.
  One broken first packet gets several 'C's, so the transmitter repeats it (`xmodem.c:104`).
* No user page is mapped non-global, so on real hardware `TLBIASID` would keep the entries
  of the process switched from; the emulator drops them. `FlushAll` is this difference.
* A failed fork leaves the parent's descriptors in the slot, and the next process there
  starts with them (`sched.c:443-451`). `close` takes `num_fds`, a count, for a bound, so
  after a close a higher open descriptor cannot be closed (`vfs.c:83`); `CountCovers` has
  only the other direction. `sys_read` adds -1 to the offset (`syscall.c:131`); for a count
  of 2^31 or more `fat32_vfs_read` returns a negative number after a good read, since it
  compares `(int)len` (`vfs_fat32.c:160`), and the offset moves back or round. read, write
  and lseek do not compare the descriptor with `MAX_FDS` (`syscall.c:115`, `138`, `285`).
  `sys_open` of a missing path follows a null pointer.
* FAT32: a read at the end of a file returns 0 where `fat32.h:158` has an error code
  (`fat32.c:150`); a write inside a file takes every free cluster (`fat32.c:674`); a full
  volume is not recognised and ends in a panic (`681`, `697`); the walk to the last cluster
  does not end on an error (`689`); with a second copy of the table a directory update also
  writes over data (`601-605`); create does not notice an entry of the same name
  (`fat32.h:141`) and loses the cluster it allocates; `read_fat_entry` reads one byte
  (`360`).
* `uart0_read` returns the count asked for, not the count read.

## 6. What is proved

`tlapm` checks the eight modules `...Proofs` completely: every invariant, action property
and refinement that a run checks on its instance is a theorem for every value of the
constants. The assumptions are the named `ASSUME`s on the constants:

| Module | Assumed |
|---|---|
| `Paging`, `PagingLinks` | natural sizes, at least one reserved page, blocks of two pages or more; the null pointer is no page |
| `Sched` | at least two slots, a positive tick period and span of the clock, integer exit codes, a null pointer and a junk value that are no integers |
| `ProcMem`, `Memory` | a finite set of frames (in `Memory`, the pages not reserved), blocks of two pages or more, at least two processes, one page of code and one ASID |
| `FileTable` | at least two processes, as many descriptors as a process starts with, file sizes that are positive ints |
| `Fat32` | at least two clusters (the root directory's and the first file's), one directory entry, and a word that holds every count that does not wrap |
| `LogRing` | a ring of at least two places |
| `Xmodem` | a packet, room on the line, one try of each kind; more packet numbers than twice what one direction of the line holds |

The code's constants satisfy all of these. For the last, there are 256 packet numbers, and a
serial line with its buffers does not hold 128 packets of 133 bytes. The histories of
`FileTable` and `LogRing` (files opened, messages logged) have a bound in the models, which
in the theorems is any number.

The proofs need induction over data in three places: a list followed through pointers, a
chain followed through the allocation table, and the smallest member of a set of numbers.
The library's induction theorems cannot be instantiated, so these are done by a least
counterexample (`LeastNat`, from the well-foundedness of < in the library), which also
unfolds the recursive functions `Walk` and `Path`.

**Allocator.** `AllocatorInvariant`: the conjunction of the six invariants is inductive.
Each action moves one block between list and callers; `Removes` and `Adds` say so about the
list, two lemmas carry all invariants over such a step, and the same facts show that each
step is a step of `PageAlloc` (`ListImplementsAllocator`). The counter must be part of the
invariant (it is decremented, so its type depends on its value) and so must exclusiveness
(held blocks are pushed back, so they must not be on the list).

**Scheduler.** `SchedInvariant`: `IInv` holds in every reachable state, for any number of
slots, tick period, longest sleep and span of the clock. The properties of section 3 alone
are not inductive. What `Consistent` adds, and why:

* `CurrentLive`: wherever a tick may come (`user`, or IRQs enabled) the current process is
  live. This is why the tick's blind store of READY revives nobody.
* `NullReady`, `CurrentLoaded`: the null process is READY or RUNNING and only the current
  process is RUNNING, so `get_next_process` always finds one.
* `ForkSlot`, `UnusedBlank`: fork fills slot number `curr_pid`, and unused slots are as
  `memset` left them.
* `Waiters`: an awaited child is a child of its waiter, and no two living children have the
  same waiter. Without uniqueness the exit of one would leave the parent READY while the
  other still points to it.
* `Deadlines`: as long as a sleep is not over by `wake`, the clock is short of `wake_ticks`,
  though it starts again; and what the sweep has passed is not due. `NobodyIsMissed`
  follows.
* `ForkResults`: between fork and the first dispatch of the child, a result of fork is in
  the parent's saved r0 and the child's `forked` flag promises its 0.

There is one lemma per action with one step for each part the action disturbs. Most actions
do not change what any process is (`SameKind`: not between unused, asleep, blocked, dead and
live); `QuietActions` shows which, and `QuietStep` deals with the table and the queue for
all of them. `Changes` lists what the other steps may do, from which the three action
properties follow. From `SchedInvariant` come `SchedTypes`, `PidsAreSlots`,
`SleepQueueIsExact`, `NobodyIsMissed`, `WaitersStayBlocked`, `PanicsAreImpossible`,
`ProgramsRunAsThemselves`, `NullOnlyWhenScheduling`, `ForkReturnsTwiceAlways`,
`TheDeadStayDead`, `SleepersSleepUntilDue` and `WaitersWaitForTheirChild`.

**Refinement.** `SchedImplementsLifecycle`: `Sched` implements `Lifecycle`. `Life` reads
what a process is doing off its state and off who has the processor. A step that keeps what
every process is (the quiet ones above) can only move the processor: `Switch` is a
`Dispatch`, a step that leaves the current process without it is a `Deschedule`, and the
rest stutter. The six other kinds of step each have a lemma that finds the abstract step.
They need `IInv`: `Waiters` for the `Wait` of a process whose place nobody has taken,
`WaiterStaysBlocked` for the `Exit` that wakes only a waiting parent, `Deadlines` for
`Wake`.

**Process memory.** `ProcMemInvariant`: `IInv` holds in every reachable state, for every
memory, block size, number of processes and program size. It has two parts. `MemInv` says
who owns what, one process at a time (`Owners`, `OnePlace`), that what belongs to a process
is held (`Held`: it may be given back), that counts cover the holders, and that nothing else
is missing. Section 2 of the module shows that it survives each of the eight ways frames
change hands: a page, a table or a level-2 page is added, pages are shared, one is released,
a table is released, a process is forgotten, or nothing moves. The cases differ only in
which sets grow, so `OwnersKeep` does the common part for any sets of pages, table pages and
level-2 pages (`Gains`). The other part is about control: which operation and which process
each place belongs to (`Places`, `Actors`), which pages are not there yet (`Blank`: an
assignment overwrites none), how far `map_page` has got (`Mapped`), whose the table in TTBR0
is or whether it is free or lost (`LoadedIs`), and when a TLB entry is current (`TlbIs`).
All invariants of the `memory` run follow, and `ProcMemUsesPageAlloc`: only `FreePages` and
`Drop` give anything back, and `Held` is what makes that legal. `NoStaleTranslation` has
`FlushAll` as a hypothesis.

**The composition.** `MemoryUsesPaging`: every step of `Memory` is a step of `Paging`. The
invariant joins the two inductive invariants by `Coupled`: the list holds what the processes
believe to be free. A step of the processes is one legal call (`StepsAreCalls`), so exactly
one block leaves or enters the free set; `TakeFollows` and `GiveFollows` find the call of
the list that moves it, and the lemmas of `PagingProofs`, instantiated, say what becomes of
the list. So `Paging`'s assumption about its callers is discharged for the callers there
are.

**Descriptors.** `FileTableInvariant` adds two things to the properties. `Numbered`: an
address on the heap is the number of the open it is from, which is `kfree` doing nothing.
`SameFd`: an open file is under the same descriptor in every table, also in the slot that a
failed fork has left in disorder; without it `SharedByFork` would not survive the next fork
into that slot. `CountIsCovered`, `OnlyForkShares` and `DescriptorsKeepTheirPromise` follow.

**Pointers.** `LinksImplementList`: `PagingLinks` implements `Paging`. The invariant
(`PointersAreTheList`) is that `next` links, from the head, exactly the sequence that the
refinement mapping finds, together with the invariant of `Paging` for that sequence.
`WalkFinds` has the converse: a list without repetitions that the pointers link is what the
walk finds, so for each action it is enough to name the list it leaves (`Follows`). The
invariant needs the allocator's own: a page that is given back is held and so not on the
list, which is why its link may be overwritten, and why a stale link in it harms nothing. In
`alloc_aligned_pages` the scan looks at pointers only; `ValidIsStart` has that it accepts a
place exactly where the list has an ascending run. For this the end of the list must not be
taken for a page: `NULL` is no page number.

**Log.** `LogRingInvariant` joins two halves. `Control` says what the kernel and the tick
know of each other: where the kernel can have been interrupted (`Interrupted`), which mask
is in a register or in a lock (`Kept`), who holds a lock (`HeldBy`), and that messages leave
the ring only in the tick or with IRQs masked (`Working`). The tick can come between reading
the CPSR and `cpsid`, and take the same lock: the interrupted code then stores its own value
again, which is why `Kept` is about the register there and about the lock after it. The
other half is `PrintedInOrder` itself, which with `Working`, and with what is stored being
messages (`Stored`), is inductive.

**XMODEM.** `XmodemInvariant`. With r packets accepted, everything on the line must be less
than a turn of numbers away from r. The transmitter runs ahead of r when it takes the
acknowledgement of a repeated packet for that of a later one, and repeated packets under way
will bring more of those. So the bound must be on all of them together. Let c be the packet
up to which the line, as it is, brings the receiver: after c there is a gap, or nothing.
`Balance`: the block being sent, plus the acknowledgements under way, plus the packets under
way up to c, less c, is at most twice what one direction holds. The packets up to c that are
no repetition cancel against c - r, so what remains is how far the transmitter is ahead, and
by how much it can get further. `Ordered` says that packets under way are in order and none
is older than r. TLC found the invariant true for depths 1, 2, 3 with 3, 5, 7 numbers, and
false for depth 2 with 4, where `StoredInOrder` fails too. `ImageComplete` adds, for
transfers in which no timeout came early and no packet was misread, that one thing is under
way at a time (`InStep`).

**FAT32.** `Fat32Invariant`. Besides types, `Call` says what a call has found before it is
cut: an open file, something left to write, in `first` a cluster still free. `Sizes` is
`SizeCovered` for the directory and the open files, and more: the table entry that is
written next is not inside of what any size covers, so a write there, failed or not,
shortens nothing. While `torn` is false, `Chains` holds: no cluster has two predecessors or
is both a start and a successor, and the only cluster linked but free is the one whose end
mark is written next. From it, chains that begin apart stay apart (`PathsApart`), and a
chain that did not end would be an injection of too many places into the clusters
(`PathEnds`, by counting).

**Only model-checked.** Liveness (`ReadyRuns`): reasoning about fairness is out of the
prover's reach. What section 5 has runs for is false, and stays with TLC too.

## 7. What is not modelled

* Register contents over exceptions (`irq_handler_new` uses r12 before it saves it); the
  counter and its registers, of `get_ticks` only that it starts again; unit conversions,
  which are data only (`us_to_ticks` wraps for sleeps above some nine days), and the
  calendar.
* The end of the kernel heap: `kmalloc` is taken to succeed. Its failure is not looked at in
  most places.
* `readdir`, `mount`, path and name parsing, subdirectories, data contents and the second
  copy of the table in FAT32; `unmap_page`, which nothing calls; `check_if_user_addr`.
* The boot loader, a straight line of set-up and one file load. Of XMODEM the 1024-byte
  packets, the checksum mode and the CRC, which is taken to detect what is garbled.
* What lies behind the descriptor tables in memory and is neither an entry of another table
  nor an invalid pointer (`WildDescriptor`).
* The blocked queue (`blocking.c`) is a stub that nothing feeds. The ELF loader parses a
  byte image; exec has its outcomes. MMC, RTC, I2C, GPIO, DMA, clock set-up and the
  BeagleBone drivers drive hardware whose behaviour the repository does not describe, and
  most of the lines of the repository are the register definitions of those. Formatting and
  string helpers are pure and no property is about them.

## 8. What could come next

1. `Context`: the registers an exception path saves and restores.
2. `Timer64`: the counter, the registers that the two timers share, and `get_ticks` at a
   wrap; unit conversions of limited width.
3. `Fat32` with both copies of the table and with contents, for what a directory update
   writes over.
4. `KHeap` at its end.

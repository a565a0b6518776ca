-------------------------------- MODULE ProcMem --------------------------------
(***************************************************************************)
(* The memory of processes: create_process, swap_process (exec), sys_exit  *)
(* and the undefined-instruction handler of kernel/src/sched.c, syscall.c  *)
(* and drivers/mmu.c, on top of any page allocator that keeps the promises *)
(* of PageAlloc.  The kernel path is cut at every call of the allocator,   *)
(* so that each step takes or gives back at most one page or block.        *)
(*                                                                         *)
(* Only one kernel path runs at a time and interrupt handlers allocate     *)
(* nothing, so the cuts are not preemption points; but the table walker of *)
(* the MMU is active throughout (Walk): it may fill the TLB from whatever  *)
(* tables TTBR0 holds, also in the middle of an exit or an exec.           *)
(*                                                                         *)
(* A process's page list is in order of address (code, heap, stack), so it *)
(* is a function from user pages to frames.  Every loaded segment is code: *)
(* userspace/linker.ld and its Makefile put the whole program in one       *)
(* readable, writable and executable segment.  A process_page is named by  *)
(* its frame.  The kernel heap is taken to be large enough.                *)
(*                                                                         *)
(* A definition named Mut... is a faulty variant of the one after it; no   *)
(* action uses it.  It is there to see that the properties notice it.      *)
(***************************************************************************)
EXTENDS Integers, FiniteSets

CONSTANTS Frames,        \* page frames the allocator manages
          AlignPages,    \* pages per aligned boundary
          BlockPages,    \* pages of a level-1 table
          MaxProcesses,  \* MAX_PROCESSES: slots of process_table
          MaxCode,       \* bound: pages of the largest program
          MaxAsid,       \* MAX_ASID
          FlushAll,      \* does TLBIASID drop global entries too?
          NULL           \* the null pointer

ASSUME ProcMemAssumption ==
  /\ Frames \subseteq Int /\ IsFiniteSet(Frames)
  /\ AlignPages \in Nat \ {0}
  /\ BlockPages \in Nat \ {0, 1}
  /\ MaxProcesses \in Nat /\ MaxProcesses >= 2
  /\ MaxCode \in Nat \ {0} /\ MaxAsid \in Nat \ {0}
  /\ FlushAll \in BOOLEAN
  /\ NULL \notin Int

VARIABLES
  free, held,      \* the allocator: free pages, blocks handed out (PageAlloc)
  state,           \* process_table[p].state: unused, able to run, or dead
  pages,           \* pages_head: the frame behind each user page, NULL if none
  ref_count,       \* process_page.ref_count, by frame
  ttbr0,           \* process_table[p].ttbr0, while the kernel may still use it
  level2,          \* by level-1 table: the level-2 page of each section
  mapping,         \* by level-1 table: what its level-2 pages map
  asid_bitmap,     \* the ASIDs given out since the last rollover
  current,         \* current_process
  loaded,          \* the table in TTBR0
  tlb,             \* an entry of the TLB, any one: <<user page, frame>>
  pc, op,          \* where the kernel is, and in which operation
  target, size,    \* the process it builds, and the pages of its program
  va,              \* the loop over the page list in create_process
  reason,          \* why the kernel has panicked
  lost             \* history: the frames nobody points to any more

alloc   == <<free, held>>
tables  == <<ttbr0, level2, mapping, asid_bitmap>>
cpu     == <<current, loaded>>
vars == <<free, held, state, pages, ref_count, ttbr0, level2, mapping, asid_bitmap,
          current, loaded, tlb, pc, op, target, size, va, reason, lost>>

Procs == 0 .. (MaxProcesses - 1)
Heap  == MaxCode + 1          \* MEMORY_USER_HEAP_BASE
Stack == MaxCode + 2          \* MEMORY_USER_STACK_BASE
VAs   == 1 .. Stack           \* user pages, code first: the list order
Sections == {1, Heap, Stack}  \* heap and stack have a section of their own
SectionOf(v) == IF v <= MaxCode THEN 1 ELSE v

Block(b) == b .. (b + BlockPages - 1)
NoPages  == [v \in VAs |-> NULL]
NoTables == [s \in Sections |-> NULL]

Ops == {"none", "spawn", "fork", "exec", "exit"}
PCs == {"boot", "user", "table", "load", "clone", "heap", "stack", "map",
        "free", "drop", "switch", "invalidate", "panic"}
Reasons == {"none", "boot", "exec_lost", "no_level2", "no_runnable", "ref_count",
            "parent_pages", "remapped"}

\* scheduler_init: an empty process table, nothing loaded in TTBR0.
Init ==
  /\ free = Frames /\ held = {}
  /\ state = [p \in Procs |-> "NONE"]
  /\ pages = [p \in Procs |-> NoPages]
  /\ ref_count = [f \in Frames |-> 0]
  /\ ttbr0 = [p \in Procs |-> NULL]
  /\ level2 = [b \in Frames |-> NoTables]
  /\ mapping = [b \in Frames |-> NoPages]
  /\ asid_bitmap = {}
  /\ current = NULL /\ loaded = NULL
  /\ tlb = NULL
  /\ pc = "boot" /\ op = "none" /\ target = 0 /\ size = 1 /\ va = 1
  /\ reason = "none" /\ lost = {}

-------------------------------------------------------------------------------
(* The allocator's calls, as PageAlloc promises them.  alloc_page fails    *)
(* only when nothing is free; for a block it may fail earlier.  Nothing    *)
(* keeps the kernel from giving back what it does not hold.                *)

TakePage(f) ==
  /\ f \in free
  /\ free' = free \ {f}
  /\ held' = held \cup {<<f, 1>>}

TakeBlock(b) ==
  /\ Block(b) \subseteq free
  /\ b % AlignPages = 0
  /\ free' = free \ Block(b)
  /\ held' = held \cup {<<b, BlockPages>>}

GivePage(f) ==
  /\ free' = free \cup {f}
  /\ held' = held \ {<<f, 1>>}

GiveBlock(b) ==
  /\ free' = free \cup Block(b)
  /\ held' = held \ {<<b, BlockPages>>}

-------------------------------------------------------------------------------
(* What belongs to a process.                                              *)

FramesOf(p) == {pages[p][v] : v \in VAs} \ {NULL}
Holders(f)  == {p \in Procs : f \in FramesOf(p)}
Level2Of(p) == IF ttbr0[p] = NULL THEN {}
               ELSE {level2[ttbr0[p]][s] : s \in Sections} \ {NULL}
TableOf(p)  == IF ttbr0[p] = NULL THEN {} ELSE Block(ttbr0[p])

\* The frames that become unreachable when p's page list is forgotten.
OnlyOf(p) == {f \in FramesOf(p) : Holders(f) = {p}}

Panic(why) ==
  /\ pc' = "panic" /\ reason' = why
  /\ UNCHANGED <<alloc, state, pages, ref_count, tables, cpu, tlb, op, target,
                 size, va, lost>>

\* get_available_process: the first unused slot.
AvailableProcess(p) ==
  /\ state[p] = "NONE"
  /\ \A q \in Procs : q < p => state[q] # "NONE"

-------------------------------------------------------------------------------
(* The operations begin.                                                   *)

Begin(o, t, n, at) ==
  /\ op' = o /\ target' = t /\ size' = n /\ va' = 1
  /\ pc' = at
  /\ UNCHANGED <<alloc, state, pages, ref_count, tables, cpu, tlb, reason, lost>>

\* spawn_elf_init_process: the null process and then init.
Spawn ==
  /\ pc = "boot"
  /\ \E p \in Procs, n \in 1 .. MaxCode :
       AvailableProcess(p) /\ Begin("spawn", p, n, "table")

\* sys_fork.  (Without a free slot the kernel follows a null pointer: Sched.)
Fork ==
  /\ pc = "user"
  /\ \E p \in Procs : AvailableProcess(p) /\ Begin("fork", p, 1, "table")

\* sys_exec, the program read and parsed: swap_process.
Exec ==
  /\ pc = "user"
  /\ \E n \in 1 .. MaxCode : Begin("exec", current, n, "free")

\* sys_exit.
Exit == pc = "user" /\ Begin("exit", current, 1, "free")

\* A tick that asks for a reschedule, sys_yield, usleep or waitpid.
Reschedule ==
  /\ pc = "user" /\ pc' = "switch"
  /\ UNCHANGED <<alloc, state, pages, ref_count, tables, cpu, tlb, op, target, size,
                 va, reason, lost>>

\* undef_handler stores registers over the fields of process_t from state to
\* fd_table[3], page list and table address included, and the process is dead.
Undefined ==
  /\ pc = "user" /\ pc' = "switch"
  /\ state' = [state EXCEPT ![current] = "KILLED"]
  /\ pages' = [pages EXCEPT ![current] = NoPages]
  /\ ttbr0' = [ttbr0 EXCEPT ![current] = NULL]
  /\ lost' = lost \cup OnlyOf(current) \cup TableOf(current) \cup Level2Of(current)
  /\ UNCHANGED <<alloc, ref_count, level2, mapping, asid_bitmap, cpu, tlb, op, target,
                 size, va, reason>>

-------------------------------------------------------------------------------
(* free_process_memory: one page list entry at a time.                     *)

MutDropReference(p, v, f) ==
  /\ GivePage(f)
  /\ UNCHANGED <<ref_count, lost>>
MutKeepReference(p, v, f) ==
  /\ ref_count' = [ref_count EXCEPT ![f] = @ - 1]
  /\ lost' = lost
  /\ UNCHANGED alloc
DropReference(p, v, f) ==
  IF ref_count[f] = 1
  THEN GivePage(f) /\ UNCHANGED <<ref_count, lost>>
  ELSE /\ ref_count' = [ref_count EXCEPT ![f] = @ - 1]
       /\ lost' = lost \cup {x \in {f} : Holders(f) = {p}}
       /\ UNCHANGED alloc

FirstPage(p, v) == pages[p][v] # NULL /\ \A w \in VAs : w < v => pages[p][w] = NULL

FreePages ==
  /\ pc = "free"
  /\ \E v \in VAs :
       /\ FirstPage(target, v)
       /\ IF ref_count[pages[target][v]] = 0
          THEN Panic("ref_count")
          ELSE /\ DropReference(target, v, pages[target][v])
               /\ pages' = [pages EXCEPT ![target][v] = NULL]
               /\ UNCHANGED <<state, tables, cpu, tlb, pc, op, target, size, va, reason>>

FreePagesDone ==
  /\ pc = "free" /\ pages[target] = NoPages
  /\ pc' = IF op = "exit" THEN "drop" ELSE "table"
  /\ UNCHANGED <<alloc, state, pages, ref_count, tables, cpu, tlb, op, target, size,
                 va, reason, lost>>

Idle == op' = "none" /\ target' = 0 /\ size' = 1 /\ va' = 1

MutDrop ==
  /\ pc = "drop" /\ pc' = "switch" /\ Idle
  /\ GivePage(ttbr0[target])
  /\ lost' = lost \cup Level2Of(target)
  /\ ttbr0' = [ttbr0 EXCEPT ![target] = NULL]
  /\ state' = [state EXCEPT ![target] = "KILLED"]
  /\ current' = NULL
  /\ UNCHANGED <<pages, ref_count, level2, mapping, asid_bitmap, loaded, tlb, reason>>
\* sys_exit frees the level-1 table, still in TTBR0, but not the level-2 pages.
Drop ==
  /\ pc = "drop" /\ pc' = "switch" /\ Idle
  /\ GiveBlock(ttbr0[target])
  /\ lost' = lost \cup Level2Of(target)
  /\ ttbr0' = [ttbr0 EXCEPT ![target] = NULL]
  /\ state' = [state EXCEPT ![target] = "KILLED"]
  /\ current' = NULL
  /\ UNCHANGED <<pages, ref_count, level2, mapping, asid_bitmap, loaded, tlb, reason>>

-------------------------------------------------------------------------------
(* The new memory: create_process and the second half of swap_process.     *)

\* A call of the allocator returned NULL.  fork returns -1 and leaves behind
\* whatever it has got so far; the boot panics; exec returns to a program that
\* is no longer there, which aborts.
OutOfMemory ==
  IF op = "fork"
  THEN /\ pages' = [pages EXCEPT ![target] = NoPages]
       /\ ttbr0' = [ttbr0 EXCEPT ![target] = NULL]
       /\ lost' = lost \cup OnlyOf(target) \cup TableOf(target) \cup Level2Of(target)
       /\ pc' = "user" /\ Idle
       /\ UNCHANGED <<alloc, state, ref_count, level2, mapping, asid_bitmap, cpu, tlb,
                      reason>>
  ELSE Panic(IF op = "spawn" THEN "boot" ELSE "exec_lost")

\* allocate_asid: the first unused one, or a flush and the first again.
AllocateAsid ==
  IF asid_bitmap = 1 .. MaxAsid
  THEN asid_bitmap' = {1} /\ tlb' = NULL
  ELSE /\ \E a \in (1 .. MaxAsid) \ asid_bitmap :
            /\ \A b \in (1 .. MaxAsid) \ asid_bitmap : a <= b
            /\ asid_bitmap' = asid_bitmap \cup {a}
       /\ UNCHANGED tlb

\* initialize_process_memory.  exec overwrites the address of the old table.
InitializeMemory ==
  /\ pc = "table"
  /\ \/ /\ \E b \in Frames :
             /\ TakeBlock(b)
             /\ ttbr0' = [ttbr0 EXCEPT ![target] = b]
             /\ level2' = [level2 EXCEPT ![b] = NoTables]
             /\ mapping' = [mapping EXCEPT ![b] = NoPages]
        /\ AllocateAsid
        /\ lost' = lost \cup TableOf(target) \cup Level2Of(target)
        /\ pc' = IF op = "fork" THEN "clone" ELSE "load"
        /\ UNCHANGED <<state, pages, ref_count, cpu, op, target, size, va, reason>>
     \/ OutOfMemory

MutLoadPage ==
  /\ pc = "load"
  /\ \/ \E f \in Frames :
          /\ TakePage(f)
          /\ pages' = [pages EXCEPT ![target][va] = f]
          /\ va' = va + 1
          /\ pc' = IF va = size THEN "heap" ELSE "load"
          /\ UNCHANGED <<state, ref_count, tables, cpu, tlb, op, target, size, reason,
                         lost>>
     \/ free = {} /\ OutOfMemory
\* load_elf_binary: the next page of the program, or a NULL.
LoadPage ==
  /\ pc = "load"
  /\ \/ \E f \in Frames :
          /\ TakePage(f)
          /\ pages' = [pages EXCEPT ![target][va] = f]
          /\ ref_count' = [ref_count EXCEPT ![f] = 1]
          /\ va' = va + 1
          /\ pc' = IF va = size THEN "heap" ELSE "load"
          /\ UNCHANGED <<state, tables, cpu, tlb, op, target, size, reason, lost>>
     \/ free = {} /\ OutOfMemory

MutClonePages ==
  /\ pc = "clone" /\ pc' = "heap"
  /\ pages' = [pages EXCEPT ![target] =
                 [v \in VAs |-> IF v <= MaxCode THEN pages[current][v] ELSE NULL]]
  /\ UNCHANGED <<alloc, state, ref_count, tables, cpu, tlb, op, target, size, va,
                 reason, lost>>
\* clone_parent_pages: the code pages are shared.
ClonePages ==
  /\ pc = "clone" /\ pc' = "heap"
  /\ pages' = [pages EXCEPT ![target] =
                 [v \in VAs |-> IF v <= MaxCode THEN pages[current][v] ELSE NULL]]
  /\ ref_count' = [f \in Frames |->
                     IF \E v \in 1 .. MaxCode : pages[current][v] = f
                     THEN ref_count[f] + 1 ELSE ref_count[f]]
  /\ UNCHANGED <<alloc, state, tables, cpu, tlb, op, target, size, va, reason, lost>>

\* setup_stack_and_heap: the heap page, then the stack page.  The copy of a
\* parent's panics when the parent lacks one.
SetupPage(at, v, then) ==
  /\ pc = at
  /\ \/ \E f \in Frames :
          /\ TakePage(f)
          /\ pages' = [pages EXCEPT ![target][v] = f]
          /\ ref_count' = [ref_count EXCEPT ![f] = 1]
          /\ va' = 1
          /\ IF op = "fork" /\ pages[current][v] = NULL
             THEN pc' = "panic" /\ reason' = "parent_pages"
             ELSE pc' = then /\ UNCHANGED reason
          /\ UNCHANGED <<state, tables, cpu, tlb, op, target, size, lost>>
     \/ free = {} /\ OutOfMemory

HeapPage  == SetupPage("heap", Heap, "stack")
StackPage == SetupPage("stack", Stack, "map")

-------------------------------------------------------------------------------
(* map_page for each page of the list.                                     *)

\* The level-1 entry of the section is there, or a level-2 page is taken for
\* it; the result of that allocation is not looked at, and clearing a table
\* at address 0 aborts.
Level2(b, s) ==
  IF level2[b][s] # NULL
  THEN UNCHANGED <<alloc, level2>>
  ELSE \E f \in Frames :
         TakePage(f) /\ level2' = [level2 EXCEPT ![b] = [@ EXCEPT ![s] = f]]

MapPage ==
  LET b == ttbr0[target] IN
  /\ pc = "map" /\ va <= Stack
  /\ \/ /\ pages[target][va] = NULL
        /\ va' = va + 1
        /\ UNCHANGED <<alloc, state, pages, ref_count, tables, cpu, tlb, pc, op, target,
                       size, reason, lost>>
     \/ /\ pages[target][va] # NULL
        /\ level2[b][SectionOf(va)] = NULL /\ free = {}
        /\ Panic("no_level2")
     \/ /\ pages[target][va] # NULL
        /\ mapping[b][va] # NULL
        /\ Panic("remapped")
     \/ /\ pages[target][va] # NULL
        /\ mapping[b][va] = NULL
        /\ Level2(b, SectionOf(va))
        /\ mapping' = [mapping EXCEPT ![b] = [@ EXCEPT ![va] = pages[target][va]]]
        /\ va' = va + 1
        /\ UNCHANGED <<state, pages, ref_count, ttbr0, asid_bitmap, cpu, tlb, pc, op,
                       target, size, reason, lost>>

MutFinish ==
  /\ pc = "map" /\ va > Stack
  /\ state' = [state EXCEPT ![target] = "READY"]
  /\ \/ op = "spawn" /\ target = 0 /\ pc' = "boot"
     \/ op = "spawn" /\ target > 0 /\ pc' = "switch"
     \/ op \in {"fork", "exec"} /\ pc' = "user"
  /\ Idle
  /\ loaded' = IF op = "fork" THEN ttbr0[current] ELSE loaded
  /\ UNCHANGED <<alloc, pages, ref_count, tables, current, tlb, reason, lost>>
MutFinishReload ==
  /\ pc = "map" /\ va > Stack
  /\ state' = [state EXCEPT ![target] = "READY"]
  /\ \/ op = "spawn" /\ target = 0 /\ pc' = "boot"
     \/ op = "spawn" /\ target > 0 /\ pc' = "switch"
     \/ op \in {"fork", "exec"} /\ pc' = "user"
  /\ Idle
  /\ loaded' = IF op \in {"fork", "exec"} THEN ttbr0[current] ELSE loaded
  /\ UNCHANGED <<alloc, pages, ref_count, tables, current, tlb, reason, lost>>
\* The process is READY.  scheduler_init makes two; fork returns to the parent,
\* whose table is loaded again; exec always goes through the scheduler.
Finish ==
  /\ pc = "map" /\ va > Stack
  /\ state' = [state EXCEPT ![target] = "READY"]
  /\ \/ op = "spawn" /\ target = 0 /\ pc' = "boot"
     \/ op = "spawn" /\ target > 0 /\ pc' = "switch"
     \/ op = "fork" /\ pc' = "user"
     \/ op = "exec" /\ pc' = "switch"
  /\ Idle
  /\ loaded' = IF op = "fork" THEN ttbr0[current] ELSE loaded
  /\ UNCHANGED <<alloc, pages, ref_count, tables, current, tlb, reason, lost>>

-------------------------------------------------------------------------------
(* The scheduler, and the MMU.                                             *)

MutSwitch ==
  /\ pc = "switch"
  /\ \/ \E p \in Procs :
          /\ state[p] = "READY"
          /\ current' = p
          /\ loaded' = IF p = 0 /\ loaded # NULL THEN loaded ELSE ttbr0[p]
          /\ pc' = "invalidate"
          /\ UNCHANGED <<alloc, state, pages, ref_count, tables, tlb, op, target, size,
                         va, reason, lost>>
     \/ /\ \A p \in Procs : state[p] # "READY"
        /\ Panic("no_runnable")
\* scheduler: any READY process (which one: Sched) and its table.
Switch ==
  /\ pc = "switch"
  /\ \/ \E p \in Procs :
          /\ state[p] = "READY"
          /\ current' = p /\ loaded' = ttbr0[p]
          /\ pc' = "invalidate"
          /\ UNCHANGED <<alloc, state, pages, ref_count, tables, tlb, op, target, size,
                         va, reason, lost>>
     \/ /\ \A p \in Procs : state[p] # "READY"
        /\ Panic("no_runnable")

\* TLBIASID.  No user page is mapped non-global (bit 11), so architecturally
\* this drops none of them; the emulator drops everything.
Invalidate ==
  /\ pc = "invalidate" /\ pc' = "user"
  /\ tlb' = IF FlushAll THEN NULL ELSE tlb
  /\ UNCHANGED <<alloc, state, pages, ref_count, tables, cpu, op, target, size, va,
                 reason, lost>>

\* The table walker finds the translation of a user page.  (The entries of the
\* TLB are independent of each other: following any one of them is enough.)
Walk ==
  /\ pc # "panic" /\ loaded # NULL /\ tlb = NULL
  /\ \E v \in VAs : mapping[loaded][v] # NULL /\ tlb' = <<v, mapping[loaded][v]>>
  /\ UNCHANGED <<alloc, state, pages, ref_count, tables, cpu, pc, op, target, size, va,
                 reason, lost>>

Next ==
  \/ Spawn \/ Fork \/ Exec \/ Exit \/ Reschedule \/ Undefined
  \/ FreePages \/ FreePagesDone \/ Drop
  \/ InitializeMemory \/ LoadPage \/ ClonePages \/ HeapPage \/ StackPage
  \/ MapPage \/ Finish
  \/ Switch \/ Invalidate \/ Walk

Spec == Init /\ [][Next]_vars

-------------------------------------------------------------------------------
\* The types of the state; a frame on a page list is a page of the allocator.
TypeOK ==
  /\ free \subseteq Frames /\ lost \subseteq Frames
  /\ held \subseteq Frames \X {1, BlockPages}
  /\ state \in [Procs -> {"NONE", "READY", "KILLED"}]
  /\ pages \in [Procs -> [VAs -> Frames \cup {NULL}]]
  /\ ref_count \in [Frames -> Nat]
  /\ ttbr0 \in [Procs -> Frames \cup {NULL}]
  /\ level2 \in [Frames -> [Sections -> Frames \cup {NULL}]]
  /\ mapping \in [Frames -> [VAs -> Frames \cup {NULL}]]
  /\ asid_bitmap \subseteq 1 .. MaxAsid
  /\ current \in Procs \cup {NULL} /\ loaded \in Frames \cup {NULL}
  /\ tlb \in (VAs \X Frames) \cup {NULL}
  /\ pc \in PCs /\ op \in Ops /\ reason \in Reasons
  /\ target \in Procs /\ size \in 1 .. MaxCode /\ va \in 1 .. (Stack + 1)

UserFrames  == UNION {FramesOf(p) : p \in Procs}
TableFrames == UNION {TableOf(p) : p \in Procs}
Level2Frames == UNION {Level2Of(p) : p \in Procs}

\* A code page shared by fork counts at least as many references as there are
\* processes that list it (a failed fork leaves it counted too often), so
\* free_process_memory never frees a page another process still runs on.
RefCountCovers ==
  \A f \in UserFrames : Cardinality(Holders(f)) <= ref_count[f]

\* Every frame has one owner: it is free, or forgotten, or a user page, or part
\* of one process's page tables; only code pages are shared, between processes
\* that have them at the same address.
OneOwner ==
  /\ free \cap (lost \cup UserFrames \cup TableFrames \cup Level2Frames) = {}
  /\ lost \cap (UserFrames \cup TableFrames \cup Level2Frames) = {}
  /\ UserFrames \cap (TableFrames \cup Level2Frames) = {}
  /\ TableFrames \cap Level2Frames = {}
  /\ \A p, q \in Procs : p # q =>
       /\ TableOf(p) \cap TableOf(q) = {}
       /\ Level2Of(p) \cap Level2Of(q) = {}
       /\ \A v, w \in VAs : pages[p][v] # NULL /\ pages[p][v] = pages[q][w]
                            => v = w /\ v <= MaxCode
  /\ \A p \in Procs, v, w \in VAs : pages[p][v] # NULL /\ pages[p][v] = pages[p][w]
                                    => v = w

\* The ways of losing memory are the listed ones (lost): level-2 pages at exit,
\* the old tables at exec, what a failed fork has got so far, a page whose
\* count a failed fork left too high, and everything of a process killed by an
\* undefined instruction.  Every other frame is free or can be reached.
Accounted ==
  Frames = free \cup lost \cup UserFrames \cup TableFrames \cup Level2Frames

\* In user mode TTBR0 holds the current process's own table, and it maps exactly
\* the pages on its list: nothing freed, nothing of another program.
UserSeesOwnPages ==
  pc = "user" => /\ current # NULL /\ loaded = ttbr0[current]
                 /\ mapping[loaded] = pages[current]

\* Whatever table TTBR0 holds, also a freed one after exit or a forgotten one
\* during exec, its memory has not been handed out again: the walker never
\* reads another owner's data, or another process's table, as descriptors.
LoadedTableIntact ==
  loaded # NULL =>
    Block(loaded) \cap (UserFrames \cup Level2Frames
      \cup UNION {TableOf(p) : p \in {q \in Procs : q # current \/ ttbr0[q] # loaded}}) = {}

\* "Add TLB invalidation for the new ASID" (scheduler): in user mode the TLB
\* holds no translation of another process or of a replaced program.
TranslationsCurrent ==
  pc = "user" /\ tlb # NULL => tlb[2] = pages[current][tlb[1]]

\* The checks of free_process_memory, copy_parent_stack_and_heap and map_page
\* never fail.
ImpossiblePanics == reason \notin {"ref_count", "parent_pages", "remapped"}

\* The process side only gives back what it holds, a whole block or page at a
\* time: it is a legal user of the page allocator, whichever calls fail.
Allocator == INSTANCE PageAlloc WITH Pages <- Frames
Implements == Allocator!Spec
===============================================================================

------------------------------- MODULE FileTable -------------------------------
(***************************************************************************)
(* Open files: the descriptor tables of processes and the file calls of    *)
(* kernel/src/syscall.c, over vfs.c and vfs_fat32.c, with what fork        *)
(* (sched.c) does to them.  exec and exit leave the table alone.  A system *)
(* call is one step: the kernel is not preempted, and the interrupt        *)
(* handlers use no descriptor.                                             *)
(*                                                                         *)
(* An open file is known by its address on the kernel heap.  The heap      *)
(* (heap.c) hands out ever higher addresses, and its kfree does nothing;   *)
(* it is taken to be large enough.                                         *)
(*                                                                         *)
(* A "file" is on the FAT32 volume.  A "device" is anything else: zero,    *)
(* one, the serial port, a directory.  Reads and writes of those change    *)
(* nothing here (what a read of the serial port returns: UartRing).        *)
(*                                                                         *)
(* A definition named Mut... is a faulty variant of the one after it; no   *)
(* action uses it.  It is there to see that the properties notice it.      *)
(***************************************************************************)
EXTENDS Integers, FiniteSets

CONSTANTS MaxProcesses,  \* MAX_PROCESSES
          MaxFds,        \* MAX_FDS
          StdFds,        \* descriptors create_process sets up: 3
          FileSize,      \* size of the files on the volume
          MaxFiles,      \* bound: files ever opened
          Half,          \* 2^31: an off_t is from -Half to Half - 1
          NULL           \* the null pointer

ASSUME FileTableAssumption ==
  /\ MaxProcesses \in Nat \ {0, 1}
  /\ StdFds \in Nat \ {0} /\ MaxFds \in Nat /\ MaxFds >= StdFds
  /\ FileSize \in Nat \ {0} /\ MaxFiles \in Nat
  /\ Half \in Nat /\ FileSize < Half
  /\ NULL \notin Int

VARIABLES
  state,       \* process_table[p].state: unused, able to run, or dead
  fd_table,    \* process_table[p].fd_table: addresses of open files, or NULL
  num_fds,     \* process_table[p].num_fds
  file,        \* the vfs_file_t at each address; "open" numbers the opens
               \* (history)
  brk,         \* the next address the heap hands out
  opens,       \* history: the number of opens
  freed,       \* history: the addresses that were given to kfree
  panicked     \* has the kernel stopped?

tables == <<state, fd_table, num_fds>>
heap   == <<file, brk, opens, freed>>
vars   == <<tables, heap, panicked>>

Procs  == 0 .. (MaxProcesses - 1)
Fds    == 0 .. (MaxFds - 1)
Files  == 1 .. MaxFiles
Offsets == (-Half) .. (Half - 1)
Kinds  == {"device", "file"}

Live(p) == state[p] = "READY"
OpenFds(p) == {fd \in Fds : fd_table[p][fd] # NULL}

NewFile(n, k) == [open |-> n, kind |-> k, offset |-> 0]

Init ==
  /\ state = [p \in Procs |-> "NONE"]
  /\ fd_table = [p \in Procs |-> [fd \in Fds |-> NULL]]
  /\ num_fds = [p \in Procs |-> 0]
  /\ file = [a \in Files |-> NewFile(0, "device")]
  /\ brk = 1 /\ opens = 0 /\ freed = {}
  /\ panicked = FALSE

Panic == panicked' = TRUE /\ UNCHANGED <<tables, heap>>

-------------------------------------------------------------------------------
(* New processes.                                                          *)

\* get_available_process.
AvailableProcess(c) == state[c] = "NONE" /\ \A q \in Procs : q < c => state[q] # "NONE"

MutSetUpFds(c, t) ==
  /\ fd_table' = [fd_table EXCEPT ![c] =
       [fd \in Fds |-> IF fd < StdFds /\ t[fd] = NULL THEN brk + fd ELSE t[fd]]]
  /\ file' = [a \in Files |-> IF a \in brk .. (brk + StdFds - 1)
                              THEN NewFile(opens + 1 + a - brk, "device")
                              ELSE file[a]]
  /\ brk' = brk + StdFds /\ opens' = opens + StdFds
  /\ num_fds' = [num_fds EXCEPT ![c] = StdFds]
  /\ state' = [state EXCEPT ![c] = "READY"]
\* The end of create_process: the console on the first descriptors.
SetUpFds(c, t) ==
  /\ fd_table' = [fd_table EXCEPT ![c] =
       [fd \in Fds |-> IF fd < StdFds THEN brk + fd ELSE t[fd]]]
  /\ file' = [a \in Files |-> IF a \in brk .. (brk + StdFds - 1)
                              THEN NewFile(opens + 1 + a - brk, "device")
                              ELSE file[a]]
  /\ brk' = brk + StdFds /\ opens' = opens + StdFds
  /\ num_fds' = [num_fds EXCEPT ![c] = StdFds]
  /\ state' = [state EXCEPT ![c] = "READY"]

\* clone_parent_fds copies what the parent has and clears nothing.
ClonedFds(p, c) == [fd \in Fds |-> IF fd_table[p][fd] # NULL THEN fd_table[p][fd]
                                   ELSE fd_table[c][fd]]

\* scheduler_init: the null process, then init.
Spawn ==
  /\ \E c \in {0, 1} :
       /\ AvailableProcess(c) /\ brk + StdFds - 1 <= MaxFiles
       /\ SetUpFds(c, fd_table[c])
  /\ UNCHANGED <<freed, panicked>>

\* The null process makes no calls.
Caller(p) == p > 0 /\ Live(p) /\ ~panicked

Fork ==
  /\ \E p, c \in Procs :
       /\ Caller(p) /\ AvailableProcess(c) /\ brk + StdFds - 1 <= MaxFiles
       /\ SetUpFds(c, ClonedFds(p, c))
  /\ UNCHANGED <<freed, panicked>>

\* No memory for the heap or stack page: the slot stays unused, with the
\* descriptors in it.  (A fork that fails earlier changes nothing here.)
ForkFails ==
  /\ \E p, c \in Procs :
       /\ Caller(p) /\ AvailableProcess(c)
       /\ fd_table' = [fd_table EXCEPT ![c] = ClonedFds(p, c)]
       /\ num_fds' = [num_fds EXCEPT ![c] = num_fds[p]]
  /\ UNCHANGED <<state, heap, panicked>>

\* sys_exit: the table stays as it is, and files stay open.
Exit ==
  /\ \E p \in Procs : Caller(p) /\ state' = [state EXCEPT ![p] = "KILLED"]
  /\ UNCHANGED <<fd_table, num_fds, heap, panicked>>

-------------------------------------------------------------------------------
(* open and close.                                                         *)

\* kmalloc: an address nobody has, as kfree gives none back.
MutAddress(a) == IF freed # {} THEN a \in freed ELSE a = brk
Address(a) == a = brk

\* sys_open looks for the first null entry; no entry, and the file is lost.
FirstFree(p, fd) == fd_table[p][fd] = NULL /\ \A g \in Fds : g < fd => fd_table[p][g] # NULL

MutStore(p, a) ==
  /\ num_fds' = [num_fds EXCEPT ![p] = @ + 1]
  /\ IF OpenFds(p) = Fds
     THEN UNCHANGED fd_table
     ELSE \E fd \in Fds :
            /\ FirstFree(p, fd)
            /\ fd_table' = [fd_table EXCEPT ![p][fd] = a]
Store(p, a) ==
  IF OpenFds(p) = Fds
  THEN UNCHANGED <<fd_table, num_fds>>
  ELSE /\ \E fd \in Fds :
            /\ FirstFree(p, fd)
            /\ fd_table' = [fd_table EXCEPT ![p][fd] = a]
       /\ num_fds' = [num_fds EXCEPT ![p] = @ + 1]

Open ==
  /\ brk <= MaxFiles
  /\ \E p \in Procs, k \in Kinds, a \in Files :
       /\ Caller(p) /\ Address(a)
       /\ file' = [file EXCEPT ![a] = NewFile(opens + 1, k)]
       /\ Store(p, a)
  /\ brk' = brk + 1 /\ opens' = opens + 1
  /\ UNCHANGED <<state, freed, panicked>>

\* A path that lookup does not find, or cannot read: the null dentry is followed.
OpenMissing == (\E p \in Procs : Caller(p)) /\ Panic

\* vfs_default_close; any descriptor below num_fds, open or not.
InRange(p, fd) == fd < num_fds[p]
Close ==
  /\ \E p \in Procs, fd \in Fds :
       /\ Caller(p) /\ InRange(p, fd)
       /\ freed' = freed \cup ({fd_table[p][fd]} \ {NULL})
       /\ fd_table' = [fd_table EXCEPT ![p][fd] = NULL]
       /\ num_fds' = [num_fds EXCEPT ![p] = @ - 1]
  /\ UNCHANGED <<state, file, brk, opens, panicked>>

-------------------------------------------------------------------------------
(* read, write and lseek.                                                  *)

\* The three reject a descriptor below 0 only.  With one of MAX_FDS or more,
\* fd_table[fd] may be an entry of any process's table, unused slots included.
Entries == {fd_table[q][fd] : q \in Procs, fd \in Fds} \ {NULL}
MayUse(a) == file[a].kind = "file" /\ \E p \in Procs : Caller(p)

\* Or it is something else: 0 is no file, and what is no pointer to a file is
\* followed all the same.
WildDescriptor == (\E p \in Procs : Caller(p)) /\ Panic

\* fat32_vfs_read: -1, or the count, read in full.  It compares as ints: a count
\* of Half or more is negative, and returned whatever fat32_read could read.  Any
\* read may fail (fat32_read: see Fat32).
ReadResults(o) == (-Half) .. (-1) \cup {n \in 1 .. FileSize : 0 <= o /\ o + n <= FileSize}

\* sys_read adds the result to the offset.
Wrap(o) == IF o < -Half THEN o + 2 * Half ELSE o
ReadFile ==
  /\ \E a \in Entries :
       /\ MayUse(a)
       /\ \E n \in ReadResults(file[a].offset) :
            file' = [file EXCEPT ![a].offset = Wrap(@ + n)]
  /\ UNCHANGED <<tables, brk, opens, freed, panicked>>

\* fat32_vfs_write panics after a write that succeeded, or whose count is negative.
WriteFile == (\E a \in Entries : MayUse(a)) /\ Panic

\* sys_lseek, to any place the three origins can reach.
SeekTo == 0 .. FileSize
Lseek ==
  /\ \E a \in Entries, o \in SeekTo :
       MayUse(a) /\ file' = [file EXCEPT ![a].offset = o]
  /\ UNCHANGED <<tables, brk, opens, freed, panicked>>

Next ==
  \/ Spawn \/ Fork \/ ForkFails \/ Exit
  \/ Open \/ OpenMissing \/ Close
  \/ ReadFile \/ WriteFile \/ Lseek \/ WildDescriptor

Spec == Init /\ [][Next]_vars

-------------------------------------------------------------------------------
\* The types of the state.  An offset may be any int: reads move it below 0, and
\* round to beyond the end of the file.
TypeOK ==
  /\ state \in [Procs -> {"NONE", "READY", "KILLED"}]
  /\ fd_table \in [Procs -> [Fds -> Files \cup {NULL}]]
  /\ num_fds \in [Procs -> 0 .. MaxFds]
  /\ file \in [Files -> [open : 0 .. MaxFiles, kind : Kinds, offset : Offsets]]
  /\ brk \in 1 .. (MaxFiles + 1) /\ opens \in 0 .. MaxFiles
  /\ freed \subseteq Files /\ panicked \in BOOLEAN

\* num_fds, which close takes for the bound of valid descriptors, never counts
\* a descriptor that is not open: repeated closes cannot take it below 0, nor
\* opens beyond the table, in whatever order descriptors are used.
CountCovers == \A p \in Procs : num_fds[p] <= Cardinality(OpenFds(p))

\* Processes share an open file, and its offset, only through fork (as far as they
\* keep to descriptors of the table): under the same descriptor, never one of the
\* console, also after forks that failed and closes in any order.
SharedByFork ==
  \A p, q \in Procs : p # q /\ state[p] # "NONE" /\ state[q] # "NONE" =>
    \A fd \in OpenFds(p), g \in OpenFds(q) :
      fd_table[p][fd] = fd_table[q][g] => fd = g /\ fd >= StdFds

\* A descriptor names the same open file until its process closes it, although
\* close frees files that others have open (Descriptors).
OpenedBy(a) == IF a = NULL THEN NULL ELSE file[a].open
Opened == [p \in Procs |-> [fd \in Fds |-> OpenedBy(fd_table[p][fd])]]
Born == {p \in Procs : state[p] # "NONE"}
Promise == INSTANCE Descriptors WITH table <- Opened, born <- Born
Implements == Promise!Spec
===============================================================================

---------------------------- MODULE FileTableProofs ----------------------------
(***************************************************************************)
(* The safety of FileTable for every number of processes, descriptors,     *)
(* console descriptors and files, and that it implements Descriptors.      *)
(*                                                                         *)
(* Addresses go up with the opens, so an address on the heap is the number *)
(* of the open that it is from (Numbered); freed files keep theirs.  An    *)
(* open file stays under the descriptor it was first stored at, also in    *)
(* the table of a slot that a failed fork has left in disorder (SameFd):   *)
(* without that, SharedByFork would not survive the next fork into it.     *)
(***************************************************************************)
EXTENDS FileTable, FiniteSetTheorems, TLAPS

\* Addresses are numbered by the opens, and tables hold only used ones.
Numbered ==
  /\ opens = brk - 1
  /\ \A a \in Files : a < brk => file[a].open = a
  /\ \A p \in Procs, fd \in Fds : fd_table[p][fd] # NULL => fd_table[p][fd] < brk

\* An open file is under the same descriptor in every table, unused slots included.
SameFd ==
  \A p, q \in Procs : \A fd, g \in Fds :
    fd_table[p][fd] # NULL /\ fd_table[p][fd] = fd_table[q][g] => fd = g

\* The inductive invariant.
IInv == TypeOK /\ CountCovers /\ SharedByFork /\ Numbered /\ SameFd

-------------------------------------------------------------------------------
(* Counting descriptors.                                                   *)

\* The constants as numbers.
LEMMA Numbers ==
  /\ MaxProcesses \in Nat /\ MaxProcesses >= 2
  /\ StdFds \in Nat /\ StdFds >= 1 /\ MaxFds \in Nat /\ MaxFds >= StdFds
  /\ FileSize \in Nat /\ FileSize >= 1 /\ MaxFiles \in Nat
  /\ Half \in Nat /\ FileSize < Half /\ 0 \in Offsets
  /\ NULL \notin Int
  /\ 0 \in Procs /\ 1 \in Procs
BY FileTableAssumption DEF Procs, Offsets

\* A set of descriptors is finite, and no larger than the table.
LEMMA FdsFinite ==
  ASSUME NEW S \in SUBSET Fds
  PROVE  IsFiniteSet(S) /\ Cardinality(S) \in Nat /\ Cardinality(S) <= MaxFds
<1>1. IsFiniteSet(Fds) /\ Cardinality(Fds) = MaxFds
  <2>1. IsFiniteSet(0 .. (MaxFds - 1))
        /\ Cardinality(0 .. (MaxFds - 1)) = IF 0 > MaxFds - 1 THEN 0 ELSE MaxFds - 1 - 0 + 1
    <3>1. MaxFds - 1 \in Int
      BY Numbers
    <3> QED BY <3>1, FS_Interval
  <2> QED BY <2>1, Numbers DEF Fds
<1>2. IsFiniteSet(S) /\ Cardinality(S) <= Cardinality(Fds)
  BY <1>1, FS_Subset
<1> QED BY <1>1, <1>2, FS_CardinalityType

\* More descriptors count more.
LEMMA FdsMonotone ==
  ASSUME NEW S \in SUBSET Fds, NEW T \in SUBSET S
  PROVE  Cardinality(T) <= Cardinality(S)
BY FdsFinite, FS_Subset

\* The descriptors of the console count StdFds.
LEMMA StdCount == 0 .. (StdFds - 1) \in SUBSET Fds /\ Cardinality(0 .. (StdFds - 1)) = StdFds
<1>1. StdFds - 1 \in Int
  BY Numbers
<1>2. Cardinality(0 .. (StdFds - 1)) = IF 0 > StdFds - 1 THEN 0 ELSE StdFds - 1 - 0 + 1
  BY <1>1, FS_Interval
<1> QED BY <1>2, Numbers DEF Fds

-------------------------------------------------------------------------------
(* Steps that write the table of one process.                              *)

\* An entry written to c's table is a new file, under one descriptor, or a file
\* some process has under the same descriptor; a console descriptor is passed
\* on only to a slot that stays unused.
NewEntry(row, fd) ==
  /\ row[fd] >= brk /\ row[fd] < brk'
  /\ \A g \in Fds : row[g] = row[fd] => g = fd
OldEntry(c, row, fd) ==
  \E q \in Procs : /\ row[fd] = fd_table[q][fd]
                   /\ \/ q = c /\ state[c] # "NONE"
                      \/ fd >= StdFds
                      \/ state'[c] = "NONE"

RowStep(c, row) ==
  /\ fd_table' = [fd_table EXCEPT ![c] = row]
  /\ \A fd \in Fds : row[fd] # NULL => NewEntry(row, fd) \/ OldEntry(c, row, fd)
  /\ \A q \in Procs : q # c => (state'[q] = "NONE" <=> state[q] = "NONE")
  /\ brk' \in Int /\ brk <= brk'

LEMMA RowKeeps ==
  ASSUME IInv, NEW c \in Procs, NEW row \in [Fds -> Files \cup {NULL}], RowStep(c, row)
  PROVE  /\ fd_table' \in [Procs -> [Fds -> Files \cup {NULL}]]
         /\ \A p \in Procs, fd \in Fds : fd_table'[p][fd] # NULL => fd_table'[p][fd] < brk'
         /\ SameFd' /\ SharedByFork'
<1>1. fd_table \in [Procs -> [Fds -> Files \cup {NULL}]] /\ brk \in Int /\ brk' \in Int
      /\ brk <= brk' /\ Files \subseteq Int /\ NULL \notin Int
  BY Numbers DEF IInv, TypeOK, RowStep, Files
<1>2. /\ fd_table'[c] = row
      /\ \A q \in Procs \ {c} : fd_table'[q] = fd_table[q]
      /\ fd_table' \in [Procs -> [Fds -> Files \cup {NULL}]]
  BY <1>1 DEF RowStep
<1>3. \A q \in Procs, fd \in Fds : fd_table[q][fd] # NULL =>
        fd_table[q][fd] \in Int /\ fd_table[q][fd] < brk
  <2> SUFFICES ASSUME NEW q \in Procs, NEW fd \in Fds, fd_table[q][fd] # NULL
               PROVE  fd_table[q][fd] \in Int /\ fd_table[q][fd] < brk
    OBVIOUS
  <2>1. fd_table[q][fd] \in Files \cup {NULL}
    BY <1>1
  <2> QED BY <2>1, <1>1 DEF IInv, Numbered
<1>4. \A fd \in Fds : row[fd] # NULL => row[fd] \in Int
  BY <1>1
<1>5. \A p \in Procs, fd \in Fds : fd_table'[p][fd] # NULL => fd_table'[p][fd] < brk'
  <2> SUFFICES ASSUME NEW p \in Procs, NEW fd \in Fds, fd_table'[p][fd] # NULL
               PROVE  fd_table'[p][fd] < brk'
    OBVIOUS
  <2>1. CASE p # c
    BY <2>1, <1>1, <1>2, <1>3
  <2>2. CASE p = c /\ NewEntry(row, fd)
    BY <2>2, <1>2 DEF NewEntry
  <2>3. CASE p = c /\ OldEntry(c, row, fd)
    BY <2>3, <1>1, <1>2, <1>3 DEF OldEntry
  <2> QED BY <2>1, <2>2, <2>3, <1>2 DEF RowStep
<1>6. ASSUME NEW fd \in Fds, NEW g \in Fds, NEW q \in Procs \ {c},
             row[fd] # NULL, row[fd] = fd_table[q][g]
      PROVE  fd = g /\ OldEntry(c, row, fd)
  <2>1. ~NewEntry(row, fd)
    BY <1>6, <1>1, <1>3 DEF NewEntry
  <2>2. OldEntry(c, row, fd)
    BY <2>1, <1>6 DEF RowStep
  <2>3. PICK r \in Procs : row[fd] = fd_table[r][fd]
    BY <2>2 DEF OldEntry
  <2>4. fd = g
    <3>1. fd_table[r][fd] # NULL /\ fd_table[r][fd] = fd_table[q][g]
      BY <2>3, <1>6
    <3> QED BY <3>1 DEF IInv, SameFd
  <2> QED BY <2>2, <2>4
<1>7. ASSUME NEW fd \in Fds, NEW g \in Fds, row[fd] # NULL, row[fd] = row[g]
      PROVE  fd = g
  <2>1. CASE NewEntry(row, fd) \/ NewEntry(row, g)
    BY <2>1, <1>7 DEF NewEntry
  <2>2. CASE OldEntry(c, row, fd) /\ OldEntry(c, row, g)
    <3>1. PICK q \in Procs : row[fd] = fd_table[q][fd]
      BY <2>2 DEF OldEntry
    <3>2. PICK r \in Procs : row[g] = fd_table[r][g]
      BY <2>2 DEF OldEntry
    <3>3. fd_table[q][fd] # NULL /\ fd_table[q][fd] = fd_table[r][g]
      BY <3>1, <3>2, <1>7
    <3> QED BY <3>3 DEF IInv, SameFd
  <2> QED BY <2>1, <2>2, <1>7 DEF RowStep
<1>8. SameFd'
  <2> SUFFICES ASSUME NEW p \in Procs, NEW q \in Procs, NEW fd \in Fds, NEW g \in Fds,
                      fd_table'[p][fd] # NULL, fd_table'[p][fd] = fd_table'[q][g]
               PROVE  fd = g
    BY DEF SameFd
  <2>1. CASE p = c /\ q = c
    BY <2>1, <1>2, <1>7
  <2>2. CASE p = c /\ q # c
    BY <2>2, <1>2, <1>6
  <2>3. CASE p # c /\ q = c
    BY <2>3, <1>2, <1>6
  <2>4. CASE p # c /\ q # c
    BY <2>4, <1>2 DEF IInv, SameFd
  <2> QED BY <2>1, <2>2, <2>3, <2>4
<1>9. SharedByFork'
  <2> SUFFICES ASSUME NEW p \in Procs, NEW q \in Procs, p # q,
                      state'[p] # "NONE", state'[q] # "NONE",
                      NEW fd \in Fds, NEW g \in Fds,
                      fd_table'[p][fd] # NULL, fd_table'[p][fd] = fd_table'[q][g]
               PROVE  fd = g /\ fd >= StdFds
    BY DEF SharedByFork, OpenFds
  <2>1. fd = g
    BY <1>8 DEF SameFd
  <2>2. ASSUME NEW r \in Procs \ {c}, row[fd] # NULL, row[fd] = fd_table[r][fd],
               state'[c] # "NONE", state'[r] # "NONE"
        PROVE  fd >= StdFds
    <3>1. PICK s \in Procs : /\ row[fd] = fd_table[s][fd]
                             /\ \/ s = c /\ state[c] # "NONE"
                                \/ fd >= StdFds
                                \/ state'[c] = "NONE"
      BY <2>2, <1>6 DEF OldEntry
    <3>2. CASE state[c] # "NONE" /\ row[fd] = fd_table[c][fd]
      <4>1. state[r] # "NONE"
        BY <2>2 DEF RowStep
      <4>2. fd \in OpenFds(c) /\ fd \in OpenFds(r) /\ fd_table[c][fd] = fd_table[r][fd]
        BY <3>2, <2>2 DEF OpenFds
      <4> QED BY <4>1, <4>2, <3>2 DEF IInv, SharedByFork
    <3>3. CASE s = c /\ state[c] # "NONE"
      BY <3>1, <3>2, <3>3
    <3> QED BY <3>1, <3>3, <2>2
  <2>3. CASE p = c
    BY <2>3, <2>1, <2>2, <1>2
  <2>4. CASE q = c
    BY <2>4, <2>1, <2>2, <1>2
  <2>5. CASE p # c /\ q # c
    <3>1. state[p] # "NONE" /\ state[q] # "NONE"
      BY <2>5 DEF RowStep
    <3>2. fd_table'[p] = fd_table[p] /\ fd_table'[q] = fd_table[q]
      BY <2>5, <1>2
    <3> QED BY <3>1, <3>2 DEF IInv, SharedByFork, OpenFds
  <2> QED BY <2>3, <2>4, <2>5
<1> QED BY <1>2, <1>5, <1>8, <1>9

\* The number of descriptors of the other processes stays.
LEMMA CountKeeps ==
  ASSUME IInv, NEW c \in Procs, NEW row \in [Fds -> Files \cup {NULL}], NEW n,
         fd_table' = [fd_table EXCEPT ![c] = row],
         num_fds' = [num_fds EXCEPT ![c] = n],
         n \in Nat, n <= Cardinality({fd \in Fds : row[fd] # NULL})
  PROVE  num_fds' \in [Procs -> 0 .. MaxFds] /\ CountCovers'
<1>1. Cardinality({fd \in Fds : row[fd] # NULL}) \in Nat
      /\ Cardinality({fd \in Fds : row[fd] # NULL}) <= MaxFds
  BY FdsFinite
<1>2. n \in 0 .. MaxFds
  BY <1>1, Numbers
<1>3. num_fds' \in [Procs -> 0 .. MaxFds]
  BY <1>2 DEF IInv, TypeOK
<1>4. ASSUME NEW p \in Procs PROVE num_fds'[p] <= Cardinality(OpenFds(p)')
  <2>1. CASE p = c
    <3>1. OpenFds(p)' = {fd \in Fds : row[fd] # NULL} /\ num_fds'[p] = n
      BY <2>1 DEF OpenFds, IInv, TypeOK
    <3> QED BY <3>1
  <2>2. CASE p # c
    <3>1. OpenFds(p)' = OpenFds(p) /\ num_fds'[p] = num_fds[p]
      BY <2>2 DEF OpenFds, IInv, TypeOK
    <3> QED BY <3>1 DEF IInv, CountCovers
  <2> QED BY <2>1, <2>2
<1> QED BY <1>3, <1>4 DEF CountCovers

-------------------------------------------------------------------------------
(* The actions.                                                            *)

\* create_process gives c's table the console and keeps the rest of t.
LEMMA SetUpKeeps ==
  ASSUME IInv, NEW c \in Procs, NEW t \in [Fds -> Files \cup {NULL}],
         state[c] = "NONE", brk + StdFds - 1 <= MaxFiles, SetUpFds(c, t),
         UNCHANGED <<freed, panicked>>,
         \A fd \in Fds : fd >= StdFds =>
           \E q \in Procs : t[fd] = fd_table[q][fd]
  PROVE  IInv'
<1> DEFINE row == [fd \in Fds |-> IF fd < StdFds THEN brk + fd ELSE t[fd]]
           New == brk .. (brk + StdFds - 1)
<1>1. /\ brk \in 1 .. (MaxFiles + 1) /\ opens = brk - 1
      /\ brk' = brk + StdFds /\ opens' = opens + StdFds
      /\ brk' \in 1 .. (MaxFiles + 1) /\ opens' \in 0 .. MaxFiles
  BY Numbers DEF IInv, TypeOK, Numbered, SetUpFds
<1>2. row \in [Fds -> Files \cup {NULL}]
  BY <1>1, Numbers DEF Fds, Files
<1>3. fd_table' = [fd_table EXCEPT ![c] = row]
  BY DEF SetUpFds
<1>4. \A q \in Procs : q # c => (state'[q] = "NONE" <=> state[q] = "NONE")
  BY DEF SetUpFds, IInv, TypeOK
<1>5. ASSUME NEW fd \in Fds, row[fd] # NULL
      PROVE  NewEntry(row, fd) \/ OldEntry(c, row, fd)
  <2>1. CASE fd < StdFds
    <3>1. row[fd] = brk + fd
      BY <2>1
    <3>2. ASSUME NEW g \in Fds, row[g] = brk + fd PROVE g = fd
      <4>1. CASE g < StdFds
        BY <4>1, <3>2, <1>1 DEF Fds
      <4>2. CASE g >= StdFds
        <5>1. row[g] = t[g]
          BY <4>2, Numbers DEF Fds
        <5>2. PICK q \in Procs : t[g] = fd_table[q][g]
          BY <4>2
        <5>3. fd_table[q][g] = brk + fd
          BY <5>1, <5>2, <3>2
        <5>4. brk + fd # NULL
          BY <1>1, Numbers DEF Fds
        <5>5. brk + fd < brk
          BY <5>3, <5>4 DEF IInv, Numbered
        <5> QED BY <5>5, <1>1 DEF Fds
      <4> QED BY <4>1, <4>2, Numbers DEF Fds
    <3>3. row[fd] >= brk /\ row[fd] < brk'
      BY <3>1, <1>1, <2>1, Numbers DEF Fds
    <3> QED BY <3>1, <3>2, <3>3 DEF NewEntry
  <2>2. CASE fd >= StdFds
    <3>1. row[fd] = t[fd]
      BY <2>2, Numbers DEF Fds
    <3> QED BY <3>1, <2>2 DEF OldEntry
  <2>3. fd < StdFds \/ fd >= StdFds
    BY Numbers DEF Fds
  <2> QED BY <2>1, <2>2, <2>3
<1>6. RowStep(c, row)
  BY <1>1, <1>3, <1>4, <1>5, Numbers DEF RowStep
<1>7. CountCovers' /\ num_fds' \in [Procs -> 0 .. MaxFds]
  <2>1. 0 .. (StdFds - 1) \in SUBSET {fd \in Fds : row[fd] # NULL}
    BY <1>1, StdCount, Numbers DEF Fds
  <2>2. {fd \in Fds : row[fd] # NULL} \in SUBSET Fds
    OBVIOUS
  <2>3. StdFds <= Cardinality({fd \in Fds : row[fd] # NULL})
    BY <2>1, <2>2, StdCount, FdsMonotone
  <2>4. num_fds' = [num_fds EXCEPT ![c] = StdFds]
    BY DEF SetUpFds
  <2> HIDE DEF row
  <2> QED BY <2>3, <2>4, <1>2, <1>3, CountKeeps, Numbers
<1>8. file' \in [Files -> [open : 0 .. MaxFiles, kind : Kinds, offset : Offsets]]
      /\ \A a \in Files : a < brk' => file'[a].open = a
  <2>1. file' = [a \in Files |-> IF a \in New THEN NewFile(opens + 1 + a - brk, "device")
                                 ELSE file[a]]
    BY DEF SetUpFds
  <2>2. ASSUME NEW a \in Files
        PROVE  /\ file'[a] \in [open : 0 .. MaxFiles, kind : Kinds, offset : Offsets]
               /\ a < brk' => file'[a].open = a
    <3>1. CASE a \in New
      <4>1. file'[a] = [open |-> a, kind |-> "device", offset |-> 0]
        BY <2>1, <3>1, <1>1, Numbers DEF NewFile, Files
      <4> QED BY <4>1, Numbers DEF Kinds, Files
    <3>2. CASE a \notin New
      <4>1. file'[a] = file[a]
        BY <2>1, <3>2
      <4>2. a < brk' => a < brk
        BY <3>2, <1>1, Numbers DEF Files
      <4> QED BY <4>1, <4>2 DEF IInv, TypeOK, Numbered
    <3> QED BY <3>1, <3>2
  <2> QED BY <2>1, <2>2
<1> HIDE DEF row
<1>9. TypeOK'
  BY <1>1, <1>2, <1>6, <1>7, <1>8, RowKeeps DEF IInv, TypeOK, SetUpFds
<1>10. Numbered'
  BY <1>1, <1>2, <1>6, <1>8, RowKeeps, Numbers DEF Numbered
<1> QED BY <1>2, <1>6, <1>7, <1>9, <1>10, RowKeeps DEF IInv

LEMMA SpawnKeeps == IInv /\ Spawn => IInv'
<1> SUFFICES ASSUME IInv, Spawn PROVE IInv'
  OBVIOUS
<1>1. PICK c \in {0, 1} : /\ AvailableProcess(c) /\ brk + StdFds - 1 <= MaxFiles
                          /\ SetUpFds(c, fd_table[c])
  BY DEF Spawn
<1>2. c \in Procs /\ state[c] = "NONE" /\ fd_table[c] \in [Fds -> Files \cup {NULL}]
  BY <1>1, Numbers DEF AvailableProcess, IInv, TypeOK
<1> QED BY <1>1, <1>2, SetUpKeeps DEF Spawn

\* What a fork clones is what a process has under the same descriptor.
LEMMA Cloned ==
  ASSUME IInv, NEW p \in Procs, NEW c \in Procs
  PROVE  /\ ClonedFds(p, c) \in [Fds -> Files \cup {NULL}]
         /\ \A fd \in Fds : \/ ClonedFds(p, c)[fd] = fd_table[p][fd]
                            \/ ClonedFds(p, c)[fd] = fd_table[c][fd]
         /\ \A fd \in Fds : fd_table[p][fd] # NULL => ClonedFds(p, c)[fd] # NULL
<1>1. \A q \in Procs : fd_table[q] \in [Fds -> Files \cup {NULL}]
  BY DEF IInv, TypeOK
<1> QED BY <1>1 DEF ClonedFds

LEMMA ForkKeeps == IInv /\ Fork => IInv'
<1> SUFFICES ASSUME IInv, Fork PROVE IInv'
  OBVIOUS
<1>1. PICK p \in Procs, c \in Procs :
        /\ AvailableProcess(c) /\ brk + StdFds - 1 <= MaxFiles
        /\ SetUpFds(c, ClonedFds(p, c))
  BY DEF Fork
<1>2. state[c] = "NONE"
  BY <1>1 DEF AvailableProcess
<1>3. \A fd \in Fds : fd >= StdFds => \E q \in Procs : ClonedFds(p, c)[fd] = fd_table[q][fd]
  BY Cloned
<1> QED BY <1>1, <1>2, <1>3, Cloned, SetUpKeeps DEF Fork

LEMMA ForkFailsKeeps == IInv /\ ForkFails => IInv'
<1> SUFFICES ASSUME IInv, ForkFails PROVE IInv'
  OBVIOUS
<1>1. PICK p \in Procs, c \in Procs :
        /\ AvailableProcess(c)
        /\ fd_table' = [fd_table EXCEPT ![c] = ClonedFds(p, c)]
        /\ num_fds' = [num_fds EXCEPT ![c] = num_fds[p]]
  BY DEF ForkFails
<1> DEFINE row == ClonedFds(p, c)
<1>2. row \in [Fds -> Files \cup {NULL}]
  BY Cloned
<1>3. state' = state /\ state'[c] = "NONE" /\ brk' = brk /\ brk \in Int
  BY <1>1 DEF ForkFails, AvailableProcess, heap, IInv, TypeOK
<1>4. \A fd \in Fds : OldEntry(c, row, fd)
  BY <1>3, Cloned DEF OldEntry
<1> HIDE DEF row
<1>5. RowStep(c, row)
  BY <1>1, <1>3, <1>4 DEF RowStep, row
<1>6. CountCovers' /\ num_fds' \in [Procs -> 0 .. MaxFds]
  <2>1. OpenFds(p) \in SUBSET {fd \in Fds : row[fd] # NULL}
    BY Cloned DEF OpenFds, row
  <2>2. {fd \in Fds : row[fd] # NULL} \in SUBSET Fds
    OBVIOUS
  <2>3. Cardinality(OpenFds(p)) <= Cardinality({fd \in Fds : row[fd] # NULL})
    BY <2>1, <2>2, FdsMonotone
  <2>4. num_fds[p] \in Nat /\ num_fds[p] <= Cardinality(OpenFds(p))
    BY Numbers DEF IInv, TypeOK, CountCovers
  <2>5. /\ Cardinality(OpenFds(p)) \in Nat
        /\ Cardinality({fd \in Fds : row[fd] # NULL}) \in Nat
    <3>1. OpenFds(p) \in SUBSET Fds
      BY DEF OpenFds
    <3> QED BY <3>1, <2>2, FdsFinite
  <2>6. num_fds[p] <= Cardinality({fd \in Fds : row[fd] # NULL})
    BY <2>3, <2>4, <2>5
  <2>7. fd_table' = [fd_table EXCEPT ![c] = row]
    BY <1>1 DEF row
  <2> QED BY <1>1, <1>2, <2>4, <2>6, <2>7, CountKeeps
<1>7. TypeOK'
  BY <1>2, <1>5, <1>6, RowKeeps DEF ForkFails, heap, IInv, TypeOK
<1>8. Numbered'
  BY <1>2, <1>5, RowKeeps DEF ForkFails, heap, IInv, Numbered
<1> QED BY <1>2, <1>5, <1>6, <1>7, <1>8, RowKeeps DEF IInv

\* exit makes no slot unused, and touches no table.
LEMMA ExitKeeps == IInv /\ Exit => IInv'
<1> SUFFICES ASSUME IInv, Exit PROVE IInv'
  OBVIOUS
<1>1. PICK p \in Procs : state[p] = "READY" /\ state' = [state EXCEPT ![p] = "KILLED"]
  BY DEF Exit, Caller, Live
<1>2. /\ state' \in [Procs -> {"NONE", "READY", "KILLED"}]
      /\ \A q \in Procs : state'[q] = "NONE" <=> state[q] = "NONE"
  BY <1>1 DEF IInv, TypeOK
<1>3. UNCHANGED <<fd_table, num_fds, file, brk, opens, freed, panicked>>
  BY DEF Exit, heap
<1>4. TypeOK' /\ Numbered' /\ SameFd' /\ CountCovers'
  BY <1>2, <1>3 DEF IInv, TypeOK, Numbered, SameFd, CountCovers, OpenFds
<1>5. SharedByFork'
  BY <1>2, <1>3 DEF IInv, SharedByFork, OpenFds
<1> QED BY <1>4, <1>5 DEF IInv

\* A step on one open file that keeps the number of its open.
LEMMA FileKeeps ==
  ASSUME IInv, NEW a \in Files, NEW f, file' = [file EXCEPT ![a] = f],
         f \in [open : 0 .. MaxFiles, kind : Kinds, offset : Offsets],
         f.open = file[a].open, UNCHANGED <<tables, brk, opens, freed, panicked>>
  PROVE  IInv'
<1>1. UNCHANGED <<state, fd_table, num_fds>>
  BY DEF tables
<1>2. TypeOK'
  BY <1>1 DEF IInv, TypeOK
<1>3. Numbered'
  BY <1>1 DEF IInv, TypeOK, Numbered
<1>4. SameFd' /\ SharedByFork' /\ CountCovers'
  BY <1>1 DEF IInv, SameFd, SharedByFork, CountCovers, OpenFds
<1> QED BY <1>2, <1>3, <1>4 DEF IInv

LEMMA ReadKeeps == IInv /\ ReadFile => IInv'
<1> SUFFICES ASSUME IInv, ReadFile PROVE IInv'
  OBVIOUS
<1>0. PICK a \in Entries : \E n \in ReadResults(file[a].offset) :
        file' = [file EXCEPT ![a].offset = Wrap(@ + n)]
  BY DEF ReadFile
<1>1. PICK n \in ReadResults(file[a].offset) :
        file' = [file EXCEPT ![a].offset = Wrap(@ + n)]
  BY <1>0
<1>2. a \in Files /\ file[a] \in [open : 0 .. MaxFiles, kind : Kinds, offset : Offsets]
  BY DEF Entries, IInv, TypeOK
<1>3. Wrap(file[a].offset + n) \in Offsets
  <2>1. file[a].offset \in (-Half) .. (Half - 1)
    BY <1>2 DEF Offsets
  <2>2. CASE n \in (-Half) .. (-1)
    BY <2>1, <2>2, Numbers DEF Wrap, Offsets
  <2>3. CASE n \in 1 .. FileSize /\ 0 <= file[a].offset /\ file[a].offset + n <= FileSize
    BY <2>1, <2>3, Numbers DEF Wrap, Offsets
  <2> QED BY <2>2, <2>3 DEF ReadResults
<1>4. file' = [file EXCEPT ![a] = [file[a] EXCEPT !.offset = Wrap(file[a].offset + n)]]
  BY <1>1, <1>2 DEF IInv, TypeOK
<1> QED BY <1>2, <1>3, <1>4, FileKeeps DEF ReadFile

LEMMA LseekKeeps == IInv /\ Lseek => IInv'
<1> SUFFICES ASSUME IInv, Lseek PROVE IInv'
  OBVIOUS
<1>1. PICK a \in Entries, o \in SeekTo : file' = [file EXCEPT ![a].offset = o]
  BY DEF Lseek
<1>2. a \in Files /\ file[a] \in [open : 0 .. MaxFiles, kind : Kinds, offset : Offsets]
  BY DEF Entries, IInv, TypeOK
<1>3. o \in Offsets
  BY Numbers DEF SeekTo, Offsets
<1>4. file' = [file EXCEPT ![a] = [file[a] EXCEPT !.offset = o]]
  BY <1>1, <1>2 DEF IInv, TypeOK
<1> QED BY <1>2, <1>3, <1>4, FileKeeps DEF Lseek

\* The kernel panics.
LEMMA PanicKeeps == IInv /\ Panic => IInv'
BY DEF IInv, Panic, tables, heap, TypeOK, Numbered, SameFd, SharedByFork, CountCovers,
       OpenFds

LEMMA OpenKeeps == IInv /\ Open => IInv'
<1> SUFFICES ASSUME IInv, Open PROVE IInv'
  OBVIOUS
<1>1. PICK p \in Procs, k \in Kinds :
        /\ state[p] = "READY"
        /\ file' = [file EXCEPT ![brk] = NewFile(opens + 1, k)]
        /\ Store(p, brk)
  BY DEF Open, Address, Caller, Live
<1>2. /\ brk \in 1 .. MaxFiles /\ opens = brk - 1
      /\ brk' = brk + 1 /\ opens' = opens + 1 /\ state' = state
      /\ freed' = freed /\ panicked' = panicked
  BY Numbers DEF Open, IInv, TypeOK, Numbered
<1>3. file' \in [Files -> [open : 0 .. MaxFiles, kind : Kinds, offset : Offsets]]
      /\ \A a \in Files : a < brk' => file'[a].open = a
  <2>1. NewFile(opens + 1, k) \in [open : 0 .. MaxFiles, kind : Kinds, offset : Offsets]
        /\ NewFile(opens + 1, k).open = brk
    BY <1>2, Numbers DEF NewFile
  <2>2. file' \in [Files -> [open : 0 .. MaxFiles, kind : Kinds, offset : Offsets]]
    BY <1>1, <2>1 DEF IInv, TypeOK
  <2>3. ASSUME NEW a \in Files, a < brk' PROVE file'[a].open = a
    <3>1. CASE a = brk
      BY <1>1, <2>1, <3>1 DEF IInv, TypeOK
    <3>2. CASE a # brk
      <4>1. a < brk /\ file'[a] = file[a]
        BY <1>1, <1>2, <2>3, <3>2 DEF Files, IInv, TypeOK
      <4> QED BY <4>1 DEF IInv, Numbered
    <3> QED BY <3>1, <3>2
  <2> QED BY <2>2, <2>3
<1>4. CASE OpenFds(p) = Fds
  <2>1. UNCHANGED <<fd_table, num_fds>>
    BY <1>1, <1>4 DEF Store
  <2>2. TypeOK'
    BY <1>2, <1>3, <2>1, Numbers DEF IInv, TypeOK
  <2>3. SameFd' /\ SharedByFork' /\ CountCovers'
    BY <1>2, <2>1 DEF IInv, SameFd, SharedByFork, CountCovers, OpenFds
  <2>4. Numbered'
    <3>1. ASSUME NEW q \in Procs, NEW fd \in Fds, fd_table[q][fd] # NULL
          PROVE  fd_table[q][fd] < brk'
      <4>1. fd_table[q][fd] \in Int /\ fd_table[q][fd] < brk
        BY <3>1 DEF IInv, TypeOK, Numbered, Files
      <4> QED BY <4>1, <1>2
    <3> QED BY <1>2, <1>3, <2>1, <3>1 DEF Numbered
  <2> QED BY <2>2, <2>3, <2>4 DEF IInv
<1>5. CASE OpenFds(p) # Fds
  <2>1. PICK fd \in Fds : /\ fd_table[p][fd] = NULL
                          /\ fd_table' = [fd_table EXCEPT ![p][fd] = brk]
    BY <1>1, <1>5 DEF Store, FirstFree
  <2>2. num_fds' = [num_fds EXCEPT ![p] = num_fds[p] + 1]
    BY <1>1, <1>5 DEF Store, IInv, TypeOK
  <2> DEFINE row == [fd_table[p] EXCEPT ![fd] = brk]
  <2>3. fd_table[p] \in [Fds -> Files \cup {NULL}] /\ brk \in Files /\ brk # NULL
    BY <1>2, Numbers DEF IInv, TypeOK, Files
  <2>4. row \in [Fds -> Files \cup {NULL}] /\ fd_table' = [fd_table EXCEPT ![p] = row]
    BY <2>1, <2>3 DEF IInv, TypeOK
  <2>5. /\ row[fd] = brk
        /\ \A g \in Fds \ {fd} : row[g] = fd_table[p][g]
    BY <2>3
  <2> HIDE DEF row
  <2>6. NewEntry(row, fd)
    <3>1. ASSUME NEW g \in Fds, row[g] = brk PROVE g = fd
      <4>1. ASSUME g # fd PROVE FALSE
        <5>1. fd_table[p][g] = brk
          BY <4>1, <3>1, <2>5
        <5>2. brk < brk
          BY <5>1, <2>3 DEF IInv, Numbered
        <5> QED BY <5>2, <1>2
      <4> QED BY <4>1
    <3> QED BY <3>1, <2>5, <1>2 DEF NewEntry
  <2>7. \A g \in Fds \ {fd} : OldEntry(p, row, g)
    BY <1>1, <2>5 DEF OldEntry
  <2>8. RowStep(p, row)
    BY <1>2, <2>4, <2>6, <2>7 DEF RowStep
  <2>9. num_fds' \in [Procs -> 0 .. MaxFds] /\ CountCovers'
    <3>1. {g \in Fds : row[g] # NULL} = OpenFds(p) \cup {fd}
      BY <2>3, <2>5 DEF OpenFds
    <3>2. fd \notin OpenFds(p) /\ OpenFds(p) \in SUBSET Fds
      BY <2>1 DEF OpenFds
    <3>3. Cardinality(OpenFds(p) \cup {fd}) = Cardinality(OpenFds(p)) + 1
      BY <3>2, FdsFinite, FS_AddElement
    <3>4. num_fds[p] \in Nat /\ num_fds[p] <= Cardinality(OpenFds(p))
          /\ Cardinality(OpenFds(p)) \in Nat
      BY <3>2, FdsFinite, Numbers DEF IInv, TypeOK, CountCovers
    <3>5. num_fds[p] + 1 \in Nat
          /\ num_fds[p] + 1 <= Cardinality({g \in Fds : row[g] # NULL})
      BY <3>1, <3>3, <3>4
    <3> QED BY <2>2, <2>4, <3>5, CountKeeps
  <2>10. TypeOK'
    <3>1. fd_table' \in [Procs -> [Fds -> Files \cup {NULL}]]
      BY <2>4, <2>8, RowKeeps
    <3>2. brk' \in 1 .. (MaxFiles + 1) /\ opens' \in 0 .. MaxFiles
      BY <1>2, Numbers
    <3> QED BY <1>2, <1>3, <2>9, <3>1, <3>2 DEF IInv, TypeOK
  <2>11. Numbered'
    BY <1>2, <1>3, <2>4, <2>8, RowKeeps DEF Numbered
  <2> QED BY <2>4, <2>8, <2>9, <2>10, <2>11, RowKeeps DEF IInv
<1> QED BY <1>4, <1>5

LEMMA CloseKeeps == IInv /\ Close => IInv'
<1> SUFFICES ASSUME IInv, Close PROVE IInv'
  OBVIOUS
<1>1. PICK p \in Procs, fd \in Fds :
        /\ state[p] = "READY" /\ fd < num_fds[p]
        /\ freed' = freed \cup ({fd_table[p][fd]} \ {NULL})
        /\ fd_table' = [fd_table EXCEPT ![p][fd] = NULL]
        /\ num_fds' = [num_fds EXCEPT ![p] = @ - 1]
  BY DEF Close, Caller, Live, InRange
<1>2. UNCHANGED <<state, file, brk, opens, panicked>> /\ brk \in Int
  BY DEF Close, IInv, TypeOK
<1> DEFINE row == [fd_table[p] EXCEPT ![fd] = NULL]
<1>3. fd_table[p] \in [Fds -> Files \cup {NULL}]
  BY DEF IInv, TypeOK
<1>4. row \in [Fds -> Files \cup {NULL}] /\ fd_table' = [fd_table EXCEPT ![p] = row]
  BY <1>1, <1>3 DEF IInv, TypeOK
<1>5. row[fd] = NULL /\ \A g \in Fds \ {fd} : row[g] = fd_table[p][g]
  BY <1>3
<1> HIDE DEF row
<1>6. \A g \in Fds \ {fd} : OldEntry(p, row, g)
  BY <1>1, <1>5 DEF OldEntry
<1>7. RowStep(p, row)
  BY <1>2, <1>4, <1>5, <1>6 DEF RowStep
<1>8. num_fds' \in [Procs -> 0 .. MaxFds] /\ CountCovers'
  <2>1. {g \in Fds : row[g] # NULL} = OpenFds(p) \ {fd} /\ OpenFds(p) \in SUBSET Fds
    BY <1>5 DEF OpenFds
  <2>2. IsFiniteSet(OpenFds(p)) /\ Cardinality(OpenFds(p)) \in Nat
    BY <2>1, FdsFinite
  <2>3. Cardinality(OpenFds(p) \ {fd}) = IF fd \in OpenFds(p)
                                         THEN Cardinality(OpenFds(p)) - 1
                                         ELSE Cardinality(OpenFds(p))
    BY <2>2, FS_RemoveElement
  <2>4. num_fds[p] \in Nat /\ num_fds[p] <= Cardinality(OpenFds(p))
    BY Numbers DEF IInv, TypeOK, CountCovers
  <2>5. num_fds[p] - 1 \in Nat
    BY <1>1, <2>4, Numbers DEF Fds
  <2>6. num_fds[p] - 1 <= Cardinality({g \in Fds : row[g] # NULL})
    BY <2>1, <2>2, <2>3, <2>4
  <2>7. num_fds' = [num_fds EXCEPT ![p] = num_fds[p] - 1]
    BY <1>1
  <2> QED BY <1>4, <2>5, <2>6, <2>7, CountKeeps
<1>9. freed' \subseteq Files
  BY <1>1, <1>3 DEF IInv, TypeOK
<1>10. TypeOK'
  BY <1>2, <1>4, <1>7, <1>8, <1>9, RowKeeps DEF IInv, TypeOK
<1>11. Numbered'
  BY <1>2, <1>4, <1>7, RowKeeps DEF IInv, Numbered
<1> QED BY <1>4, <1>7, <1>8, <1>10, <1>11, RowKeeps DEF IInv

-------------------------------------------------------------------------------
\* The empty process table.
LEMMA InitIInv == Init => IInv
<1> SUFFICES ASSUME Init PROVE IInv
  OBVIOUS
<1>1. TypeOK
  <2>1. NewFile(0, "device") \in [open : 0 .. MaxFiles, kind : Kinds, offset : Offsets]
    BY Numbers DEF NewFile, Kinds
  <2>2. file \in [Files -> [open : 0 .. MaxFiles, kind : Kinds, offset : Offsets]]
    BY <2>1 DEF Init
  <2>3. fd_table \in [Procs -> [Fds -> Files \cup {NULL}]]
    BY DEF Init
  <2>4. state \in [Procs -> {"NONE", "READY", "KILLED"}]
        /\ num_fds \in [Procs -> 0 .. MaxFds]
    BY Numbers DEF Init
  <2>5. brk \in 1 .. (MaxFiles + 1) /\ opens \in 0 .. MaxFiles /\ freed \subseteq Files
    BY Numbers DEF Init
  <2>6. panicked \in BOOLEAN
    BY DEF Init
  <2> QED BY <2>2, <2>3, <2>4, <2>5, <2>6 DEF TypeOK
<1>2. Numbered /\ SameFd /\ SharedByFork
  <2>1. \A p \in Procs, fd \in Fds : fd_table[p][fd] = NULL
    BY DEF Init
  <2>2. opens = brk - 1 /\ \A a \in Files : ~(a < brk)
    BY DEF Init, Files
  <2> QED BY <2>1, <2>2 DEF Numbered, SameFd, SharedByFork, OpenFds
<1>3. CountCovers
  <2>1. ASSUME NEW p \in Procs PROVE num_fds[p] <= Cardinality(OpenFds(p))
    <3>1. Cardinality(OpenFds(p)) \in Nat
      BY FdsFinite DEF OpenFds
    <3> QED BY <3>1 DEF Init
  <2> QED BY <2>1 DEF CountCovers
<1> QED BY <1>1, <1>2, <1>3 DEF IInv

LEMMA StepIInv == IInv /\ [Next]_vars => IInv'
<1> SUFFICES ASSUME IInv, [Next]_vars PROVE IInv'
  OBVIOUS
<1>1. CASE Spawn \/ Fork \/ ForkFails \/ Exit
  BY <1>1, SpawnKeeps, ForkKeeps, ForkFailsKeeps, ExitKeeps
<1>2. CASE Open \/ Close
  BY <1>2, OpenKeeps, CloseKeeps
<1>3. CASE OpenMissing \/ WriteFile \/ WildDescriptor
  BY <1>3, PanicKeeps DEF OpenMissing, WriteFile, WildDescriptor
<1>4. CASE ReadFile \/ Lseek
  BY <1>4, ReadKeeps, LseekKeeps
<1>5. CASE UNCHANGED vars
  BY <1>5 DEF vars, IInv, tables, heap, TypeOK, Numbered, SameFd, SharedByFork,
              CountCovers, OpenFds
<1> QED BY <1>1, <1>2, <1>3, <1>4, <1>5 DEF Next

\* The invariant of FileTable holds whatever processes open, close, read, seek,
\* fork and exit, for every size of the tables and of the console.
THEOREM FileTableInvariant == Spec => []IInv
<1>1. Init => IInv
  BY InitIInv
<1>2. IInv /\ [Next]_vars => IInv'
  BY StepIInv
<1> QED BY <1>1, <1>2, PTL DEF Spec

\* num_fds stays in the table, tables hold addresses of the heap, and an offset is
\* an int, as reads of every result leave it.
THEOREM FileTypes == Spec => []TypeOK
<1>1. IInv => TypeOK
  BY DEF IInv
<1> QED BY <1>1, FileTableInvariant, PTL

\* num_fds never counts a descriptor that is not open.
THEOREM CountIsCovered == Spec => []CountCovers
<1>1. IInv => CountCovers
  BY DEF IInv
<1> QED BY <1>1, FileTableInvariant, PTL

\* Open files are shared only through fork, under one descriptor.
THEOREM OnlyForkShares == Spec => []SharedByFork
<1>1. IInv => SharedByFork
  BY DEF IInv
<1> QED BY <1>1, FileTableInvariant, PTL

-------------------------------------------------------------------------------
(* FileTable implements Descriptors: an address is the number of the open  *)
(* it is from, so the abstract table is fd_table itself.                   *)

LEMMA AddressIsOpen == TypeOK /\ Numbered => Opened = fd_table
<1> SUFFICES ASSUME TypeOK, Numbered PROVE Opened = fd_table
  OBVIOUS
<1>1. ASSUME NEW p \in Procs, NEW fd \in Fds
      PROVE  OpenedBy(fd_table[p][fd]) = fd_table[p][fd]
  <2>1. CASE fd_table[p][fd] = NULL
    BY <2>1 DEF OpenedBy
  <2>2. CASE fd_table[p][fd] # NULL
    <3>1. fd_table[p][fd] \in Files /\ fd_table[p][fd] < brk
      BY <2>2 DEF TypeOK, Numbered
    <3>2. file[fd_table[p][fd]].open = fd_table[p][fd]
      BY <3>1 DEF Numbered
    <3> QED BY <2>2, <3>2 DEF OpenedBy
  <2> QED BY <2>1, <2>2
<1>2. fd_table = [p \in Procs |-> [fd \in Fds |-> fd_table[p][fd]]]
  BY DEF TypeOK
<1>3. Opened = [p \in Procs |-> [fd \in Fds |-> fd_table[p][fd]]]
  BY <1>1 DEF Opened
<1> QED BY <1>2, <1>3

\* A new process.
LEMMA SetUpImplements ==
  ASSUME IInv, IInv', NEW c \in Procs, NEW t, state[c] = "NONE", SetUpFds(c, t)
  PROVE  /\ c \in Procs \ Born /\ Born' = Born \cup {c} /\ opens' = opens + StdFds
         /\ Opened' = [Opened EXCEPT ![c] = Promise!WithStd(t)]
<1>1. Opened = fd_table /\ Opened' = fd_table'
  <2>1. (TypeOK /\ Numbered => Opened = fd_table)'
    BY AddressIsOpen, PTL
  <2> QED BY <2>1, AddressIsOpen DEF IInv
<1>2. opens + 1 = brk
  BY DEF IInv, Numbered, TypeOK
<1>3. Born' = Born \cup {c} /\ c \in Procs \ Born
  BY DEF Born, SetUpFds, IInv, TypeOK
<1>4. fd_table' = [fd_table EXCEPT ![c] = Promise!WithStd(t)]
  BY <1>2 DEF SetUpFds, Promise!WithStd
<1> QED BY <1>1, <1>3, <1>4 DEF SetUpFds

\* Every step is one step of Descriptors, or none.
LEMMA StepImplements ==
  ASSUME IInv, IInv', [Next]_vars PROVE [Promise!Next]_(Promise!vars)
<1>1. Opened = fd_table /\ Opened' = fd_table'
  <2>1. (TypeOK /\ Numbered => Opened = fd_table)'
    BY AddressIsOpen, PTL
  <2> QED BY <2>1, AddressIsOpen DEF IInv
<1>2. CASE Spawn
  <2>1. PICK c \in {0, 1} : AvailableProcess(c) /\ SetUpFds(c, fd_table[c])
    BY <1>2 DEF Spawn
  <2>2. c \in Procs /\ state[c] = "NONE"
    BY <2>1, Numbers DEF AvailableProcess
  <2>3. Promise!Spawn(c)
    BY <1>1, <2>1, <2>2, SetUpImplements DEF Promise!Spawn
  <2> QED BY <2>2, <2>3 DEF Promise!Next
<1>3. CASE Fork
  <2>1. PICK p \in Procs, c \in Procs :
          Caller(p) /\ AvailableProcess(c) /\ SetUpFds(c, ClonedFds(p, c))
    BY <1>3 DEF Fork
  <2>2. state[c] = "NONE" /\ p \in Born
    BY <2>1 DEF AvailableProcess, Caller, Live, Born
  <2>3. ClonedFds(p, c) = Promise!Inherited(p, c)
    BY <1>1 DEF ClonedFds, Promise!Inherited
  <2>4. Promise!Fork(p, c)
    BY <2>1, <2>2, <2>3, SetUpImplements DEF Promise!Fork
  <2> QED BY <2>4 DEF Promise!Next
<1>4. CASE ForkFails
  <2>1. PICK p \in Procs, c \in Procs :
          /\ Caller(p) /\ AvailableProcess(c)
          /\ fd_table' = [fd_table EXCEPT ![c] = ClonedFds(p, c)]
    BY <1>4 DEF ForkFails
  <2>2. p \in Born /\ c \in Procs \ Born /\ UNCHANGED <<Born, opens>>
    BY <1>4, <2>1 DEF ForkFails, AvailableProcess, Caller, Live, Born, heap
  <2>3. ClonedFds(p, c) = Promise!Inherited(p, c)
    BY <1>1 DEF ClonedFds, Promise!Inherited
  <2>4. Promise!ForkFails(p, c)
    BY <1>1, <2>1, <2>2, <2>3 DEF Promise!ForkFails
  <2> QED BY <2>4 DEF Promise!Next
<1>5. CASE Open
  <2>1. PICK p \in Procs : Caller(p) /\ Store(p, brk)
    BY <1>5 DEF Open, Address
  <2>2. p \in Born /\ UNCHANGED Born /\ opens' = opens + 1
    BY <1>5, <2>1 DEF Open, Caller, Live, Born
  <2>3. opens + 1 = brk
    BY DEF IInv, Numbered, TypeOK
  <2>4. CASE OpenFds(p) = Fds
    <3>1. fd_table' = fd_table /\ \A fd \in Fds : fd_table[p][fd] # NULL
      BY <2>1, <2>4 DEF Store, OpenFds
    <3>2. Promise!OpenFails(p)
      BY <1>1, <2>2, <3>1 DEF Promise!OpenFails
    <3> QED BY <3>2 DEF Promise!Next
  <2>5. CASE OpenFds(p) # Fds
    <3>1. PICK fd \in Fds : /\ fd_table[p][fd] = NULL
                            /\ fd_table' = [fd_table EXCEPT ![p][fd] = brk]
      BY <2>1, <2>5 DEF Store, FirstFree
    <3>2. Promise!Open(p)
      BY <1>1, <2>2, <2>3, <3>1 DEF Promise!Open
    <3> QED BY <3>2 DEF Promise!Next
  <2> QED BY <2>4, <2>5
<1>6. CASE Close
  <2>1. PICK p \in Procs, fd \in Fds :
          Caller(p) /\ fd_table' = [fd_table EXCEPT ![p][fd] = NULL]
    BY <1>6 DEF Close
  <2>2. p \in Born /\ UNCHANGED <<Born, opens>>
    BY <1>6, <2>1 DEF Close, Caller, Live, Born
  <2>3. Promise!Close(p, fd)
    BY <1>1, <2>1, <2>2 DEF Promise!Close
  <2> QED BY <2>3 DEF Promise!Next
<1>7. CASE Exit
  <2>1. UNCHANGED <<fd_table, opens>>
    BY <1>7 DEF Exit, heap
  <2>2. Born' = Born
    BY <1>7 DEF Exit, Caller, Live, Born, IInv, TypeOK
  <2> QED BY <1>1, <2>1, <2>2 DEF Promise!vars
<1>8. CASE OpenMissing \/ WriteFile \/ WildDescriptor \/ ReadFile \/ Lseek \/ UNCHANGED vars
  <2>1. UNCHANGED <<fd_table, state, opens>>
    BY <1>8 DEF OpenMissing, WriteFile, WildDescriptor, Panic, ReadFile, Lseek, tables, heap, vars
  <2> QED BY <1>1, <2>1 DEF Promise!vars, Born
<1> QED BY <1>2, <1>3, <1>4, <1>5, <1>6, <1>7, <1>8 DEF Next

\* A descriptor names the file it was opened for until its process closes it,
\* whatever others open, close or inherit, and although close frees files that
\* are still in use elsewhere.
THEOREM DescriptorsKeepTheirPromise == Spec => Implements
<1>1. Init => Promise!Init
  <2> SUFFICES ASSUME Init PROVE Promise!Init
    OBVIOUS
  <2>1. Opened = fd_table
    BY InitIInv, AddressIsOpen DEF IInv
  <2>2. Born = {} /\ opens = 0 /\ fd_table = [p \in Procs |-> [fd \in Fds |-> NULL]]
    BY DEF Init, Born
  <2> QED BY <2>1, <2>2 DEF Promise!Init, Promise!NoFiles
<1>2. IInv /\ IInv' /\ [Next]_vars => [Promise!Next]_(Promise!vars)
  BY StepImplements
<1> QED BY <1>1, <1>2, FileTableInvariant, PTL DEF Spec, Implements, Promise!Spec
===============================================================================

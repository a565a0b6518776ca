--------------------------------- MODULE Fat32 ---------------------------------
(***************************************************************************)
(* The FAT32 driver, drivers/fat32.c: cluster chains, the allocation of    *)
(* clusters, and the files of the root directory.  A call is cut at every  *)
(* sector it writes to the volume: each write may fail, and power may be   *)
(* lost before each.  (The kernel panics after every successful write, so  *)
(* a restart is the normal end of one: vfs_fat32.c.)  Reads of the volume  *)
(* may fail too.                                                           *)
(*                                                                         *)
(* Sizes and offsets are in clusters.  The file allocation table is its    *)
(* first copy, the only one that is read.  Data, and what a directory      *)
(* update writes over it where there is more than one copy, are left out.  *)
(*                                                                         *)
(* An error code that the code takes for a cluster number is BAD: its      *)
(* table entry is outside of the volume, and stored in the table it reads  *)
(* as an end of chain.                                                     *)
(*                                                                         *)
(* A definition named Mut... is a faulty variant of the one after it; no   *)
(* action uses it.  It is there to see that the properties notice it.      *)
(***************************************************************************)
EXTENDS Integers

CONSTANTS TotalClusters,  \* clusters of the volume, the directory's included
          Word,           \* values of a uint32_t
          Handles,        \* open files (fat32_file_t)
          Names,          \* file names
          Slots,          \* bound: entries of the directory; one stays unused
          MaxSize,        \* bound: the largest offset a write reaches
          NULL            \* no name, no file

ASSUME Fat32Assumption ==
  /\ TotalClusters \in Nat \ {0, 1} /\ Word \in Nat /\ Word > TotalClusters + MaxSize
  /\ Slots \in Nat \ {0} /\ MaxSize \in Nat \ {0}
  /\ NULL \notin Names \cup Handles

VARIABLES
  fat,          \* the file allocation table
  dir,          \* the root directory: entries, in order
  file,         \* the open files
  pc,           \* where the driver is
  h, off, end,  \* fat32_write: the file, and from where to where
  last, new,    \* last_cluster, new_cluster
  todo,         \* clusters_to_add, less those added
  torn          \* history: has a cluster been left linked but free?

volume == <<fat, dir>>
call   == <<h, off, end, last, new, todo>>
vars   == <<volume, file, pc, call, torn>>

Clusters == 2 .. (TotalClusters + 1)
Root     == 2
FREE     == 0
EOC      == 1       \* FAT32_EOC_MARKER
BAD      == -1
PAST     == -2      \* beyond the end of a chain

NoEntry == [name |-> NULL, start |-> 0, size |-> 0]
Closed  == [name |-> NULL, start |-> 0, size |-> 0]

\* The end of a call.
Return == /\ pc' = "idle"
          /\ h' = NULL /\ off' = 0 /\ end' = 0 /\ last' = 0 /\ new' = 0 /\ todo' = 0

\* A volume with one file on it, of one cluster.
Init ==
  /\ fat = [c \in Clusters |-> IF c <= Root + 1 THEN EOC ELSE FREE]
  /\ \E n \in Names :
       dir = [s \in 1 .. Slots |->
                IF s = 1 THEN [name |-> n, start |-> Root + 1, size |-> 1] ELSE NoEntry]
  /\ file = [x \in Handles |-> Closed]
  /\ pc = "idle"
  /\ h = NULL /\ off = 0 /\ end = 0 /\ last = 0 /\ new = 0 /\ todo = 0
  /\ torn = FALSE

-------------------------------------------------------------------------------
(* The table.                                                              *)

\* fat32_get_next_cluster.
NextCluster(c) ==
  CASE c \in {EOC, PAST} -> PAST
    [] c \in Clusters    -> IF fat[c] = FREE THEN BAD ELSE fat[c]
    [] OTHER             -> BAD

\* get_cluster_at_index: an end of chain in the last place is returned as if it
\* were a cluster, an earlier one (PAST) is an error.
Path(start) ==
  LET f[k \in 0 .. (MaxSize + TotalClusters)] ==
        IF k = 0 THEN start ELSE NextCluster(f[k - 1])
  IN  f

\* find_free_cluster, or an error code: no space, or no answer.
FindFree(c) == \/ /\ c \in Clusters /\ fat[c] = FREE
                  /\ \A d \in Clusters : d < c => fat[d] # FREE
               \/ c = BAD

\* fat32_set_next_cluster succeeds; it cannot for BAD.
SetNext(c, v) == c \in Clusters /\ fat' = [fat EXCEPT ![c] = IF v = BAD THEN EOC ELSE v]

-------------------------------------------------------------------------------
(* The directory.                                                          *)

Used(s) == dir[s].name # NULL

\* read_dir_entry: the first entry of that name.
Lookup(n, s) == dir[s].name = n /\ \A t \in 1 .. (s - 1) : dir[t].name # n

Unused(s) == ~Used(s) /\ \A t \in 1 .. (s - 1) : Used(t)

\* update_directory_entry writes the first entry of the name; for fat32_create,
\* which passes no name, that is the first unused one.
Update(n, start, size) ==
  \E s \in 1 .. Slots :
    /\ Lookup(n, s)
    /\ dir' = [dir EXCEPT ![s] = [name |-> n, start |-> start, size |-> size]]

-------------------------------------------------------------------------------
(* fat32_open, fat32_read, fat32_create.                                   *)

Open ==
  /\ pc = "idle"
  /\ \E x \in Handles, s \in 1 .. Slots :
       Used(s) /\ Lookup(dir[s].name, s) /\ file' = [file EXCEPT ![x] = dir[s]]
  /\ UNCHANGED <<volume, pc, call, torn>>

\* Below the size of the file.  fat32_cluster_to_sector panics when the chain
\* has no cluster for the offset, or when the table cannot be read.
Read ==
  /\ pc = "idle"
  /\ \E x \in Handles : \E i \in 0 .. (file[x].size - 1) :
       \/ Path(file[x].start)[i] \notin {EOC, BAD} /\ pc' = "idle"
       \/ (Path(file[x].start)[i] \in {EOC, BAD} \/ i > 0) /\ pc' = "panic"
  /\ UNCHANGED <<volume, file, call, torn>>

\* find_or_create_directory_entry: the entry goes to the first unused place,
\* whether or not there is one of that name.
Create ==
  /\ pc = "idle" /\ pc' = "allocate"
  /\ \E n \in Names, s \in 1 .. (Slots - 1) :
       Unused(s) /\ dir' = [dir EXCEPT ![s] = [NoEntry EXCEPT !.name = n]]
  /\ UNCHANGED <<fat, file, call, torn>>

\* allocate_file_cluster.
CreateCluster ==
  /\ pc = "allocate"
  /\ \E c \in Clusters \cup {BAD} :
       /\ FindFree(c)
       /\ \/ SetNext(c, EOC) /\ new' = c /\ pc' = "stray"
             /\ UNCHANGED <<h, off, end, last, todo>>
          \/ UNCHANGED fat /\ Return
  /\ UNCHANGED <<dir, file, torn>>

\* The cluster goes to the next unused entry, and is lost.
CreateUpdate ==
  /\ pc = "stray" /\ Return
  /\ Update(NULL, new, 0) \/ UNCHANGED dir
  /\ UNCHANGED <<fat, file, torn>>

-------------------------------------------------------------------------------
(* fat32_write.                                                            *)

\* clusters_to_add is unsigned.
ToAdd(required, present) == (required - present) % Word

\* The walk to the last cluster does not end at an error: it goes on for ever.
WalkTo(start, c) ==
  \E k \in 0 .. TotalClusters : Path(start)[k] = c /\ NextCluster(c) = EOC
Endless(start) == \A c \in Clusters : ~WalkTo(start, c)

Write ==
  /\ pc = "idle"
  /\ \E x \in Handles, o \in 0 .. (MaxSize - 1), e \in 1 .. MaxSize :
       /\ file[x].name # NULL /\ o < e
       /\ h' = x /\ off' = o /\ end' = e
       /\ \/ /\ file[x].start = 0
             /\ \E c \in Clusters \cup {BAD} :
                  /\ FindFree(c)
                  /\ new' = c /\ last' = c
                  /\ file' = [file EXCEPT ![x].start = c]
             /\ todo' = ToAdd(e, 1) /\ pc' = "first"
          \/ /\ file[x].start # 0 /\ ToAdd(e, file[x].size) > 0
             /\ todo' = ToAdd(e, file[x].size)
             /\ \/ \E c \in Clusters : WalkTo(file[x].start, c) /\ last' = c /\ pc' = "link"
                \/ last' = BAD /\ pc' = "hang"     \* also when a read fails
             /\ UNCHANGED <<file, new>>
          \/ /\ file[x].start # 0 /\ ToAdd(e, file[x].size) = 0
             /\ pc' = "data" /\ UNCHANGED <<file, last, new, todo>>
  /\ UNCHANGED <<volume, torn>>

MutFirst ==
  /\ pc = "first" /\ pc' = "link"
  /\ UNCHANGED <<volume, file, call, torn>>
\* The first cluster becomes a chain.  A result is never looked at.
First ==
  /\ pc = "first" /\ pc' = "link"
  /\ \/ SetNext(new, EOC) /\ UNCHANGED torn
     \/ torn' = (torn \/ new # BAD) /\ UNCHANGED fat
  /\ UNCHANGED <<dir, file, call>>

\* A free cluster is linked behind the last one ...
Link ==
  /\ pc = "link" /\ todo > 0 /\ pc' = "end"
  /\ \E c \in Clusters \cup {BAD} :
       /\ FindFree(c) /\ new' = c
       /\ SetNext(last, c) \/ UNCHANGED fat
  /\ UNCHANGED <<dir, file, h, off, end, last, todo, torn>>

\* ... and only then made the end of the chain.
End ==
  /\ pc = "end" /\ pc' = "link"
  /\ last' = new /\ todo' = todo - 1
  /\ \/ SetNext(new, EOC) /\ UNCHANGED torn
     \/ torn' = (torn \/ new # BAD) /\ UNCHANGED fat
  /\ UNCHANGED <<dir, file, h, off, end, new>>

Final ==
  /\ pc = "link" /\ todo = 0 /\ pc' = "data"
  /\ SetNext(last, EOC) \/ UNCHANGED fat
  /\ UNCHANGED <<dir, file, call, torn>>

MutData ==
  LET Missing(i) == Path(file[h].start)[i] \notin Clusters IN
  /\ pc = "data"
  /\ \/ /\ \/ \A i \in off .. (end - 1) : ~Missing(i)
           \/ ~Missing(off)
        /\ IF end > file[h].size
           THEN pc' = "directory" /\ UNCHANGED call
           ELSE Return
     \/ Missing(off) /\ Return
  /\ UNCHANGED <<volume, file, torn>>
\* The data, cluster by cluster: success, an error, or a panic.
Data ==
  LET f == Path(file[h].start)
      Missing(i) == f[i] \notin Clusters
      FirstMissing(i) == Missing(i) /\ \A k \in off .. (i - 1) : ~Missing(k)
  IN
  /\ pc = "data"
  /\ \/ /\ \A i \in off .. (end - 1) : ~Missing(i)
        /\ IF end > file[h].size
           THEN pc' = "directory" /\ UNCHANGED call
           ELSE Return
     \/ /\ \/ ~Missing(off)     \* a sector cannot be read or written
           \/ \E i \in off .. (end - 1) : FirstMissing(i) /\ f[i] = PAST
        /\ Return
     \/ /\ \/ end > 1           \* the table cannot be read
           \/ \E i \in off .. (end - 1) : FirstMissing(i) /\ f[i] # PAST
        /\ pc' = "panic" /\ UNCHANGED call
  /\ UNCHANGED <<volume, file, torn>>

\* The size, here and in the directory, comes last.
Directory ==
  /\ pc = "directory" /\ Return
  /\ file' = [file EXCEPT ![h].size = end]
  /\ Update(file[h].name, file[h].start, end) \/ UNCHANGED dir
  /\ UNCHANGED <<fat, torn>>

\* Power is lost, or the kernel has stopped and is started again.
Restart ==
  /\ Return
  /\ file' = [x \in Handles |-> Closed]
  /\ torn' = (torn \/ pc = "end")
  /\ UNCHANGED volume

Next ==
  \/ Open \/ Read \/ Create \/ CreateCluster \/ CreateUpdate
  \/ Write \/ First \/ Link \/ End \/ Final \/ Data \/ Directory
  \/ Restart

Spec == Init /\ [][Next]_vars

-------------------------------------------------------------------------------
\* The types of the state; the loop that adds clusters ends, and the last and
\* the new cluster are clusters or error codes.
TypeOK ==
  LET Entries == [name : Names \cup {NULL}, start : Clusters \cup {0}, size : 0 .. MaxSize] IN
  /\ fat \in [Clusters -> Clusters \cup {FREE, EOC}]
  /\ dir \in [1 .. Slots -> Entries]
  /\ \A x \in Handles : file[x] \in Entries \/ [file[x] EXCEPT !.start = 0] \in Entries
  /\ pc \in {"idle", "allocate", "stray", "first", "link", "end", "data", "directory",
             "panic", "hang"}
  /\ h \in Handles \cup {NULL} /\ off \in 0 .. MaxSize /\ end \in 0 .. MaxSize
  /\ last \in Clusters \cup {0, BAD} /\ new \in Clusters \cup {0, BAD}
  /\ todo \in 0 .. (Word - 1) /\ torn \in BOOLEAN

\* A file never has a size that its chain has no clusters for, in the directory
\* or in an open file, whichever writes fail and wherever power is lost: a read
\* within the size panics only if the table cannot be read.
SizeCovered ==
  \A e \in {dir[s] : s \in 1 .. Slots} \cup {file[x] : x \in Handles} :
    \A i \in 0 .. (e.size - 1) : Path(e.start)[i] \in Clusters

\* Unless the write that ends a chain failed, or power was lost just before it,
\* every chain ends, on allocated clusters, and no two files, nor the directory,
\* share a cluster, whatever else fails and however many files are open.
Starts == {Root} \cup (Clusters \cap ({dir[s].start : s \in {t \in 1 .. Slots : Used(t)}}
                                     \cup {file[x].start : x \in Handles}))
Chain(c) == {Path(c)[k] : k \in 0 .. TotalClusters} \cap Clusters
ChainsSound ==
  ~torn /\ pc \notin {"first", "end"} =>
    \A c \in Starts :
      /\ ~Endless(c)
      /\ \A d \in Starts \ {c} : Chain(c) \cap Chain(d) = {}
===============================================================================

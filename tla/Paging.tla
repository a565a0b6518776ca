-------------------------------- MODULE Paging --------------------------------
(***************************************************************************)
(* The physical page allocator of kernel/src/paging.c.  struct page        *)
(* descriptors are named by their index (the physical address is DRAM_BASE *)
(* plus index * PAGE_SIZE, and DRAM_BASE is 16 KB aligned), and the singly *)
(* linked free list is the sequence of the indices it links, head first.   *)
(* "held" is the callers' side: the blocks returned and not yet given back *)
(* (process pages and level-2 tables: one page; level-1 tables: a block).  *)
(* A call that finds nothing returns NULL and changes nothing: it is the   *)
(* stuttering step.  Callers only free what they were given, so the range  *)
(* and address checks of the two free functions always pass.               *)
(*                                                                         *)
(* A definition named Mut... is a faulty variant of the one after it; no   *)
(* action uses it.  It is there to see that the properties notice it.      *)
(***************************************************************************)
EXTENDS Integers, Sequences, FiniteSets

CONSTANTS TotalPages,     \* alloc->total_pages
          ReservedPages,  \* alloc->reserved_pages: the kernel image
          AlignPages,     \* 16 KB in pages: the alignment of a level-1 table
          BlockPages      \* the count every caller of alloc_aligned_pages passes

\* reserved_pages is computed as "... + 1", so it is never zero.
ASSUME PagingAssumption ==
  /\ TotalPages \in Nat /\ ReservedPages \in Nat \ {0}
  /\ ReservedPages <= TotalPages
  /\ AlignPages \in Nat \ {0}
  /\ BlockPages \in Nat \ {0, 1}

VARIABLES free_list,   \* the free descriptors, in list order
          free_pages,  \* alloc->free_pages
          held         \* blocks in the hands of callers: <<first, count>>

vars == <<free_list, free_pages, held>>

Pages == ReservedPages .. (TotalPages - 1)
Block(p, n) == p .. (p + n - 1)
FreeSet == {free_list[k] : k \in DOMAIN free_list}

\* The list is built from the last page to the first: it comes out ascending.
Init ==
  /\ free_list = [k \in 1 .. (TotalPages - ReservedPages) |-> ReservedPages + k - 1]
  /\ free_pages = TotalPages - ReservedPages
  /\ held = {}

-------------------------------------------------------------------------------
(* The scan of alloc_aligned_pages: position k of the list starts a block  *)
(* when its page is aligned and the count - 1 links after it each lead to  *)
(* the next higher page.  The first such position is taken.                *)

MutAscending(k, n) ==
  /\ k + n - 1 <= Len(free_list)
  /\ \A j \in 1 .. (n - 2) : free_list[k + j] = free_list[k] + j
Ascending(k, n) ==
  /\ k + n - 1 <= Len(free_list)
  /\ \A j \in 1 .. (n - 1) : free_list[k + j] = free_list[k] + j

MutBlockStarts(n) == {k \in DOMAIN free_list : Ascending(k, n)}
BlockStarts(n) ==
  {k \in DOMAIN free_list : free_list[k] % AlignPages = 0 /\ Ascending(k, n)}

\* The list with the n nodes from position k unlinked.
MutUnlinkedShort(k, n) ==
  SubSeq(free_list, 1, k - 1) \o SubSeq(free_list, k + n - 1, Len(free_list))
MutUnlinkedLong(k, n) ==
  SubSeq(free_list, 1, k - 1) \o SubSeq(free_list, k + n + 1, Len(free_list))
Unlinked(k, n) ==
  SubSeq(free_list, 1, k - 1) \o SubSeq(free_list, k + n, Len(free_list))

\* The list with the n descriptors from p linked together in front of it.
MutPushed(p, n) == [j \in 1 .. (n + 1) |-> p + j - 1] \o free_list
Pushed(p, n) == [j \in 1 .. n |-> p + j - 1] \o free_list

-------------------------------------------------------------------------------
MutAllocPage ==
  /\ free_list # <<>>
  /\ free_list' = Tail(free_list)
  /\ held' = held \cup {<<Head(free_list), 1>>}
  /\ UNCHANGED free_pages

\* alloc_page: the head of the list.
AllocPage ==
  /\ free_list # <<>>
  /\ free_list' = Tail(free_list)
  /\ free_pages' = free_pages - 1
  /\ held' = held \cup {<<Head(free_list), 1>>}

\* alloc_aligned_pages: the first ascending run that starts on a boundary.
AllocAligned(n) ==
  \E k \in BlockStarts(n) :
    /\ \A i \in BlockStarts(n) : k <= i
    /\ free_list' = Unlinked(k, n)
    /\ free_pages' = free_pages - n
    /\ held' = held \cup {<<free_list[k], n>>}

\* free_page: the page becomes the head of the list.
FreePage(p) ==
  /\ <<p, 1>> \in held
  /\ free_list' = <<p>> \o free_list
  /\ free_pages' = free_pages + 1
  /\ held' = held \ {<<p, 1>>}

\* free_aligned_pages: the block is linked in ascending order before the head.
FreeAligned(p, n) ==
  /\ <<p, n>> \in held
  /\ free_list' = Pushed(p, n)
  /\ free_pages' = free_pages + n
  /\ held' = held \ {<<p, n>>}

Next ==
  \/ AllocPage
  \/ AllocAligned(BlockPages)
  \/ \E p \in Pages : FreePage(p)
  \/ \E p \in Pages : FreeAligned(p, BlockPages)

Spec == Init /\ [][Next]_vars

-------------------------------------------------------------------------------
\* The state's types: every listed page is an allocatable one, and a block
\* in a caller's hands is one page or BlockPages of them, inside the memory.
TypeOK ==
  /\ free_list \in Seq(Pages)
  /\ free_pages \in Nat
  /\ \A b \in held : /\ b = <<b[1], b[2]>>
                     /\ b[2] \in {1, BlockPages}
                     /\ b[1] \in Pages
                     /\ b[1] + b[2] - 1 \in Pages

\* No page is on the free list twice: a second visit would hand the same
\* page to two owners (free_page itself does not look for double frees).
NoDuplicates ==
  \A i, j \in DOMAIN free_list : free_list[i] = free_list[j] => i = j

\* A page in a caller's hands is not on the free list, and two blocks in
\* callers' hands share no page.
Exclusive ==
  /\ \A b \in held : Block(b[1], b[2]) \cap FreeSet = {}
  /\ \A b, c \in held : b # c => Block(b[1], b[2]) \cap Block(c[1], c[2]) = {}

\* No page is ever lost between the list and the callers: unlinking a run or
\* pushing a block moves exactly its pages.
Conserved == Pages = FreeSet \cup UNION {Block(b[1], b[2]) : b \in held}

\* The unsigned counter free_pages is the length of the list, so it never
\* wraps below zero.
CounterExact == free_pages = Len(free_list)

\* A block is handed out on a 16 KB boundary, as TTBR0 requires of a
\* level-1 table, whatever order earlier frees left the list in.
BlocksAligned == \A b \in held : b[2] = BlockPages => b[1] % AlignPages = 0

\* The allocator implements the abstract one: the free set is the listed pages.
Abstract == INSTANCE PageAlloc WITH free <- FreeSet
Implements == Abstract!Spec
===============================================================================

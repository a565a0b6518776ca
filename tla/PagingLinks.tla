------------------------------ MODULE PagingLinks ------------------------------
(***************************************************************************)
(* The free list of kernel/src/paging.c as the code keeps it: one "next"   *)
(* pointer in every struct page, and the allocator's free_list pointer.    *)
(* Only what the code writes changes: alloc_page leaves the next pointer   *)
(* of the page it hands out as it was, alloc_aligned_pages clears only the *)
(* last page's, so descriptors in callers' hands keep stale pointers.      *)
(***************************************************************************)
EXTENDS Integers, Sequences

CONSTANTS TotalPages, ReservedPages, AlignPages, BlockPages, NULL

\* As in Paging; and no descriptor, nor the place behind the last one, is at
\* the null address.
ASSUME PagingLinksAssumption ==
  /\ TotalPages \in Nat /\ ReservedPages \in Nat \ {0}
  /\ ReservedPages <= TotalPages
  /\ AlignPages \in Nat \ {0}
  /\ BlockPages \in Nat \ {0, 1}
  /\ NULL \notin Int

VARIABLES next,        \* next[i]: alloc->pages[i].next
          free_list,   \* alloc->free_list: a descriptor or NULL
          free_pages,  \* alloc->free_pages
          held         \* blocks in the hands of callers, as in Paging

vars == <<next, free_list, free_pages, held>>

Pages == ReservedPages .. (TotalPages - 1)

Init ==
  /\ next = [i \in Pages |-> IF i = TotalPages - 1 THEN NULL ELSE i + 1]
  /\ free_list = IF Pages = {} THEN NULL ELSE ReservedPages
  /\ free_pages = TotalPages - ReservedPages
  /\ held = {}

-------------------------------------------------------------------------------
\* The list followed from its head for at most one link more than there are
\* pages, so that a cycle shows as a list that is too long.
Walk[k \in 1 .. (TotalPages - ReservedPages + 1)] ==
  IF k = 1 THEN free_list
  ELSE LET node == Walk[k - 1] IN IF node = NULL THEN NULL ELSE next[node]

Listed == {k \in DOMAIN Walk : Walk[k] # NULL}
FreeSeq == [k \in 1 .. (IF Listed = {} THEN 0 ELSE CHOOSE m \in Listed : \A k \in Listed : k <= m)
              |-> Walk[k]]

\* The inner loop of alloc_aligned_pages: each of the count - 1 links after
\* the aligned page c leads to the page at the next higher address.
MutValidBlock(c, n) ==  \* a faulty variant, see Paging
  /\ c % AlignPages = 0
  /\ \A j \in 0 .. (n - 2) : c + j \in Pages /\ next[c + j] # NULL
ValidBlock(c, n) ==
  /\ c % AlignPages = 0
  /\ \A j \in 0 .. (n - 2) : c + j \in Pages /\ next[c + j] = c + j + 1

-------------------------------------------------------------------------------
AllocPage ==
  /\ free_list # NULL
  /\ free_list' = next[free_list]
  /\ free_pages' = free_pages - 1
  /\ held' = held \cup {<<free_list, 1>>}
  /\ UNCHANGED next

\* The outer loop stops at the first valid block; prev is the node before it.
AllocAligned(n) ==
  \E k \in Listed :
    LET last == Walk[k] + n - 1
    IN
    /\ ValidBlock(Walk[k], n)
    /\ \A i \in Listed : i < k => ~ValidBlock(Walk[i], n)
    /\ IF k = 1
       THEN /\ free_list' = next[last]
            /\ next' = [next EXCEPT ![last] = NULL]
       ELSE /\ next' = [next EXCEPT ![Walk[k - 1]] = next[last], ![last] = NULL]
            /\ UNCHANGED free_list
    /\ free_pages' = free_pages - n
    /\ held' = held \cup {<<Walk[k], n>>}

FreePage(p) ==
  /\ <<p, 1>> \in held
  /\ next' = [next EXCEPT ![p] = free_list]
  /\ free_list' = p
  /\ free_pages' = free_pages + 1
  /\ held' = held \ {<<p, 1>>}

FreeAligned(p, n) ==
  /\ <<p, n>> \in held
  /\ next' = [i \in Pages |-> IF i \in p .. (p + n - 2) THEN i + 1
                              ELSE IF i = p + n - 1 THEN free_list ELSE next[i]]
  /\ free_list' = p
  /\ free_pages' = free_pages + n
  /\ held' = held \ {<<p, n>>}

Next ==
  \/ AllocPage
  \/ AllocAligned(BlockPages)
  \/ \E p \in Pages : FreePage(p) \/ FreeAligned(p, BlockPages)

Spec == Init /\ [][Next]_vars

-------------------------------------------------------------------------------
\* The pointers are the sequence of Paging: what the code does with next and
\* free_list, stale pointers included, is what Paging does with the list.
List == INSTANCE Paging WITH free_list <- FreeSeq
Implements == List!Spec
===============================================================================

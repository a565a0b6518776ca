------------------------------ MODULE PageAlloc ------------------------------
(***************************************************************************)
(* What the physical page allocator promises its callers: a page handed    *)
(* out is nobody else's until it is given back, an aligned block starts on *)
(* a block boundary, and no page ever gets lost.  Which free page is handed*)
(* out, and whether a block can be found among the free pages, is left     *)
(* open.  Paging, the free list of kernel/src/paging.c, implements this.   *)
(***************************************************************************)
EXTENDS Integers

CONSTANTS Pages,       \* the page frames that are not part of the kernel
          AlignPages,  \* pages per aligned boundary (16 KB: four)
          BlockPages   \* pages of an aligned block (a level-1 table: four)

VARIABLES free,   \* the set of free pages
          held    \* the blocks callers hold: <<first page, number of pages>>

vars == <<free, held>>

Block(p, n) == p .. (p + n - 1)

Init == free = Pages /\ held = {}

\* Some page, or some aligned block, goes from the free pages to a caller.
Take(p, n) ==
  /\ Block(p, n) \subseteq free
  /\ n = BlockPages => p % AlignPages = 0
  /\ free' = free \ Block(p, n)
  /\ held' = held \cup {<<p, n>>}

\* A caller gives back a block it holds.
Give(p, n) ==
  /\ <<p, n>> \in held
  /\ free' = free \cup Block(p, n)
  /\ held' = held \ {<<p, n>>}

Next == \E p \in Pages, n \in {1, BlockPages} : Take(p, n) \/ Give(p, n)

Spec == Init /\ [][Next]_vars
==============================================================================

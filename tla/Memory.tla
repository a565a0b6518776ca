-------------------------------- MODULE Memory --------------------------------
(***************************************************************************)
(* Process memory (ProcMem) on the free list of kernel/src/paging.c        *)
(* (Paging): which page an allocation returns is what the list says, and a *)
(* level-1 table is refused exactly when the scan of the list finds none.  *)
(* The list follows the process side without restricting what is given     *)
(* back: that every call is a legal one is checked (UsesPaging).           *)
(***************************************************************************)
EXTENDS ProcMem, Sequences

CONSTANTS TotalPages, ReservedPages

\* The frames are the pages that are not the kernel's.
ASSUME MemoryAssumption ==
  /\ TotalPages \in Nat /\ ReservedPages \in Nat \ {0}
  /\ ReservedPages <= TotalPages
  /\ Frames = ReservedPages .. (TotalPages - 1)

VARIABLE free_list   \* the free descriptors, in list order

List == INSTANCE Paging WITH free_pages <- Len(free_list)

MInit == Init /\ List!Init

\* alloc_page, alloc_aligned_pages, free_page, free_aligned_pages, or no call.
FromList(taken) ==
  \/ /\ taken = {free_list[1]}
     /\ free_list' = Tail(free_list)
  \/ \E k \in List!BlockStarts(BlockPages) :
       /\ \A i \in List!BlockStarts(BlockPages) : k <= i
       /\ taken = Block(free_list[k])
       /\ free_list' = List!Unlinked(k, BlockPages)

ToList(given) ==
  \E p \in given :
    /\ \A q \in given : p <= q
    /\ free_list' = List!Pushed(p, Cardinality(given))

NoListCall ==
  /\ pc = "table" /\ pc' # pc => List!BlockStarts(BlockPages) = {}
  /\ UNCHANGED free_list

Listed ==
  LET taken == free \ free'
      given == free' \ free
  IN  CASE taken # {} -> FromList(taken)
        [] given # {} -> ToList(given)
        [] OTHER      -> NoListCall

MNext == Next /\ Listed

mvars == <<vars, free_list>>

MSpec == MInit /\ [][MNext]_mvars

-------------------------------------------------------------------------------
\* Processes use the allocator of paging.c as it is meant to be used: each of
\* their steps is one call whose page or block the caller holds, or none.
UsesPaging == List!Spec
===============================================================================

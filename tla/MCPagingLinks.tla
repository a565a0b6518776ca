---------------------------- MODULE MCPagingLinks ----------------------------
(* The pointer-level free list on six pages, the first of them reserved; a *)
(* block is two pages on a two-page boundary.  Following the list in every *)
(* evaluation of the refinement mapping is what keeps this small.          *)
EXTENDS PagingLinks
==============================================================================

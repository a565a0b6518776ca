------------------------------ MODULE MCPaging ------------------------------
(* Paging on eight pages, one of them reserved; a block is three pages on  *)
(* a two-page boundary, so that the scan follows more than one link.       *)
EXTENDS Paging
=============================================================================

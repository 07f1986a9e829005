----------------------------- MODULE MCPaging ------------------------------
(***************************************************************************)
(* An instance of Paging for TLC: three processes in sixty pages, with     *)
(* tables of twenty entries.                                               *)
(***************************************************************************)
EXTENDS Paging, TLC

Values == Permutations(Data)

=============================================================================

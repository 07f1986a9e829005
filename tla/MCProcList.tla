----------------------------- MODULE MCProcList -----------------------------
(***************************************************************************)
(* Instance of ProcList for TLC: the safety of the scheduler, lists in both *)
(* forms.                                                                   *)
(***************************************************************************)
EXTENDS ProcList

=============================================================================

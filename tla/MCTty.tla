------------------------------- MODULE MCTty -------------------------------
(***************************************************************************)
(* Instances of Tty for TLC.                                               *)
(***************************************************************************)
EXTENDS Tty

=============================================================================

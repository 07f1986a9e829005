----------------------------- MODULE MCKeyboard ----------------------------
(***************************************************************************)
(* Instances of Keyboard for TLC.                                          *)
(***************************************************************************)
EXTENDS Keyboard

=============================================================================

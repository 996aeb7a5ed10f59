----------------------------- MODULE MCTouchpad ------------------------------
(***************************************************************************)
(* TLC instance of Touchpad.                                               *)
(***************************************************************************)
EXTENDS Touchpad
=============================================================================

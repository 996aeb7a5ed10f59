----------------------------- MODULE MCIrqDriver -----------------------------
(***************************************************************************)
(* TLC instances of IrqDriver: a few interrupts, and a counter small       *)
(* enough to wrap.                                                         *)
(***************************************************************************)
EXTENDS IrqDriver
=============================================================================

---------------------------- MODULE MCGpioDriver -----------------------------
(***************************************************************************)
(* TLC instances of GpioDriver.                                            *)
(***************************************************************************)
EXTENDS GpioDriver, TLC

Symmetry == Permutations(Writers)
=============================================================================

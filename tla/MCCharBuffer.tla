---------------------------- MODULE MCCharBuffer -----------------------------
(***************************************************************************)
(* TLC instance of CharBuffer: three cells would show no more than two, a  *)
(* cell that has been copied and one that has not.                         *)
(***************************************************************************)
EXTENDS CharBuffer, TLC

Symmetry == Permutations(Files)
=============================================================================

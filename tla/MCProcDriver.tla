---------------------------- MODULE MCProcDriver -----------------------------
(***************************************************************************)
(* TLC instances of ProcDriver.  Of what a write past the array leaves in  *)
(* the flag only three kinds differ: 0, the 1 that init and reads put      *)
(* there, and a number that is neither.                                    *)
(***************************************************************************)
EXTENDS ProcDriver, TLC

NoCats == {}
MCSpills == {-1, 0, 1}
Symmetry == Permutations(Cats)
=============================================================================

--------------------------- MODULE MCBufferDriver ---------------------------
(***************************************************************************)
(* TLC instance of BufferDriver.  Files and blocks are interchangeable, and *)
(* all properties are safety, so both are symmetry sets.                   *)
(***************************************************************************)
EXTENDS BufferDriver, TLC

Symmetry == Permutations(Files) \cup Permutations(Blocks)

MCValues == {0, 1}
MCLens   == {1, MemSize, MemSize + 1}
=============================================================================

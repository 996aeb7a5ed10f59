--------------------------- MODULE MCSensorDriver ----------------------------
(***************************************************************************)
(* TLC instance of SensorDriver: the words on both sides of a step of the  *)
(* percentage, the divisor, the largest word, and the two ends of the      *)
(* error numbers.                                                          *)
(***************************************************************************)
EXTENDS SensorDriver, TLC

MCWords  == {0, 653, 65278, 65279, 65535}
MCErrors == {-531, -1}
Symmetry == Permutations(Files)
=============================================================================

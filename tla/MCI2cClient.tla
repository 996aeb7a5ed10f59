----------------------------- MODULE MCI2cClient -----------------------------
(***************************************************************************)
(* TLC instance of I2cClient: two devices that share the class name, two   *)
(* files, either driver.  No symmetry: RmmodEnds is a liveness property.   *)
(***************************************************************************)
EXTENDS I2cClient
=============================================================================

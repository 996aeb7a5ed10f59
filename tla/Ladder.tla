------------------------------- MODULE Ladder --------------------------------
(***************************************************************************)
(* The form of every init and probe function of the repository: a sequence *)
(* of calls that acquire something, each followed by a test and, if the    *)
(* test finds a failure, by releases.  A function is a table of such calls *)
(* and an exit or remove function a sequence of releases.                  *)
(*                                                                         *)
(* The calls are the kernel's and so is the way they fail (Convention); a  *)
(* test that looks for another sign of failure misses it.                  *)
(***************************************************************************)
EXTENDS Sequences, Naturals

\* A call that acquires res; `test' is the sign of failure the code looks
\* for, `then' the releases from the label it jumps to down to its return.
Get(res, test, then) == [res |-> res, test |-> test, then |-> then]

\* A call of an init function that gives res back on the successful path.
Put(res) == Get(res, "put", <<>>)

\* How each kernel function reports that it has failed.
Convention(res) ==
  IF res \in {"class", "device", "client"} THEN "IS_ERR"
  ELSE IF res \in {"proc", "tasklet", "adapter", "data"} THEN "null"
  ELSE "negative"

\* The test finds the failure: "nonzero" finds a negative number, "minus one"
\* does not find the error numbers that the kernel returns.
Sees(call) == \/ call.test = Convention(call.res)
              \/ call.test = "nonzero" /\ Convention(call.res) = "negative"
=============================================================================

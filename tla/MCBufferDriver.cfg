\* Two clients whose calls interleave freely.
\* CHECK_DEADLOCK FALSE: a memory error ends the behaviour.
SPECIFICATION Spec
CONSTANTS
  Files = {f1, f2}
  Blocks = {b1, b2}
  NULL = NULL
  MemSize = 2
  Values <- MCValues
  WriteLens <- MCLens
SYMMETRY Symmetry
CHECK_DEADLOCK FALSE
INVARIANTS
  TypeOK
  ExclusiveUse
  FaultNeedsMisuse
  IoctlRoundTrip
PROPERTY
  ImplementsScratch

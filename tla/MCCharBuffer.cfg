\* Up to three calls at a time, any of them reads or writes.
SPECIFICATION Spec
CONSTANTS
  Files = {f1, f2, f3}
  Size = 2
  Values = {0, 1}
  Counts = {0, 1, 3}
SYMMETRY Symmetry
INVARIANTS
  TypeOK
  ReadsOneMessage
  BufferHoldsMessage

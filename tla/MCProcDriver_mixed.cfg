\* Three clients, two of which read until the end, in any order.
\* CHECK_DEADLOCK FALSE: a behaviour stops at the bound on its reads.
SPECIFICATION Spec
CONSTANTS
  Files = {f1, f2, f3}
  Texts = {t1, t2}
  Welcome = t1
  Nothing = Nothing
  Torn = Torn
  Spills <- MCSpills
  Cats = {f1, f2}
  MaxReads = 6
SYMMETRY Symmetry
CHECK_DEADLOCK FALSE
INVARIANTS
  TypeOK
  Alternates
  EachSeesTextOnce

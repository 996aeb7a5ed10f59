\* Both drivers; devices may be bound and unbound at any time.
\* CHECK_DEADLOCK FALSE: a memory error ends the behaviour.
SPECIFICATION FairSpec
CONSTANTS
  Clients = {c1, c2}
  Files = {f1, f2}
  NULL = NULL
CHECK_DEADLOCK FALSE
INVARIANTS
  TypeOK
  UnboundHoldsNothing
  PinnedFilesAreFresh
PROPERTY
  RmmodEnds

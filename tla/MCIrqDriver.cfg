\* CHECK_DEADLOCK FALSE: a fault ends the behaviour.
SPECIFICATION FairSpec
CONSTANTS
  MaxIrqs = 4
  CounterSize = 3
CHECK_DEADLOCK FALSE
INVARIANTS
  TypeOK
  LoaderInv
  QuiescentWhenUnloaded
  FaultNeedsEarlyIrq
  RunsCoveredByIrqs
PROPERTIES
  HandledIrqRuns
  UnloadEnds

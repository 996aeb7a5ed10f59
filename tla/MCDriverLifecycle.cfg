\* All fourteen drivers, in nine fleets.
\* CHECK_DEADLOCK FALSE: a module that wedges stays so.
SPECIFICATION FairSpec
CONSTANTS
  Fleets <- AllDrivers
  MaxOpen = 1
CHECK_DEADLOCK FALSE
INVARIANTS
  TypeOK
  LeavesOnlyResidue
  NumberCoversCdev
  SparesOthers
PROPERTY
  ComesToRest

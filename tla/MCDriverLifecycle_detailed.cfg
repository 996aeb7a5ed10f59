\* CHECK_DEADLOCK FALSE as in the other runs of this module.
SPECIFICATION Spec
CONSTANTS
  Fleets <- DetailedAlone
  MaxOpen = 1
CHECK_DEADLOCK FALSE
INVARIANT
  ExitUnregistersAll

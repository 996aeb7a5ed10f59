\* Two clients of one device, plugged in and out.
SPECIFICATION FairSpec
CONSTANTS
  Clients = {c1, c2}
INVARIANTS
  TypeOK
  UseHasMouse
  OpenDelivers
PROPERTIES
  LeavesNothing
  GoesAway

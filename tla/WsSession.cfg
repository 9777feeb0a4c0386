SPECIFICATION WsFairSpec
CONSTANTS
  r1 = r1
  r2 = r2
  r3 = r3
  Runs = {r1, r2, r3}
CHECK_DEADLOCK FALSE
INVARIANT OneRunUntilCancelled
PROPERTY SilentOnceCancelled CancelStopsTheAgent SlotIsFreed

SPECIFICATION FairSpec
CONSTANTS
  c1 = c1
  c2 = c2
  Calls = {c1, c2}
  Capacity = 2
  MaxEvents = 4
CHECK_DEADLOCK FALSE
INVARIANT InOrder TerminalIsLast NothingAskedInVain
PROPERTY ImplementsEventStream StreamEnds LeavingStopsTheAgent

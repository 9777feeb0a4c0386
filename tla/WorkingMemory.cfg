SPECIFICATION FairSpec
CONSTANTS
  p1 = p1
  p2 = p2
  t1 = t1
  t2 = t2
  Processes = {p1, p2}
  Turns = {t1, t2}
  NoTurn = NoTurn
  KeepLast = 3
  MaxMessages = 4
  CacheFails = FALSE
CHECK_DEADLOCK FALSE
INVARIANT SummaryHasNoGap
PROPERTY OnlyOutrunTurnsRollBack DeletedSummaryStaysDeleted SessionIsFreed

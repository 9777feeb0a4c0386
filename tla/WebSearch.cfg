CONSTANTS
  l1 = l1
  l2 = l2
  q1 = q1
  Lookups <- const_Lookups
  Queries <- const_Queries
  TTL = 1
  Grace = 1
  MaxEntries = 1
  CallTime = 1
  MaxRetries = 2
  FailureThreshold = 2
  OpenSeconds = 1
  Null = Null

SPECIFICATION FairSpec

INVARIANT AnswersAreRecent
PROPERTY ServersAreSpared ClosedOnItsWord LookupEnds

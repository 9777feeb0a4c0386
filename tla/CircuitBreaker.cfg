SPECIFICATION FairSpec
CONSTANTS
  c1 = c1
  c2 = c2
  c3 = c3
  Callers <- const_Callers
  FailureThreshold = 2
  OpenSeconds = 2
  Null = Null
INVARIANT ProbesSpaced
PROPERTY AlwaysReadmits

SPECIFICATION FairSpec
CONSTANTS
  r1 = r1
  r2 = r2
  r3 = r3
  i1 = i1
  i2 = i2
  alice = alice
  bob = bob
  Requests = {r1, r2, r3}
  Ids = {i1, i2}
  Users = {alice, bob}
  Decisions = {"approve", "deny"}
  IdOf <- const_IdOf
  OwnerOf <- const_OwnerOf
  MaxErrors = 2
CHECK_DEADLOCK FALSE
INVARIANT CountedOnce OnlyConsentIsReturned
PROPERTY ImplementsHumanDecision EveryRequestEnds

SPECIFICATION FairSpec
CONSTANTS
  a1 = a1
  a2 = a2
  Attempts = {a1, a2}
  Ids = {x}
  None = None
INVARIANTS
  CancelFindsItsCall
PROPERTIES
  CancelReachesCall
  DeadCallFreed
CONSTRAINT FirstBegins

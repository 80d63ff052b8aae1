SPECIFICATION FairSpec
CONSTANTS
  MaxDrafts = 2
  MaxCalls = 2
  MaxMessages = 1
  Kinds = {"unary", "server", "bidi"}
CONSTRAINT Scenario
INVARIANTS
  StoresAgree
  OneFullRecord
PROPERTIES
  TerminalIsFrozen
  CancelSettles
CHECK_DEADLOCK FALSE

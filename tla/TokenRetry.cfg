SPECIFICATION Spec
CONSTANTS
  Calls = {c1, c2, c3}
  Configs = {k1}
  NoConfig = NoConfig
  MaxTokens = 3
  MaxRows = 2
  MaxDay = 147000
SYMMETRY CallSymmetry
INVARIANTS
  RefusedStaysRefused
  ActedAtMostOnce
  SentIsAsMeant
CHECK_DEADLOCK FALSE

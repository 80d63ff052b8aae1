SPECIFICATION ViewSpec
CONSTANTS
  Targets = {t1, t2}
  Ops = {o1, o2}
  MaxVersion = 2
  Methods = {m1, m2}
  None = None
SYMMETRY Interchangeable
INVARIANTS RefreshSticks RefreshIsFresh PanelIsCurrent
CHECK_DEADLOCK FALSE

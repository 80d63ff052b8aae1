SPECIFICATION Spec
CONSTANTS
  m1 = m1
  m2 = m2
  None = None
  Methods = {m1, m2}
  Stored <- MCStored
  MaxRequests = 3
  MaxCalls = 2
  Budgets <- Scenarios
INVARIANTS EditsArrive
PROPERTIES UnsavedIsKept MethodFindsItsDraft
CHECK_DEADLOCK FALSE

SPECIFICATION PaneSpec
CONSTANTS
    a = a
    b = b
    x = x
    NoName = NoName
    Names = {a, b, x}
    Initial <- TwoEnvs
    InitialActive = a
    Vals = {0, 1}
    Lanes = {1, 2}
    Budgets <- BudgetsOfLanes
    MaxLists = 1
    Keys = {1, 2}
    Values = {0, 1}
    InitialRows <- TwoVariables
    Queries <- Searches
    SortModes = {"oldest", "name-desc"}
    Turns = {0, 3}
INVARIANTS
    LanesMatchTail
    WriteTookEffect
    WorkIsOnScreen
PROPERTIES
    OthersUntouched
    LeaveKeepsVariables
CHECK_DEADLOCK FALSE

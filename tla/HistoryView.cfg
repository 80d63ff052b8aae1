SPECIFICATION ViewSpec
CONSTANTS
    HISTORY_CAP = 2
    MaxCalls = 3
    MaxRevision = 4
    MAX_MESSAGE_ROWS = 3
    INLINE_JSON_BUDGET = 3
    MaxSize = 4
    MaxRecordedRows = 4
INVARIANTS
    BodiesAreFit
    PageSurvivesRestart
    AppendIsAtomic
    ViewIsCurrent
PROPERTIES
    ImplementsLog

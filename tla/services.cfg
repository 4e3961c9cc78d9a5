SPECIFICATION AllSpec
CONSTANTS
    Settings <- MCSettings
    Docs <- MCDocs
    Texts = {"t"}
    Others = {"o"}
    MaxLog = 2
    NewEvents = 1
    None = None
    MaxLines = 3
    Segments <- MCSegments
    IssuePrefixes <- MCPrefixes
    Plans <- MCPlans
INVARIANTS
    TypesOK
    SnapshotsAreWhole
    CutAtBudget
    FallbackHasReason
    PlanArrives
PROPERTIES
    DeletedStaysDeleted
    CallEnds
CHECK_DEADLOCK FALSE

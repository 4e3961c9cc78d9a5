SPECIFICATION LiveSpec
CONSTANTS
    Finalizers = {f1}
    Posters = {}
    Killers = {}
    PostActions = {"stop", "kill"}
    Continuous = TRUE
    PhaseCount = 2
    MaxIterations = 2
    MaxFailures = 2
    TimeLimits = TRUE
    Cancelable = FALSE
    SavesFail = TRUE
    Threshold = 1
    MaxScan = 1
    MaxRequests = 0
INVARIANTS
    TypeOK
    RecordedChildKeepsRun
PROPERTIES
    CrashedRunIsClosed
    RunReturns

SPECIFICATION Spec
CONSTANTS
    Finalizers = {f1}
    Posters = {}
    Killers = {}
    PostActions = {"stop", "kill"}
    Continuous = FALSE
    PhaseCount = 1
    MaxIterations = 1
    MaxFailures = 0
    TimeLimits = FALSE
    Cancelable = FALSE
    SavesFail = TRUE
    Threshold = 1
    MaxScan = 1
    MaxRequests = 0
INVARIANTS
    LiveChildKeepsRun

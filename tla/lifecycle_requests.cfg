SPECIFICATION Spec
CONSTANTS
    Finalizers = {f1}
    Posters = {c1}
    Killers = {c1}
    PostActions = {"stop"}
    Continuous = FALSE
    PhaseCount = 1
    MaxIterations = 1
    MaxFailures = 0
    TimeLimits = FALSE
    Cancelable = TRUE
    SavesFail = TRUE
    Threshold = 1
    MaxScan = 1
    MaxRequests = 1
INVARIANTS
    StaleOnlyAfterCrash
    LockCoversRun
PROPERTIES
    OutcomeKept

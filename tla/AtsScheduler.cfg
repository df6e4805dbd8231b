SPECIFICATION Spec
SYMMETRY Symmetry
CONSTANTS
    daily = daily
    catalog = catalog
    p1 = p1
    p2 = p2
    Nobody = Nobody
    Tasks <- MCTasks
    Daily = daily
    Enabled <- MCEnabled
    Procs <- MCProcs
    Period <- MCPeriod
    MaxRetries = 1
    RetryWindow = 0
    MinimumSpacing = 1
    MinimumRuns = 2
    MaxTime = 2
    MaxActivations = 3
    MaxFaults = 1
INVARIANTS
    TypeOK
    OneScanner
    NoLostUpdate
    AttemptsWithinBudget
    CompletedNotRepeated
PROPERTIES
    RecordsOwnRun
CHECK_DEADLOCK FALSE

SPECIFICATION PipeSpec
CONSTANTS
    Run = {1}
    s1 = s1
    Subject = {s1}
    SubjectOf <- OneSubject
    Projected = {s1}
    Token = {t1, t2}
    Result = {a}
    NoRun = 0
    NoToken = NoToken
    NoResult = NoResult
    PendingFail = FALSE
    MaxTime = 1
    Worker = {w1, w2}
    NoWorker = NoWorker
    MaxDelivery = 2
    MaxOutages = 1
    Faults = {"release"}
INVARIANTS
    SettledWorkIsOver
CHECK_DEADLOCK FALSE

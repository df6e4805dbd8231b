SPECIFICATION FairPipeSpec
CONSTANTS
    Run = {1, 2}
    s1 = s1
    Subject = {s1}
    SubjectOf <- OneSubject
    Projected = {s1}
    Token = {t1, t2, t3}
    Result = {a}
    NoRun = 0
    NoToken = NoToken
    NoResult = NoResult
    PendingFail = FALSE
    MaxTime = 2
    Worker = {w1, w2}
    NoWorker = NoWorker
    MaxDelivery = 2
    MaxOutages = 1
    Faults = {}
INVARIANTS
    SettledWorkIsOver
PROPERTIES
    Answered
CHECK_DEADLOCK FALSE

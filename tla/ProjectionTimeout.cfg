SPECIFICATION CountFairSpec
CONSTANTS
    Row = {1, 2}
    s1 = s1
    Subject = {s1}
    SubjectOf <- Both
    CalculatedAt <- Times
    Pass = {p1}
    Request = {q1, q2}
    NoRow = 0
    NoRequest = NoRequest
    BatchSize = 2
    MaxAttempts = 2
    Faults = {"timeout"}
    MaxFaults = 1
PROPERTIES
    ScoreNeverRegresses
CHECK_DEADLOCK FALSE

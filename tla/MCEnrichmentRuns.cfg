SPECIFICATION Spec
CONSTANTS
    Run = {1, 2}
    s1 = s1
    Subject = {s1}
    SubjectOf <- OneSubject
    Projected = {s1}
    Token = {t1, t2}
    Result = {a, b}
    NoRun = 0
    NoToken = NoToken
    NoResult = NoResult
    PendingFail = TRUE
    MaxTime = 2
SYMMETRY Symmetry
INVARIANTS
    TypeOK
    OneActivePerSubject
    TokenNamesHolder
    ProjectionOrder
    SuccessIsProjected
PROPERTIES
    ProjectionIsFinal
    KeepsPromise
CHECK_DEADLOCK FALSE

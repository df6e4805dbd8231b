\* One run: three calls in a batch, as configured, and four failures in all.
SPECIFICATION Spec
CHECK_DEADLOCK FALSE
CONSTANTS
    Delays = 2
    Budget = 2
    Margin = 1
    Languages = {"en"}
    RawScores <- MCRawScores
    Levels <- MCLevels
    MaxFailures = 4
INVARIANTS
    TypeOK
    OneReasoningEnd
    NoPartialResult
    FallbackBeforeFailure
    ScoreIsFair
PROPERTIES
    KeepsLeaseContract

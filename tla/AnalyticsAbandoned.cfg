SPECIFICATION FairSpec
CONSTANTS
    Post = {1, 2, 3}
    k1 = k1
    NoKey = NoKey
    NoEvent = 0
    KeyOf <- Keys
    OccurredAt <- Times
    Mappable = {1, 2}
    Pass = {p1}
    BatchSize = 2
    Faults = {"mark"}
    MaxFaults = 1
PROPERTIES
    RowsBecomeSentRetryOrDead
CHECK_DEADLOCK FALSE

SPECIFICATION FairSpec
CONSTANTS
    Post = {1, 2, 3}
    k1 = k1
    NoKey = NoKey
    NoEvent = 0
    KeyOf <- Keys
    OccurredAt <- Times
    Mappable = {1, 2}
    Pass = {p1, p2}
    BatchSize = 2
    Faults = {"ingest", "retry", "refuse", "error", "mark", "crash"}
    MaxFaults = 2
INVARIANTS
    TypeOK
    SameKeySameEvent
    SentWasImported
    SendingIsHeld
PROPERTIES
    QuietClosedIsFinal
    EveryEventSettles
CHECK_DEADLOCK FALSE

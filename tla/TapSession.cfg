SPECIFICATION FairSpec
CONSTANTS
    Sessions = {s1}
    Changes = {d1, d2}
    QueueMax = 2
    Rate = 2
    SinkMax = 2
    InstanceMax = 1
    MaxPings = 2
    MaxItems = 5
INVARIANTS
    TypeOK
    EverythingIsAccounted
    StreamInOrder
PROPERTIES
    QueueIsDrained

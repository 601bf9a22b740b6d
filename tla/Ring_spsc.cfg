SPECIFICATION LiveSpec
CONSTANTS
    p1 = p1
    c1 = c1
    Producers = {p1}
    Consumers = {c1}
    v1 = v1
    v2 = v2
    v3 = v3
    v4 = v4
    Values = {v1, v2, v3, v4}
    NoEntry = NoEntry
    Torn = Torn
    capacity_ = 2
INVARIANTS
    TypeOK
    OccupancyBounded
    SlotNotReusedWhileRead
    WrittenEntriesArrive
    SoleConsumerFindsEntry
PROPERTY EnqueueReturns

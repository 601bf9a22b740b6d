SPECIFICATION LiveSpec
CONSTANTS
    t1 = t1
    t2 = t2
    t3 = t3
    Threads = {t1, t2, t3}
    Producers = {t1, t2}
    Consumers = {t3}
    n1 = n1
    n2 = n2
    n3 = n3
    Nodes = {n1, n2, n3}
    v1 = v1
    v2 = v2
    Values = {v1, v2}
    NoValue = NoValue
    Null = Null
    EpochMod = 8
    MaxEpoch = 0
    EnvCalls = {}
    QuiescentCalls = FALSE
    SpuriousCAS = FALSE
    Scheduled = {t1, t3}
INVARIANT SoleConsumerFindsElement
PROPERTY OperationsReturn

SPECIFICATION Spec
CONSTANTS
    t1 = t1
    t2 = t2
    t3 = t3
    Threads = {t1, t2, t3}
    Producers = {t1, t2}
    Consumers = {t2, t3}
    n1 = n1
    n2 = n2
    n3 = n3
    Nodes = {n1, n2, n3}
    v1 = v1
    v2 = v2
    v3 = v3
    Values = {v1, v2, v3}
    NoValue = NoValue
    Null = Null
    EpochMod = 8
    MaxEpoch = 3
    EnvCalls = {"bump_epoch", "unregister_thread"}
    QuiescentCalls = TRUE
    SpuriousCAS = TRUE
    Scheduled = {}
SYMMETRY Symmetry
INVARIANTS
    TypeOK
    NoDanglingPointer
    TailBetweenHeadAndEnd
    ImpossibleBranches
    MemoryAccounted
PROPERTY ImplementsFIFO

SPECIFICATION Spec
CONSTANTS
    p1 = p1
    p2 = p2
    c1 = c1
    c2 = c2
    Producers = {p1, p2}
    Consumers = {c1, c2}
    v1 = v1
    v2 = v2
    v3 = v3
    Values = {v1, v2, v3}
    NoEntry = NoEntry
    Torn = Torn
    capacity_ = 2
SYMMETRY Symmetry
INVARIANT BoundedUnlessLapped

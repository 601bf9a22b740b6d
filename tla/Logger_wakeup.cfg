SPECIFICATION Spec
CONSTANTS
    w1 = w1
    w2 = w2
    e1 = e1
    e2 = e2
    p1 = p1
    Writers = {w1, w2}
    Entries = {e1, e2}
    Threshold = 2
    FilePaths = {p1}
    Garbage = Garbage
    MaxRestarts = 0
    MaxPaths = 0
INVARIANTS
    ThresholdWakes

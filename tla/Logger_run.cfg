SPECIFICATION LiveSpec
CONSTANTS
    w1 = w1
    w2 = w2
    e1 = e1
    e2 = e2
    e3 = e3
    p1 = p1
    Writers = {w1, w2}
    Entries = {e1, e2, e3}
    Threshold = 2
    FilePaths = {p1}
    Garbage = Garbage
    MaxRestarts = 1
    MaxPaths = 1
INVARIANTS
    TypeOK
    EntriesConserved
    JoiningStopFlushesEarlierEntries
    CountBounded
    StopIsNotMissed
PROPERTIES
    AppendedIsWritten
    StopCompletes

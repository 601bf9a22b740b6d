SPECIFICATION Spec
CONSTANTS
    u1 = u1
    u2 = u2
    d1 = d1
    r1 = r1
    Uploads = {u1, u2}
    Downloads = {d1}
    Deletes = {r1}
    chunks <- MCChunks
    ReadSize = 2
    Hole = Hole
    OldFile <- MCOldFile
INVARIANT CommittedIsComplete
CHECK_DEADLOCK FALSE

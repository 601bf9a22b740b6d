SPECIFICATION LiveSpec
CONSTANTS
    u1 = u1
    u2 = u2
    d1 = d1
    d2 = d2
    r1 = r1
    r2 = r2
    Uploads = {u1, u2}
    Downloads = {d1, d2}
    Deletes = {r1, r2}
    Naive = {u2, d2, r2}
    LoadTests <- MCLoadTests
    MaxCalls = 2
    chunks <- MCChunks
    ReadSize = 2
    Hole = Hole
    OldFile <- MCOldFile
INVARIANTS
    SystemTypeOK
    UploadStored
    DownloadsIntact
    ServersAudit
    SuccessIsEndToEnd
PROPERTIES
    DownloadsWhatWasUploaded
    CallsEnd
CHECK_DEADLOCK FALSE

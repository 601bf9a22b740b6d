SPECIFICATION Spec
CONSTANTS
    MaxFileSize = 2
    MaxBatch = 2
    MaxDay = 1
    MaxRestarts = 2
    MaxWrites = 6
INVARIANTS
    TypeOK
    SizeBounded
    DaysBeginWithFirstFile
PROPERTY FilesOnlyGrow
CHECK_DEADLOCK FALSE

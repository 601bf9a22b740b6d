SPECIFICATION Spec
CONSTANTS
    empty = empty
    short = short
    blob = blob
    Empty = empty
    Strings <- MCStrings
    length <- MClength
    Utf8 <- MCUtf8
    MaxRecords = 3
INVARIANTS SizeExact RelayKeepsAll CallsReachTheirHandler
PROPERTIES ReadIsExact
CHECK_DEADLOCK FALSE

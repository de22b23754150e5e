SPECIFICATION LogSpec
CONSTANTS
    logMaxBufferSize = 2
    MaxEntries = 5
    MaxLogSessions = 3
INVARIANTS
    BooksBalance
    SentInOrder
CHECK_DEADLOCK FALSE

CONSTANTS
    Capacity = 2
    MaxMessages = 5
    Null = null
    FileSize = 2
    FileRows = 2
SPECIFICATION FairSpec
\* a logger restarted within one second may end the process
CHECK_DEADLOCK FALSE
INVARIANTS
    TypeOK
    AssertionsHold
    NothingLost
PROPERTIES
    AppendedIsWritten
    OwnerReturns

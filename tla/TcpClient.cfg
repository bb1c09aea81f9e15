CONSTANTS
    Fds = {5, 6, 7}
    None = None
    kInitretryDelay = 500
    kMaxRetryDelay = 50000
    MaxStarts = 1
    MaxEnds = 1
SPECIFICATION FairSpec
\* a loop with nothing left to do stays in poll
CHECK_DEADLOCK FALSE
INVARIANTS
    TypeOK
    NothingFails
    OneAttempt
PROPERTIES
    KeepsTrying

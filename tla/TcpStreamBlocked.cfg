CONSTANTS
    Junk = Junk
    kDefaultAllocSize = 2
    NUM_READ_IOVEC = 2
    NUM_WRITE_IOVEC = 2
    MaxIn = 4
    MaxOut = 8
    MaxSend = 4
SPECIFICATION Spec
\* the bounds on the bytes stop it
CHECK_DEADLOCK FALSE
INVARIANTS
    StopsWhenAllWritten

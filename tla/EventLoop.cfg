\* two calling threads and the loop's own, a socket channel, a blocking poll
CONSTANTS
    Functors = {f1, f2}
    Loop = loop
    Callers = {t1, t2}
    Wakeup = wakeup
    Ios = {io}
    PollBlocks = TRUE
SPECIFICATION FairSpec
INVARIANTS
    TypeOK
    PollIsWoken
PROPERTIES
    QueueSpec
    PendingIsRun
    StoppedLoopReturns

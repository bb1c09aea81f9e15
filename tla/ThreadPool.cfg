CONSTANTS
    MaxThreads = 3
    ThreadNums = {0, 1, 2}
    Callers = {c1, c2}
    Tasks = {t1, t2, t3}
    Limits = {0, 1, 2}
    None = None
SPECIFICATION FairSpec
INVARIANTS
    TypeOK
    QueueBounded
    NoStall
PROPERTIES
    DispatchedIsRun
    StopReturns

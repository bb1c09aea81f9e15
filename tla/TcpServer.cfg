CONSTANTS
    Conns = {c1, c2}
    Fds = {f1, f2}
    Base = base
    IoLoops = {io1}
    None = None
    Resets = FALSE
SPECIFICATION FairSpec
\* when every connection is gone nothing happens any more
CHECK_DEADLOCK FALSE
INVARIANTS
    TypeOK
    OpenIsRegistered
    NothingDangles
PROPERTIES
    PoolStarts
    ClosedIsDestroyed
    EndCloses

CONSTANTS
    Conns = {c1}
    Fds = {f1}
    Base = base
    IoLoops = {io1}
    None = None
    Resets = TRUE
SPECIFICATION Spec
\* when every connection is gone nothing happens any more
CHECK_DEADLOCK FALSE
INVARIANTS
    EraseFindsConnection

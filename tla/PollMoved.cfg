CONSTANTS
    w = w
    k1 = k1
    c1 = c1
    c2 = c2
    d2 = d2
    Channels <- MCChannels
    Fds = {3, 4, 5}
    FdOf <- MCFdOf
    Permanent = {w}
    Connectors = {k1}
    None = None
SPECIFICATION Spec
\* a process that has aborted takes no step
CHECK_DEADLOCK FALSE
INVARIANTS
    MovedChannelFound

CONSTANTS
    Timers = {t1, t2}
    Delays = {0, 1, 2}
    MaxTime = 4
    Never = never
    None = None
SPECIFICATION TimerFairSpec
\* the clock stops at MaxTime
CHECK_DEADLOCK FALSE
INVARIANTS
    TimerTypeOK
    ArmedInTime
    NothingDangles
    CancelledIsGone
PROPERTIES
    DueIsRun

CONSTANTS
    main = main
    io = io
    int = int
    quit = quit
    term = term
    Loops = {main, io}
    First = main
    Signos = {int, quit, term}
    Owner <- MCOwner
    Ignored = {}
    MaxSends = 3
SPECIFICATION FairSpec
\* a signal that nobody blocks ends the process
CHECK_DEADLOCK FALSE
INVARIANTS
    TypeOK
    SetIsBlocked
    NothingFails
PROPERTIES
    PendingIsHandled

SPECIFICATION SocketSpec
CONSTANTS
    Sizes = {1, 2, 3, 4}
    TakeModes = {FALSE}
    MaxBytes = 8
    MaxConns = 3
    ClosesAtEnd = TRUE
    SslClasses = {"smart", "ssl"}
    MaxSslConns = 2
    Objs = {o1, o2}
    Task = task
    Fds = {f1, f2}
    NoFd = nofd
    Evts = {e1, e2, e3}
    NoEvt = noevt
    MAX_GET_EVENTS = 2
    NDEBUG = FALSE
INVARIANTS NothingDropped SslToldInOrder SslPendingArmed
PROPERTIES IsByteStream PendingEnds SslProgress ExitEnds

SPECIFICATION FairTimerSpec
CONSTANTS
    Objs = {t1, k1}
    Task = task
    TaskTimers = {k1}
    Fds = {f1, f2, f3}
    NoFd = nofd
    Evts = {e1, e2, e3}
    NoEvt = noevt
    MAX_GET_EVENTS = 1
    NDEBUG = TRUE
    Msecs = {1}
    CreateFails = TRUE
PROPERTIES RegisteredExpiryServed

SPECIFICATION Spec
CONSTANTS
    Objs = {o1, o2}
    Task = task
    Fds = {f1, f2, f3}
    NoFd = nofd
    Evts = {e1, e2, e3, e4}
    NoEvt = noevt
    MAX_GET_EVENTS = 2
    NDEBUG = FALSE
SYMMETRY LoopSymmetry
INVARIANTS BatchSafe RegistrationsAgree NoEventLeak
PROPERTY CallbackLive

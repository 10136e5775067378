CONSTANTS
    Clients = {c1, c2}
    Owner = owner
    NoThread = NoThread
    DeadFrame = DeadFrame
    EventFds <- MCEventFds
    ResultCodes <- MCResultCodes
    MaxMsqQueSize = 2
    NDEBUG = TRUE
    SpuriousWakeups = FALSE
SPECIFICATION Spec
INVARIANTS PoolBound DanglesOnlyInDrain
SYMMETRY ClientSymmetry

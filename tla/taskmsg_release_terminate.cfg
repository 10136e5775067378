CONSTANTS
    Clients = {c1}
    Owner = owner
    NoThread = NoThread
    DeadFrame = DeadFrame
    EventFds <- MCEventFds
    ResultCodes <- MCResultCodes
    MaxMsqQueSize = 1
    NDEBUG = TRUE
    SpuriousWakeups = FALSE
SPECIFICATION FairSpec
PROPERTY TerminateReturns

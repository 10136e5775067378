CONSTANTS
    Clients = {c1, c2}
    Owner = owner
    NoThread = NoThread
    DeadFrame = DeadFrame
    EventFds <- MCEventFds
    ResultCodes <- MCResultCodes
    MaxMsqQueSize = 1
    NDEBUG = FALSE
    SpuriousWakeups = TRUE
SPECIFICATION FairSpec
PROPERTIES SendReturns TerminateReturns

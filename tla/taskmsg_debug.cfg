CONSTANTS
    Clients = {c1, c2}
    Owner = owner
    NoThread = NoThread
    DeadFrame = DeadFrame
    EventFds <- MCEventFds
    ResultCodes <- MCResultCodes
    MaxMsqQueSize = 2
    NDEBUG = FALSE
    SpuriousWakeups = FALSE
SPECIFICATION Spec
INVARIANTS TypeOK CountConservation NoLostWakeup SendOutcome
PROPERTY IsMailbox
SYMMETRY ClientSymmetry

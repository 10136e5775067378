SPECIFICATION PartsSpec
CONSTANTS
    Chunks = {k1, k2, k3}
    NULL = null
    Sizes = {1, 2, 3}
    MaxBytes = 7
    MaxConns = 2
    MaxHandle = 2
    Firsts = {0, 2}
    Periods = {1, 3}
    MaxTime = 4
    EventObjs = {o1, o2}
    MaxEvent = 2
    MaxPosts = 4
    Blocks = 4
    QSize = 2
    MaxOpens = 2
    Digits = {1, 200}
    Widths = {1, 2}
    StartSize = 1
    DoubleLimit = 2
    RoundUnit = 2
    MaxSize = 3
    RingSize = 3
    RingBytes = 5
    Lists = {l1, l2}
    Nodes = {n1, n2, n3}
    Nil = nil
    ViewTasks = {"view1", "view2"}
    ViewClients = {"client"}
    NoThread = nothread
    Ques = {"que1", "que2"}
    QueTask <- MCQueTask
    CanSend <- MCCanSend
    MaxViews = 3
    MaxPending = 2
    MaxMsgs = 3
INVARIANTS ChunksConserved ArmedWhileWaiting PoolDeadlinesKept EventsIntact
INVARIANTS ReadsAhead NumbersReadBack RingIsFifo ListIsSequence ListenerIsMeant
PROPERTIES CompletedInOrder IsByteStream PacketEnds QueSendReturns

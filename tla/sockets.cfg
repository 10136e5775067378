SPECIFICATION FairSpec
CONSTANTS
    Listeners = {l1}
    Clients = {c1, c2}
    UnixClients = {c2}
    NoSock = nosock
    MaxIn = 1
    MAX_GET_EVENTS = 2
    CrossCalls = FALSE
INVARIANT StatusAgrees
PROPERTIES DisconnectTruthful DisconnectedOnce ClosesWhatEnded
PROPERTIES ConnectAnswered EndIsSeen

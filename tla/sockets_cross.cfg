SPECIFICATION Spec
CONSTANTS
    Listeners = {l1}
    Clients = {c1, c2}
    UnixClients = {}
    NoSock = nosock
    MaxIn = 1
    MAX_GET_EVENTS = 1
    CrossCalls = TRUE
SYMMETRY ClientSymmetry
PROPERTY DisconnectTruthful

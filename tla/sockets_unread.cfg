SPECIFICATION Spec
CONSTANTS
    Listeners = {l1}
    Clients = {c1, c2}
    UnixClients = {}
    NoSock = nosock
    MaxIn = 2
    MAX_GET_EVENTS = 1
    CrossCalls = FALSE
SYMMETRY ClientSymmetry
PROPERTY DisconnectAfterData

CONSTANTS
    App = {a1}
    Proc = {p1, p2}
    None = None
    Settings = {s1}
    ConnectedCalls = {}
    DisconnectedCalls = {}
    EventQueueSize = 1
    MaxMessages = 0
    CreateMayFail = FALSE
SPECIFICATION Spec
PROPERTY SessionStartsClean

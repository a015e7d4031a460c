CONSTANTS
    App = {a1}
    Proc = {p1, p2}
    None = None
    Settings = {s1}
    ConnectedCalls = {"command"}
    DisconnectedCalls = {"start"}
    EventQueueSize = 1
    MaxMessages = 1
    CreateMayFail = FALSE
SPECIFICATION FairSpec
PROPERTIES FailedSessionEnds CallsReturn EventsDrained ImplementsFairSession

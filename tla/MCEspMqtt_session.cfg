CONSTANTS
    App = {a1, a2}
    Proc = {p1, p2, p3}
    None = None
    Settings = {s1, s2}
    ConnectedCalls = {"lwt", "command"}
    DisconnectedCalls = {"start", "stop"}
    EventQueueSize = 1
    MaxMessages = 2
    CreateMayFail = FALSE
SPECIFICATION Spec
SYMMETRY Symmetry
INVARIANTS TypeOK LocksMatch SingleSession RunningHasProcess ConnectedHasProcess SocketInUse
    PipelineOrdered
PROPERTIES SettingsStable NoSilentLoss ImplementsSession

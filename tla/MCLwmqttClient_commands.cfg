CONSTANTS
    MaxId = 2
    MaxCommands = 3
    MaxInbound = 1
SPECIFICATION Spec
INVARIANTS TypeOK CommandDone PingBalance InboundHandled

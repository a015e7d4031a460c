CONSTANTS
    MaxId = 3
    MaxCommands = 2
    MaxInbound = 0
SPECIFICATION Spec
PROPERTY PublishAcked

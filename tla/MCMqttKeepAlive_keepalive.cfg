CONSTANTS
    KeepAlive = 8
    Timeout = 2
    MaxCallback = 1
    MaxDelay = 4
    MaxFlight = 2
    Modulus = 32
SPECIFICATION Spec
INVARIANTS TimerTrue WritesInTime DeadPeerNoticed LivePeerKept YieldHasData

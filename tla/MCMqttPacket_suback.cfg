CONSTANTS
    ReadSize = 7
    WriteSizes = {16, 129}
    MaxCount = 2
    MaxPackets = 1
    Requests <- SmallRequests
    Arrivals <- SmallArrivals
    Garbage = {1}
SPECIFICATION Spec
INVARIANT SubackFits

CONSTANTS
    ReadSize = 7
    WriteSizes = {16, 129}
    MaxCount = 2
    MaxPackets = 2
    Requests <- SmallRequests
    Arrivals <- SmallArrivals
    Garbage = {1}
SPECIFICATION Spec
INVARIANTS TypeOK FrameExact EncodeFits FlagsAnnounce OwnReadable FreshOnly PublishLossless

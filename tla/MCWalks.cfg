SPECIFICATION WalksSpec
CONSTANTS
    FixedSize = 2
    Packets <- AllPackets
    MaxReadBytes = 64
    Frames <- AllFrames
    NoFrame = NoFrame
    Arrivals <- AllArrivals
    MaxReads = 2
INVARIANT TypeOK
INVARIANT RecordAsSent
PROPERTY ReachesEnd
INVARIANT FrameTypeOK
INVARIANT SavedAsSent

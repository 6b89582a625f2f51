SPECIFICATION FairSpec
CONSTANTS
    d1 = d1
    d2 = d2
    None = None
    Imei = {d1, d2}
    Frame <- AllFrames
    MaxFrames = 3
INVARIANTS FramesIntact FramingInv NothingWaits ChunkingInvisible
PROPERTIES ImplementsStream LoopTerminates EveryPacketTaken
CHECK_DEADLOCK FALSE

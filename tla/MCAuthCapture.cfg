SPECIFICATION FairSpec
CONSTANTS
    Helpers = {h1, h2}
    BufferCount = 2
    SeqMod = 3
    MaxDiscards = 1
    NoFrame = NoFrame
    Requested = 2
    FrameParts = 2
    PipeSize = 2
INVARIANTS TypeOK ExclusiveCapture SuccessMeansFrames BuffersReturned
PROPERTY HelperEnds

SPECIFICATION Spec
CONSTANTS
    Bufs = {b1}
    NoBuf = NoBuf
    MaxRetry = 1
    CmdSlots = 2
    RespSlots = 2
    MaxWaiters = 1
    Refuses = {}
    NoMem = FALSE
    FastFrames = FALSE
INVARIANT NoStaleStream

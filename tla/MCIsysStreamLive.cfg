SPECIFICATION FairSpec
CONSTANTS
    Bufs = {b1}
    NoBuf = NoBuf
    MaxRetry = 1
    CmdSlots = 1
    RespSlots = 1
    MaxWaiters = 1
    Refuses = {"open", "start", "stop", "close", "capture"}
    NoMem = TRUE
    FastFrames = FALSE
PROPERTY CallsReturn

SPECIFICATION Spec
CONSTANTS
    Bufs = {b1, b2}
    NoBuf = NoBuf
    MaxRetry = 1
    CmdSlots = 2
    RespSlots = 1
    MaxWaiters = 1
    Refuses = {"start", "stop", "close"}
    NoMem = FALSE
    FastFrames = TRUE
SYMMETRY Symmetry
INVARIANTS TypeOK OwnedOnce ReturnedInContext QuietWhenStopped DmaOnlyWhileActive NothingStranded
PROPERTY StartIsVerified

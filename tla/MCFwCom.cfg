SPECIFICATION Spec
CONSTANTS
    QueueSize = 2
    Msgs = {m1, m2}
    None = None
    Limit = 2
INVARIANT TypeOK
PROPERTIES RecvIsFifo SendIsFifo

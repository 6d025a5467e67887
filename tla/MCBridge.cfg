SPECIFICATION FairSpec
CONSTANTS
    Slots = {s1}
    Pids = {p1}
    NoPid = NoPid
    TermRefused = TRUE
    Endpoints = {front}
    QueueMax = 1
    IdleScan = 2
    ScanFails = TRUE
INVARIANTS TypeOK EveryWorkerSupervised OrphanNeverStarts StaleOnlyWithEvent
PROPERTIES OperationsReturn WorkersCollected MaskConverges

SPECIFICATION ButtressSpec
CONSTANTS
    Threads = {t1}
    None = None
    SendRetry = 1
    CseDepth = 2
PROPERTIES AuthRecovers AuthEnds

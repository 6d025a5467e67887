SPECIFICATION Spec
CONSTANTS
    Threads = {t1, t2}
    None = None
    SendRetry = 1
    CseDepth = 1
    AuthRetries = 1
    PowerFails = TRUE
INVARIANTS TypeOK RefsBalanced OpenHasFirmware FailureRemembered

CONSTANTS
    OpenDebounce = 1
    CloseGrace = 1
    RetryBase = 1
    RetryMax = 1
    MaxShift = 0
SPECIFICATION FairSpec
PROPERTY RearRequestWins

\* What the mismatch warning says about the info that is used.
CONSTANTS
    Count = 1
    NumInfo = 2
    MaxFrame = 4
    MaxDumps = 1
    NoInfo = NoInfo
SPECIFICATION Spec
CHECK_DEADLOCK FALSE
PROPERTIES LatestInfoOnMismatch

\* Two sessions started and stopped from the keyboard, 'r' and 'q' at any time.
CONSTANTS
    v1 = v1
    v2 = v2
    o1 = o1
    o2 = o2
    NULL = NULL
    ViBufs <- MCViBufs
    CppBufs <- OneCppBuf
    NumInfo = 1
    AutoRun = FALSE
    TestFrame = 0
    DumpFrame = 0
    MaxFrame = 1
    MaxSessions = 2
SPECIFICATION Spec
SYMMETRY ViSymmetry
CHECK_DEADLOCK FALSE
INVARIANTS NoUseAfterFree
PROPERTIES LossOnlyWhenStopped

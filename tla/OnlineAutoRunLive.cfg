\* An automatic run under fairness: the test frame leads to the end, and waiting frames are taken.
CONSTANTS
    v1 = v1
    v2 = v2
    o1 = o1
    o2 = o2
    NULL = NULL
    ViBufs <- MCViBufs
    CppBufs <- OneCppBuf
    NumInfo = 1
    AutoRun = TRUE
    TestFrame = 3
    DumpFrame = 1
    MaxFrame = 3
    MaxSessions = 1
SPECIFICATION FairSpec
CHECK_DEADLOCK FALSE
PROPERTIES TestFrameEndsRun WaitingFrameTaken

\* An automatic run: one session, ended by frame 3.
CONSTANTS
    v1 = v1
    v2 = v2
    o1 = o1
    o2 = o2
    NULL = NULL
    ViBufs <- MCViBufs
    CppBufs <- MCCppBufs
    NumInfo = 2
    AutoRun = TRUE
    TestFrame = 3
    DumpFrame = 2
    MaxFrame = 4
    MaxSessions = 1
SPECIFICATION Spec
SYMMETRY MCSymmetry
CHECK_DEADLOCK FALSE
INVARIANTS TypeOK ViBufferExclusive OutBufferAccounted NoNullPost FramesInOrder
PROPERTIES InfoOutlivesItsFrames

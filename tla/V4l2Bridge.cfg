\* Up to two output buffers, any request at any time.
CONSTANTS
    MaxCount = 2
    NumVi = 2
    NumInfo = 1
    MaxInfos = 1
SPECIFICATION LiveSpec
CHECK_DEADLOCK FALSE
INVARIANTS TypeOK BufferHeldOnce ListsOutliveThread
PROPERTIES RequestAnswered

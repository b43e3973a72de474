\* What the comment on List_Pop_With_Cond says of its result.
CONSTANTS
    MaxCount = 2
    NumVi = 2
    NumInfo = 1
    MaxInfos = 1
SPECIFICATION Spec
CHECK_DEADLOCK FALSE
INVARIANTS WakeUpFindsBuffer

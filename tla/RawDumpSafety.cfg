\* Two dumps of one frame each.
CONSTANTS
    Count = 1
    NumInfo = 2
    MaxFrame = 4
    MaxDumps = 2
    NoInfo = NoInfo
SPECIFICATION FairSpec
CHECK_DEADLOCK FALSE
INVARIANTS TypeOK DumpIsFresh FreedWhenReturned
PROPERTIES DumpReturns

SPECIFICATION Spec
CONSTANTS
    raw1 = raw1
    raw2 = raw2
    out1 = out1
    out2 = out2
    cpp1 = cpp1
    info1 = info1
    info2 = info2
    Raws = {raw1, raw2}
    Outs = {out1, out2}
    CppOuts = {cpp1}
    Infos = {info1, info2}
    MaxFrame = 2
    MaxIspFrame = 3
    NULL = NULL
INVARIANTS
    TypeOK
    RawReadAlone
    InfoInOnePlace
    OnlyRacesCrash
    CppHasItsInfo
    LoweredFlagIsAnswered
SYMMETRY Symmetry
CHECK_DEADLOCK FALSE

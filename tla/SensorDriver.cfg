SPECIFICATION Spec
CONSTANTS
    Modes <- MCModes
    Lines <- MCLines
    ExpoTimes <- MCExpoTimes
    AGains <- MCAGains
    DGains <- MCDGains
    Word = 8192
    Milli = 10
    Adjust = 8
    LinesMin = 4
    LinesMax = 40
    AMin = 1
    AMax = 3
    DMin = 1
    DMax = 3
INVARIANTS
    TypeOK
    DeliveredIsCurrent
    ExposureFits
PROPERTIES
    RateHeld

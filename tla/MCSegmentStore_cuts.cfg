\* Power cuts only, under fairness; the fifth id is drawn with a full manifest.
SPECIFICATION FairSpec
CONSTANTS
    MaxSeg = 5
    MaxBytes = 2
    Ceiling = 4
    MaxCrash = 2
    FaultKinds = {}
    MaxFault = 0
    MaxHost = 0
INVARIANTS CrashSafe RoomReserved
PROPERTY EventuallyIndexed

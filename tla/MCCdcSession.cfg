SPECIFICATION SessionSpec
CONSTANTS
    Commands = {"SET_TIME", "RELEASE_STORAGE"}
    MaxBytes = 4
    MaxConn = 2
    MaxLineState = 1
INVARIANTS
    TypeOK
    AdmissionIsExact
    NoStaleCommand
    ResetIsBarrier
    NothingAfterRelease
CHECK_DEADLOCK FALSE

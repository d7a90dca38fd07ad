SPECIFICATION FairSpec
CONSTANTS
    Commands = {"SET_TIME", "RELEASE_STORAGE"}
    MaxBytes = 2
    MaxConn = 3
    MaxLineState = 0
PROPERTIES
    CallsReturn
    ReleaseHandled
CHECK_DEADLOCK FALSE

\* The interface starts late, and a reset runs into its opening of the session.
SPECIFICATION LateSpec
CONSTANTS
    Commands = {"SET_TIME"}
    MaxBytes = 3
    MaxConn = 2
    MaxLineState = 0
INVARIANT RacingReopen
CHECK_DEADLOCK FALSE

SPECIFICATION MCSpec
CONSTANTS
    a = a
    b = b
    r1 = r1
    r2 = r2
    None = None
    Foreign = Foreign
    Devices = {a, b}
    Recordings = {r1, r2}
    Holds <- HoldsBoth
    Plugged = a
    Chunks = 2
    MaxFault = 1
    MaxForeign = 1
    MaxRuns = 2
    MaxMoves = 6
    MaxCrash = 1
INVARIANTS TypeOK LibraryIsSound ReasonIsTrue
PROPERTIES RequestIsSafe CommandReturns
CHECK_DEADLOCK FALSE

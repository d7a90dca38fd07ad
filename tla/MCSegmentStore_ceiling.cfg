\* The second segment meets the ceiling: nothing fails, nothing is cut.
SPECIFICATION Spec
CONSTANTS
    MaxSeg = 2
    MaxBytes = 2
    Ceiling = 2
    MaxCrash = 0
    FaultKinds = {}
    MaxFault = 0
    MaxHost = 0
INVARIANT OneEntryPerWav

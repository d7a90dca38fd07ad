\* No operation fails and the stop is asked for while the writer rotates.
SPECIFICATION FairSpec
CONSTANTS
    SlotSize = 2
    ReadSize = 2
    DmaQueue = 1
    MaxSample = 5
    MaxFault = 0
INVARIANT DrainThenExit

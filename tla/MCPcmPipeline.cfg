\* Reads that straddle the slots, room for both slots to be full while more comes.
SPECIFICATION FairSpec
CONSTANTS
    SlotSize = 2
    ReadSize = 2
    DmaQueue = 1
    MaxSample = 5
    MaxFault = 1
INVARIANTS TypeOK Gapless LossEndsInError
PROPERTIES CardWhileMounted StopEnds

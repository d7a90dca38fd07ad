SPECIFICATION FairSpec
CONSTANTS
    MaxBoots = 3
INVARIANTS
    TypeOK
    OneOwner
    ExposedStaysUnmounted
    PublishedFinalized
    UsbNeedsProof
PROPERTIES
    ReleaseOnlyByCommand
    WakeNeedsFreshRecording
    TurnsAreKept
    JoinReturns
    Resolves
CHECK_DEADLOCK FALSE

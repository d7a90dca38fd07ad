\* Two failing file operations of any kind, two power cuts and one change by
\* the host, anywhere; the third segment meets the ceiling of the manifest.
SPECIFICATION Spec
CONSTANTS
    MaxSeg = 3
    MaxBytes = 4
    Ceiling = 3
    MaxCrash = 2
    FaultKinds = {"io", "open", "short", "truncate", "full"}
    MaxFault = 2
    MaxHost = 1
INVARIANTS TypeOK HealthyIsComplete
PROPERTIES AppendOnly CheckpointKept

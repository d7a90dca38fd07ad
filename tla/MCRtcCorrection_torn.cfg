\* One correction, one power cut, which may leave an incomplete line.
SPECIFICATION FairSpec
CONSTANTS
    Requests <- SomeRequests
    MaxSet = 1
    MaxCrash = 1
    FaultKinds = {"tear"}
    MaxFault = 0
PROPERTY LoggedInTheEnd

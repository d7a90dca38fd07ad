\* Three corrections with two power cuts and three failing operations anywhere.
SPECIFICATION FairSpec
CONSTANTS
    Requests <- SomeRequests
    MaxSet = 3
    MaxCrash = 2
    FaultKinds = {"i2c", "nvs", "io", "tear", "clock"}
    MaxFault = 3
INVARIANTS TypeOK RestoredExactly OneEvent AnsweredIsKept ClockAsAnswered
PROPERTIES LoggedUnlessJunk

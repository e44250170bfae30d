SPECIFICATION FairSpec
CONSTANTS
    None = None
    Foreign = Foreign
    Registered = Registered
    WorkPoints = {"resting", "closing", "interrupted"}
    CrashPoints = {"elsewhere", "half-removed"}
    MaxOpens = 3
    MaxCrashes = 2
    MaxFaults = 2
    MaxHuman = 3
CHECK_DEADLOCK FALSE
INVARIANTS
    ReadyIsWhole
    ClosedLeavesNothing
    FailedOpenLeavesNothing
PROPERTIES
    ForeignSpared
    CloseResumes

\* The one violation: a close resumed after work was done in the checkout.
SPECIFICATION Spec
CONSTANTS
    None = None
    Foreign = Foreign
    Registered = Registered
    WorkPoints = {"resting", "interrupted"}
    CrashPoints = {"elsewhere"}
    MaxOpens = 3
    MaxCrashes = 2
    MaxFaults = 2
    MaxHuman = 3
CHECK_DEADLOCK FALSE
PROPERTIES
    WorkProtected

SPECIFICATION FairSpec
CONSTANTS
    Op = {o1, o2, o3}
    NKeys = 3
    KeySets <- MCKeySets
INVARIANTS
    NoWaitCycle
PROPERTIES
    EventuallyGranted

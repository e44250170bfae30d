CONSTANTS
    d1 = d1
    d2 = d2
    a = a
    b = b
    Dest <- TwoPaths
    Content <- TwoContents
    NCommits = 2
    Absent = Absent
    None = None
    CrashPoints = {"elsewhere", "restored"}
    MaxRuns = 3
    MaxCommits = 1
    MaxAnnotates = 0
    MaxCrashes = 2
    MaxFaults = 1
    MaxEdits = 0
SPECIFICATION Spec
SYMMETRY Symmetry
INVARIANTS Restorable
PROPERTIES ImplementsAtomic

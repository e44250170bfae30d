CONSTANTS
    d1 = d1
    d2 = d2
    a = a
    b = b
    Dest <- TwoPaths
    Content <- TwoContents
    NCommits = 2
    Absent = Absent
    None = None
    CrashPoints = {"elsewhere"}
    MaxRuns = 2
    MaxCommits = 1
    MaxAnnotates = 1
    MaxCrashes = 1
    MaxFaults = 1
    MaxEdits = 1
SPECIFICATION Spec
SYMMETRY Symmetry
INVARIANTS RefusesOnlyForeign
PROPERTIES NotesAllOrNothing

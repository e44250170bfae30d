\* Known divergence, TLC finds a violation: killed between replacing a patch and flagging it.
CONSTANTS
    d1 = d1
    d2 = d2
    a = a
    b = b
    Dest <- TwoPaths
    Content <- TwoContents
    NCommits = 2
    Absent = Absent
    None = None
    CrashPoints = {"unmarked"}
    MaxRuns = 2
    MaxCommits = 1
    MaxAnnotates = 0
    MaxCrashes = 1
    MaxFaults = 0
    MaxEdits = 0
SPECIFICATION Spec
SYMMETRY Symmetry
PROPERTIES ImplementsAtomic

\* Two runs, one after the other or at the same time.
SPECIFICATION Spec
CONSTANTS
    base = base
    derived = derived
    work = work
    c1 = c1
    c2 = c2
    c3 = c3
    b1 = b1
    b2 = b2
    b3 = b3
    p1 = p1
    p2 = p2
    Null = Null
    Proc = {p1, p2}
    Revision = {base, derived, work}
    Local = {work}
    LocalPin <- McLocalPin
    Commit = {c1, c2, c3}
    Path = {1, 2}
    Blob = {b1, b2, b3}
    TreeOf <- McTreeOf
    Manifests <- McManifests
    Selections <- McSelections
    Version = {1, 2}
    MixedOverlap = FALSE
    MaxRuns = 2
INVARIANTS RowsMatchPins OkIsRebuilt RestKept LocalKept
SYMMETRY McSymmetry
CHECK_DEADLOCK FALSE

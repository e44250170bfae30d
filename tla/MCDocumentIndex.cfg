\* Four runs of two processes and one change of a file between them.
SPECIFICATION Spec
CONSTANTS
    guide = guide
    manual = manual
    notes = notes
    a = a
    b = b
    c = c
    v1 = v1
    v2 = v2
    p1 = p1
    p2 = p2
    Null = Null
    Proc = {p1, p2}
    Document = {guide, manual, notes}
    FilePath = {1, 2, 3}
    Content = {a, b, c}
    Broken = {c}
    Manifests <- McManifests
    Extractors = {v1, v2}
    Requests <- McRequests
    FilesMove = FALSE
    MaxRuns = 4
    MaxEdits = 1
SYMMETRY McSymmetry
INVARIANTS OutcomeAgrees FailureKeepsRow Converges
CHECK_DEADLOCK FALSE

\* Two runs, with kills, and two steps of humans or of upstream.
SPECIFICATION Spec
CONSTANTS
    base = base
    derived = derived
    further = further
    x1 = x1
    x2 = x2
    x3 = x3
    w1 = w1
    w2 = w2
    c1 = c1
    c2 = c2
    p1 = p1
    p2 = p2
    None = None
    Mine = Mine
    Proc = {p1, p2}
    Revision = {base, derived, further}
    DerivedFrom <- McDerivedFrom
    PatchesOf <- McPatchesOf
    Patch = {x1, x2, x3}
    Fetchable = {x1, x3}
    Worktree = {w1, w2}
    RevisionOf <- McRevisionOf
    Manifests <- McManifests
    Upstream <- McUpstream
    MaxRuns = 2
    MaxEdits = 2
INVARIANTS DoneIsChecked FailsForReason
SYMMETRY McSymmetry
PROPERTY HumanWorkKept
CHECK_DEADLOCK FALSE

\* Known divergence, TLC finds a violation: detach and close of one workspace overlap.
SPECIFICATION Spec
CONSTANTS
    w1 = w1
    w2 = w2
    c1 = c1
    c2 = c2
    p1 = p1
    p2 = p2
    Proc = {a, b}
    Config = {c1, c2}
    Package = {p1}
    Workspace = {w1, w2}
    PackageOf <- OnePackage
    OriginOf <- FromFirst
    Contents <- NoContents
    Elsewhere = Elsewhere
    NoFile = NoFile
    None = None
    MaxOps = 4
    MaxCrashes = 0
    CrashPoints <- Anywhere
INVARIANTS
    BlocksMatchRows

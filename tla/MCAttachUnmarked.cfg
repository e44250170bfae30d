SPECIFICATION Spec
CONSTANTS
    w1 = w1
    w2 = w2
    c1 = c1
    c2 = c2
    p1 = p1
    p2 = p2
    Proc = {a, b, c}
    Config = {c1}
    Package = {p1}
    Workspace = {w1, w2}
    PackageOf <- OnePackage
    OriginOf <- FromFirst
    Contents <- SomeContents
    Elsewhere = Elsewhere
    NoFile = NoFile
    None = None
    MaxOps = 2
    MaxCrashes = 1
    CrashPoints <- Anywhere
INVARIANTS
    BlocksMatchRows

\* Known divergence, TLC finds a violation: two packages of one configuration rewrite one override file.
SPECIFICATION Spec
CONSTANTS
    w1 = w1
    w2 = w2
    c1 = c1
    c2 = c2
    p1 = p1
    p2 = p2
    Proc = {a, b}
    Config = {c1}
    Package = {p1, p2}
    Workspace = {w1, w2}
    PackageOf <- TwoPackages
    OriginOf <- FromFirst
    Contents <- FewContents
    Elsewhere = Elsewhere
    NoFile = NoFile
    None = None
    MaxOps = 2
    MaxCrashes = 0
    CrashPoints <- Anywhere
INVARIANTS
    BlocksMatchRows

SPECIFICATION Spec
CONSTANTS
    Directories = {1, 2}
    Base = 5
    PadTo = 1
    NoNumber = NoNumber
    Refused = Refused
    Imports <- McImports
    Destinations <- McDestinations
    MaxCommits = 4
    MaxEdits = 3
INVARIANTS NothingOverwritten ReplanIsStable RefusalIsForced
CHECK_DEADLOCK FALSE

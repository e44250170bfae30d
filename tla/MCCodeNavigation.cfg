SPECIFICATION Spec
CONSTANTS
    b1 = b1
    b2 = b2
    None = None
    Blob = {b1, b2}
    Sources <- McSources
    Histories <- McHistories
    Symbols = {1, 2}
    Limits = {1, 2}
    MatchLimit = 2
    Contexts = {0, 1}
    LineBudgets = {2, 9}
    CharBudgets = {6, 20}
    MaxAsked = 2
    MaxAnalyses = 3
INVARIANTS PagesComplete HistoryFaithful SourceComplete ScopesTrue ViewsAgree
CHECK_DEADLOCK FALSE

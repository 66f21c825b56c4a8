SPECIFICATION Spec
CONSTANTS
    Tabs = {t1, t2}
    Calls = {c1, c2}
    HistorySize = 1
    Roles = {staff, owner}
    MaxTokens = 3
    MaxVersion = 1
    None = None
SYMMETRY Symmetry
CHECK_DEADLOCK FALSE
INVARIANTS
    SessionsAreSound
PROPERTIES
    RefreshedTokensAreGood
    ImplementsLife

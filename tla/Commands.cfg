SPECIFICATION CommandsSpec
CONSTANTS
    Procs = {p1, p2}
    Checkouts <- OneBranch
    Contexts <- RedmineContexts
    Configs <- MovingRedmine
    Trackers <- TwoRedmines
    Numbers = {5}
    DefaultBranch = None
    MaxCalls = 3
    MaxMoves = 1
    c1 = c1
    c2 = c2
    None = None
    Legacy = Legacy
    Ambiguous = Ambiguous
    Refused = Refused
SYMMETRY Symmetry
INVARIANTS TaskIsKept ServedAsTyped
CHECK_DEADLOCK FALSE

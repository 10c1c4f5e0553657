CONSTANTS
    p1 = p1
    main = main  t1 = t1
    i1 = i1  i2 = i2
    r = r  k = k  f = f
    forgejo = forgejo
    NoScope = NoScope
    NoSession = NoSession
    MaxClock = 0
    QueryLimit = 1
    Projects = {forgejo}
    Paths = {main, t1}
    Main = main
    Parent <- MCParent
    MaxParentEdges = 2
    PollBudget = 1
    MaxLeases = 2
    Issues = {i1}
    Sessions = {r, f}
    OpenCode = {r, f}
    Scopes <- NoScopes
    Passes = {p1}
    Modes = {"prune"}
    Events = {"acquire", "issues", "files", "sessions", "release"}
SPECIFICATION CleanupSpec
PROPERTIES RemovalEvidenceFresh PinnedNotRemoved OnlyFamilyMoved ReleasedAfterRemoval
CHECK_DEADLOCK FALSE

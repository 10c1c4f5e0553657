CONSTANTS
    p1 = p1
    main = main  t1 = t1
    i1 = i1  i2 = i2
    r = r  k = k  f = f
    forgejo = forgejo
    NoScope = NoScope
    NoSession = NoSession
    MaxClock = 0
    QueryLimit = 1
    Projects = {forgejo}
    Paths = {main, t1}
    Main = main
    Parent <- MCParent
    MaxParentEdges = 2
    PollBudget = 1
    MaxLeases = 1
    Issues = {i1, i2}
    Sessions = {r, f}
    OpenCode = {r}
    Scopes <- MCScopes
    Passes = {p1}
    Modes = {"report"}
    Events = {"acquire", "release", "issues"}
SPECIFICATION ReportSpec
PROPERTIES ReportNeverRemoves
CHECK_DEADLOCK FALSE

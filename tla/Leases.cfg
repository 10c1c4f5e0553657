CONSTANTS
    main = main  t1 = t1
    i1 = i1
    s1 = s1  s2 = s2
    forgejo = forgejo
    NoScope = NoScope
    MaxLeases = 2
    MaxClock = 2
    QueryLimit = 1
    Issues = {i1}
    Sessions = {s1, s2}
    Paths = {main, t1}
    Projects = {forgejo}
    Scopes <- MCScopes
    Clients = {c1, c2}
    Main = main
    Commands = {"acquire", "heartbeat", "recover", "absent"}
    Options = {"auto"}
    StaleAfter = 0
SYMMETRY Symmetry
SPECIFICATION LeasesSpec
INVARIANTS ActivePathUnique NoScopedOverUnscoped TreesAccounted
PROPERTIES TerminalIsFinal CloseLeavesNoneActive FreshNeverRecovered AbsentIsProven
CHECK_DEADLOCK FALSE

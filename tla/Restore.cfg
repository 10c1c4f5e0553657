CONSTANTS
    c1 = c1  c2 = c2
    i1 = i1
    main = main  b1 = b1
    root = root  x1 = x1
    Clients = {c1, c2}
    Known = {c1}
    Issues = {i1}
    Main = main
    BranchOf <- Branch
    Commits = {root, x1}
    Root = root
    Tracked = {TRUE}
    MaxMoves = 2
    MaxFaults = 1
SPECIFICATION FairSpec
INVARIANT MovesAreProven
PROPERTIES NothingLost ComesHome
CHECK_DEADLOCK FALSE

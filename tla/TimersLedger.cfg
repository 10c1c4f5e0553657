CONSTANTS
    c1 = c1  c2 = c2
    r1 = r1  r2 = r2
    i1 = i1
    Free = Free
    Legacy = Legacy
    Clients = {c1, c2}
    Issues = {i1}
    Results = {"DONE", "FAILED"}
    AutoCap = 2
    Runs = {r1, r2}
    Commands = {"start", "finish", "recover", "status", "close"}
    Targets = {"redmine", "local", "none"}
    Faults = {"http", "lost", "late", "busy", "kill"}
    MaxFaults = 2
    Inherited = {"DONE"}
SPECIFICATION Spec
INVARIANT SyncedIsBooked
SYMMETRY Symmetry
CHECK_DEADLOCK FALSE

CONSTANTS
    c1 = c1  c2 = c2
    r1 = r1
    i1 = i1
    NoScope = NoScope
    Free = Free
    Legacy = Legacy
    Clients = {c1, c2}
    Issues = {i1}
    Results = {"DONE", "FAILED"}
    AutoCap = 2
    Runs = {r1}
    Commands = {"start", "finish", "recover", "status", "close"}
    Targets = {"redmine"}
    Faults = {"http", "lost", "busy", "kill"}
    MaxFaults = 3
    Inherited = {"DONE"}
SPECIFICATION EndingsSpec
PROPERTIES BookedOnce EventuallySynced PassEnds
CHECK_DEADLOCK FALSE

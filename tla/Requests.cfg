SPECIFICATION RequestsSpec
CONSTANTS
    Procs = {p1, p2}
    Requests <- OneKey
    Texts = {"a"}
    Providers = {"redmine", "local"}
    Tokens = {"k1", "P1", "scan"}
    RECOVERY_ATTEMPTS = 1
    MaxComments = 2
    MaxCalls = 3
    None = None
    Refused = Refused
SYMMETRY Symmetry
INVARIANTS RecordsAgree FiledAsAsked WholeList
PROPERTIES BodyKept SuccessIsKept WritesStayInProject
CHECK_DEADLOCK FALSE

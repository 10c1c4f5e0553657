SPECIFICATION TalkSpec
CONSTANTS
    Procs = {p1, p2}
    Commands <- StatusLines
    Providers = {"redmine", "forgejo", "local"}
    Installed = {"New", "In Progress", "In Review", "Resolved", "Closed", "Cancelled", "Triaged"}
    CloseStatus = "Closed"
    MaxOthers = 1
    MaxRuns = 2
    None = None
INVARIANTS MovesAreReal SettingsAreBacked
PROPERTIES Converges
CHECK_DEADLOCK FALSE

----------------------------- MODULE MCLocal --------------------------------
(* The state phasegent keeps beside the repositories it works on: the database  *)
(* of settings (Settings), leases as issue sync (Sync) and the worktree commands *)
(* (Desk) read and write them, branch links (Branches), and the hooks and        *)
(* plugins it installs (Hooks, Plugin).  No part reads another's state, so each   *)
(* is explored on its own; part says which.                                       *)
EXTENDS Desk, TLC

CONSTANTS p1, p2, l1, l2, l3, r1, r2, d1, d2, k1, k2, n1, s1, s2, sA, sB, pl, Malformed

VARIABLES
    part,
    schema, lock, provider, close, forgejo, cred, base, default, toml, runs, edits,
    answers, remote, dirs, homes, hosted, pass, passes, faults, links, refs, head,
    origin, cached, store, create, commit, commits, file, backup, unsafe, placed,
    installs, run

syncVars == <<rows, remote, dirs, homes, hosted, pass, passes, changes, faults>>
branchVars == <<links, refs, head, origin, cached, store, create, commit, changes, commits>>
world == <<schema, lock, provider, close, legacy, forgejo, cred, base, default, toml,
           proc, runs, edits, answers, rows, remote, dirs, homes, hosted, pass, passes,
           changes, faults, links, refs, head, origin, cached, store, create, commit,
           commits, tasks, closed, walk, commands, file, backup, unsafe, placed, installs,
           run>>
-----------------------------------------------------------------------------
(* Settings: two roles, one of which runs commands. *)

AgentRoles == {"r1", "r2"}
Cmd(op) == [op |-> op, role |-> "r1", env |-> None, flag |-> None]
SetupCmd(kind, address, id) ==
    [op |-> "setup", role |-> "r1", kind |-> kind, address |-> address, close |-> id, env |-> None, flag |-> None]
SetCmd(setting, value) == [op |-> "set", role |-> "r1", setting |-> setting, value |-> value, env |-> None, flag |-> None]
ClearCmd(setting) == [op |-> "clear", role |-> "r1", setting |-> setting, env |-> None, flag |-> None]
AdminCommands ==
    {SetupCmd("redmine", "A/", "5"), SetupCmd("redmine", "bad", None), SetupCmd("redmine", None, "word")}
      \cup {SetupCmd("forgejo", "B", None), SetupCmd("local", None, None)}
      \cup {SetCmd("provider", "redmine"), SetCmd("api-base", "B"), SetCmd("close-status", "0"),
            ClearCmd("provider"), ClearCmd("api-base"), SetCmd("default", "local"), ClearCmd("default")}
      \cup {Cmd("resolve"), Cmd("admit"), Cmd("show"), [Cmd("resolve") EXCEPT !.env = "E"],
            [op |-> "bootstrap", role |-> "r1", close |-> "5", env |-> None, flag |-> None]}
Roled(f) == [roles |-> f, top |-> None, default |-> None, provider |-> None]
NoBase == [r \in AgentRoles |-> None]
OldTomls == {Roled(NoBase), [Roled([NoBase EXCEPT !["r2"] = "A/"]) EXCEPT !.top = "B"], Malformed}
OldBases == {NoBase, [r \in AgentRoles |-> IF r = "r1" THEN "A" ELSE "A/"],
               [NoBase EXCEPT !["r1"] = "bad"]}

S == INSTANCE Settings WITH
        Procs <- {p1, p2}, Roles <- AgentRoles, Commands <- AdminCommands,
        Tomls <- OldTomls, Legacies <- OldBases,
        Columns <- {1}, Attempts <- 2, MaxRuns <- 2, MaxEdits <- 1
-----------------------------------------------------------------------------
(* issue sync: two servers that know the same numbers, a task of number 3 on    *)
(* each, two directories.  A pass finds one row, or two: of two numbers of one    *)
(* place in one directory, which is judged twice; of both tasks, apart or in one  *)
(* directory; of a task beside a legacy row.                                      *)

SyncTasks == (k1 :> [number |-> 3, server |-> sB, place |-> pl, repo |-> r1])
          @@ (k2 :> [number |-> 3, server |-> sA, place |-> pl, repo |-> r1])
Row(n, d, status, place, task) ==
    [issue |-> n, dir |-> d, status |-> status,
     scope |-> IF place = None THEN None ELSE [place |-> place, task |-> task]]
Tables ==
    {<<Row(1, d1, "active", None, None)>>,
     <<Row(1, d1, "active", pl, None), Row(2, d1, "retained", pl, None)>>,
     <<Row(3, d1, "active", pl, k1), Row(3, d2, "active", pl, k2)>>,
     <<Row(3, d1, "active", pl, k1), Row(3, d1, "retained", pl, k2)>>,
     <<Row(3, d1, "active", pl, k1), Row(3, d2, "active", None, None)>>}
StartTables ==
    {[r \in {l1, l2, l3} |-> IF r = l1 THEN t[1] ELSE IF r = l2 /\ Len(t) = 2 THEN t[2] ELSE None] :
        t \in Tables}

Y == INSTANCE Sync WITH
        Rows <- {l1, l2, l3}, Repos <- {r1}, Dirs <- {d1, d2}, RepoOf <- [d \in {d1, d2} |-> r1],
        Issues <- {1, 2, 3}, Tasks <- {k1, k2}, TaskOf <- SyncTasks,
        Servers <- {sA, sB}, Served <- {sA, sB},
        Pass <- [server |-> sA, place |-> pl, legacy |-> TRUE],
        LinkPlaces <- [n \in {1, 2, 3} |-> {}], OpenCodeRows <- {l1, l2},
        Starts <- StartTables, MaxPasses <- 1, MaxChanges <- 1, MaxFaults <- 1
-----------------------------------------------------------------------------
(* Branches: two numbers under two scopes, three spellings of one remote, and another. *)

BranchNames == {"main", "feat/5", "feat/7"}
IssueInName == [b \in BranchNames |->
    CASE b = "feat/5" -> [slash |-> <<5>>, tail |-> 0, bare |-> 0]
      [] b = "feat/7" -> [slash |-> <<7>>, tail |-> 0, bare |-> 0]
      [] OTHER -> [slash |-> <<>>, tail |-> 0, bare |-> 0]]
GeneratedName == [n \in {5, 7} |-> IF n = 5 THEN "feat/5" ELSE "feat/7"]
Url(form, port, git) == [form |-> form, host |-> "h", caps |-> git, port |-> port,
                         path |-> <<"o", "r">>, git |-> git]
Spellings == {Url("scp", None, TRUE), Url("ssh", 22, FALSE), Url("https", 443, FALSE),
              Url("https", 8443, TRUE)}
L(k, n) == [kind |-> k, id |-> n]
Messages == {<<L("text", 0), L("comment", 5), L("scissors", 0), L("mention", 7)>>,
             <<L("mention", 5)>>}

B == INSTANCE Branches WITH
        Branches <- BranchNames, NameOf <- IssueInName, Conventional <- {"main"},
        BranchFor <- GeneratedName, Scopes <- {1, 2}, Numbers <- {5, 7},
        Urls <- Spellings, Drafts <- Messages, Sources <- {"message", "merge"},
        MaxChanges <- 2, MaxCommits <- 1
-----------------------------------------------------------------------------
(* The worktree commands: two leases, in one repository or in two. *)

Lease(repo, session) ==
    [repo |-> repo, issue |-> n1, session |-> session, scope |-> None,
     status |-> "active", fresh |-> TRUE, reason |-> None]

MCStartRows == {<<Lease(r1, s1), Lease(r1, s2)>>, <<Lease(r1, s1), Lease(r2, s2)>>}
-----------------------------------------------------------------------------
(* The files phasegent installs among those of others. *)

H == INSTANCE Hooks WITH
        HookOrder <- <<"prepare-commit-msg", "commit-msg">>,
        Foreign <- {"f1", "f2"}, MaxInstalls <- 3, MaxEdits <- 3

P == INSTANCE Plugin WITH
        Slots <- <<"global", "project">>, Foreign <- {"f1", "f2"}, MaxRuns <- 3, MaxEdits <- 3

Symmetry == Permutations({p1, p2})
-----------------------------------------------------------------------------
\* The variables of the parts that are not explored are None.
LocalInit ==
    \/ /\ part = "settings" /\ S!Init
        /\ rows = None /\ remote = None /\ dirs = None /\ homes = None /\ hosted = None
        /\ pass = None /\ passes = None /\ changes = None /\ faults = None /\ links = None
        /\ refs = None /\ head = None /\ origin = None /\ cached = None /\ store = None
        /\ create = None /\ commit = None /\ commits = None /\ tasks = None
        /\ closed = None /\ walk = None /\ commands = None /\ file = None /\ backup = None
        /\ unsafe = None /\ placed = None /\ installs = None /\ run = None
    \/ /\ part = "sync" /\ Y!Init
        /\ schema = None /\ lock = None /\ provider = None /\ close = None
        /\ legacy = None /\ forgejo = None /\ cred = None /\ base = None /\ default = None
        /\ toml = None /\ proc = None /\ runs = None /\ edits = None /\ answers = None
        /\ links = None /\ refs = None /\ head = None /\ origin = None /\ cached = None
        /\ store = None /\ create = None /\ commit = None /\ commits = None
        /\ tasks = None /\ closed = None /\ walk = None /\ commands = None /\ file = None
        /\ backup = None /\ unsafe = None /\ placed = None /\ installs = None
        /\ run = None
    \/ /\ part = "branches" /\ B!Init
        /\ schema = None /\ lock = None /\ provider = None /\ close = None
        /\ legacy = None /\ forgejo = None /\ cred = None /\ base = None /\ default = None
        /\ toml = None /\ proc = None /\ runs = None /\ edits = None /\ answers = None
        /\ rows = None /\ remote = None /\ dirs = None /\ homes = None /\ hosted = None
        /\ pass = None /\ passes = None /\ faults = None /\ tasks = None /\ closed = None
        /\ walk = None /\ commands = None /\ file = None /\ backup = None /\ unsafe = None
        /\ placed = None /\ installs = None /\ run = None
    \/ /\ part = "desk" /\ Init
        /\ schema = None /\ lock = None /\ provider = None /\ close = None
        /\ forgejo = None /\ cred = None /\ base = None /\ default = None /\ toml = None
        /\ runs = None /\ edits = None /\ answers = None /\ remote = None /\ dirs = None
        /\ homes = None /\ hosted = None /\ pass = None /\ passes = None /\ faults = None
        /\ links = None /\ refs = None /\ head = None /\ origin = None /\ cached = None
        /\ store = None /\ create = None /\ commit = None /\ commits = None /\ file = None
        /\ backup = None /\ unsafe = None /\ placed = None /\ installs = None
        /\ run = None
    \/ /\ part = "hooks" /\ H!Init
        /\ schema = None /\ lock = None /\ provider = None /\ close = None
        /\ legacy = None /\ forgejo = None /\ cred = None /\ base = None /\ default = None
        /\ toml = None /\ runs = None /\ answers = None /\ rows = None /\ remote = None
        /\ dirs = None /\ homes = None /\ hosted = None /\ pass = None /\ passes = None
        /\ changes = None /\ faults = None /\ links = None /\ refs = None /\ head = None
        /\ origin = None /\ cached = None /\ store = None /\ create = None
        /\ commit = None /\ commits = None /\ tasks = None /\ closed = None /\ walk = None
        /\ commands = None /\ run = None
    \/ /\ part = "plugin" /\ P!Init
        /\ schema = None /\ lock = None /\ provider = None /\ close = None
        /\ legacy = None /\ forgejo = None /\ cred = None /\ base = None /\ default = None
        /\ toml = None /\ proc = None /\ answers = None /\ rows = None /\ remote = None
        /\ dirs = None /\ homes = None /\ hosted = None /\ pass = None /\ passes = None
        /\ changes = None /\ faults = None /\ links = None /\ refs = None /\ head = None
        /\ origin = None /\ cached = None /\ store = None /\ create = None
        /\ commit = None /\ commits = None /\ tasks = None /\ closed = None /\ walk = None
        /\ commands = None /\ unsafe = None /\ installs = None

LocalNext ==
    /\ UNCHANGED part
    /\ \/ /\ part = "settings" /\ S!Next
          /\ UNCHANGED <<rows, remote, dirs, homes, hosted, pass, passes, changes, faults,
                         links, refs, head, origin, cached, store, create, commit,
                         commits, tasks, closed, walk, commands, file, backup, unsafe,
                         placed, installs, run>>
       \/ /\ part = "sync" /\ Y!Next
          /\ UNCHANGED <<schema, lock, provider, close, legacy, forgejo, cred, base,
                         default, toml, proc, runs, edits, answers, links, refs, head,
                         origin, cached, store, create, commit, commits, tasks, closed,
                         walk, commands, file, backup, unsafe, placed, installs, run>>
       \/ /\ part = "branches" /\ B!Next
          /\ UNCHANGED <<schema, lock, provider, close, legacy, forgejo, cred, base,
                         default, toml, proc, runs, edits, answers, rows, remote, dirs,
                         homes, hosted, pass, passes, faults, tasks, closed, walk,
                         commands, file, backup, unsafe, placed, installs, run>>
       \/ /\ part = "desk" /\ Next
          /\ UNCHANGED <<schema, lock, provider, close, forgejo, cred, base, default,
                         toml, runs, edits, answers, remote, dirs, homes, hosted, pass,
                         passes, faults, links, refs, head, origin, cached, store, create,
                         commit, commits, file, backup, unsafe, placed, installs, run>>
       \/ /\ part = "hooks" /\ H!Next
          /\ UNCHANGED <<schema, lock, provider, close, legacy, forgejo, cred, base,
                         default, toml, runs, answers, rows, remote, dirs, homes, hosted,
                         pass, passes, changes, faults, links, refs, head, origin, cached,
                         store, create, commit, commits, tasks, closed, walk, commands,
                         run>>
       \/ /\ part = "plugin" /\ P!Next
          /\ UNCHANGED <<schema, lock, provider, close, legacy, forgejo, cred, base,
                         default, toml, proc, answers, rows, remote, dirs, homes, hosted,
                         pass, passes, changes, faults, links, refs, head, origin, cached,
                         store, create, commit, commits, tasks, closed, walk, commands,
                         unsafe, installs>>

LocalSpec == LocalInit /\ [][LocalNext]_<<part, world>>
-----------------------------------------------------------------------------
(* The properties of the parts under the names the run checks.              *)

\* What the configuration selects can be used, and an opened store is migrated.
SelectedIsUsable ==
    part = "settings" => S!SelectedIsUsable /\ S!OpenMeansMigrated /\ S!ResolversAgree
\* The hooks and the commands resolve a branch to the same issue.
ReadersAgree == part = "branches" => B!ReadersAgree /\ B!PreparedPasses
\* A branch keeps its issues when its remote is spelled anew, and creating one ends on it.
LinksLast == [][part = "branches" => B!SpellingStep /\ B!CreateStep]_branchVars
\* A walk over the pages of leases that is complete misses no lease.
PagesAreWhole == part = "desk" => WalkIsComplete /\ PruneReportsAll /\ ProbeNeverGuesses
\* A lease changes for a cause: issue sync retains and removes what was closed; commands
\* that read write nothing, and a lease names the task it was admitted for.
LeasesChangeForCause ==
    [][/\ part = "sync" => Y!RetainedStep /\ Y!RemovedStep /\ Y!MemoStep
       /\ part = "desk" => ReadersStep /\ LeaseStep]_<<vars, syncVars>>
\* A hook or plugin of somebody else is never lost.
ForeignKept ==
    /\ part = "hooks" => H!ForeignKept /\ H!InstalledChains
    /\ part = "plugin" => P!ForeignPluginKept /\ P!EveryScopeAnswered
=============================================================================

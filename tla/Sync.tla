-------------------------------- MODULE Sync --------------------------------
(***************************************************************************)
(* `issue sync`, and the same pass before `worktree acquire|list|prune`:   *)
(* every local lease whose issue its tracker already closed is retained    *)
(* and its directory goes through the guarded cleanup.  One pass walks     *)
(* repositories, numbers and, within a number, ownership groups; another   *)
(* number of the same value on another instance is another issue.  The     *)
(* steps of the cleanup itself are in Cleanup; here it is what it decides  *)
(* on, and the memo of host answers that only this pass uses.              *)
(***************************************************************************)
EXTENDS Naturals, FiniteSets, FiniteSetsExt, TLC

CONSTANTS
    Rows,         \* lease ids
    Repos, Dirs,  \* repositories and worktree directories
    RepoOf,       \* [Dirs -> Repos]
    Issues,       \* issue numbers
    Tasks,        \* durable task ids
    TaskOf,       \* [Tasks -> [number, server, place, repo]]
    Servers,      \* tracker instances
    Served,       \* the instances this role has credentials for
    Pass,         \* [server, place, legacy]: the provider the pass resolved
    LinkPlaces,   \* [Issues -> SUBSET places] the branch links name
    OpenCodeRows, \* leases taken by an OpenCode session
    Starts,       \* the tables a pass may find
    MaxPasses, MaxChanges, MaxFaults,
    None

VARIABLES
    rows,     \* [Rows -> lease row or None]
    remote,   \* [Servers -> [Issues -> state]]
    dirs,     \* the directories on disk
    homes,    \* the repositories whose main checkout can be resolved
    hosted,   \* the directories an OpenCode session is in
    pass,     \* the running pass
    passes, changes, faults

vars == <<rows, remote, dirs, homes, hosted, pass, passes, changes, faults>>

SyncBounds == MaxPasses \in Nat /\ MaxChanges \in Nat /\ MaxFaults \in Nat

-----------------------------------------------------------------------------
(* Lease rows, scopes and groups. *)

\* A sidecar scope: provider and project, and the durable task if there is one.
Scope(place, task) == [place |-> place, task |-> task]
TaskScope(t) == Scope(TaskOf[t].place, t)

States == {"open", "closed", "gone"}

Live(t) == {r \in Rows : t[r] # None}
InRepo(t, repo) == {r \in Live(t) : RepoOf[t[r].dir] = repo}
OnDir(t, d) == {r \in Live(t) : t[r].dir = d}
Numbered(t, repo, n) == {r \in InRepo(t, repo) : t[r].issue = n}

\* The rows of one repository whose directory is still there, by number.
CandidateIssues(t, repo) ==
    LET left == {r \in InRepo(t, repo) : t[r].dir \in dirs}
    IN  {<<repo, t[r].issue>> : r \in left}
CandidateRows(t, c) == {r \in Numbered(t, c[1], c[2]) : t[r].dir \in dirs}

\* One group per exact scope; the legacy group only where no row has one.
LeaseGroups(t, repo, n) ==
    LET scopes == {t[r].scope : r \in Numbered(t, repo, n)} \ {None}
    IN  IF scopes = {} THEN {None} ELSE scopes

SameOwnership(group, scope) ==
    scope # None /\ scope.place = group.place /\ scope.task = group.task

\* The directories of a group's own rows.
Affected(t, repo, n, group) ==
    {t[r].dir : r \in {x \in Numbered(t, repo, n) : t[x].scope = group}}

LegacyProcessing(t, repo, n, cand) ==
    LET own == {t[r].dir : r \in IF cand = {} THEN Numbered(t, repo, n) ELSE cand}
        shares == \E r \in InRepo(t, repo) : t[r].scope # None /\ t[r].dir \in own
    IN  IF ~Pass.legacy \/ shares THEN "keep" ELSE "unscoped"

ScopedProcessing(t, repo, n, group, cand) ==
    IF group = None THEN LegacyProcessing(t, repo, n, cand)
    ELSE IF \/ \E r \in Numbered(t, repo, n) : t[r].scope = None
            \/ \E r \in InRepo(t, repo) :
                  /\ t[r].dir \in Affected(t, repo, n, group)
                  /\ ~SameOwnership(group, t[r].scope)
            \/ group.task = None /\ group.place # Pass.place
         THEN "keep" ELSE "provider"

\* Where a group is read: its task's own instance, or the pass's.
GroupServerPassWide(group) == Pass.server
GroupServer(group) ==
    IF group # None /\ group.task # None THEN TaskOf[group.task].server ELSE Pass.server
GroupServed(group) ==
    group = None \/ group.task = None \/ TaskOf[group.task].server \in Served

VerifiedIds(t, repo, n, group) ==
    {r \in Numbered(t, repo, n) : t[r].status = "active" /\ t[r].scope = group}

AssociatedIssues(t, repo, n, group) ==
    {t[r].issue : r \in {x \in InRepo(t, repo) :
        t[x].dir \in Affected(t, repo, n, group)}} \cup {n}

\* Everything the retention rests on: the rows on the directories of the
\* number's scoped rows, and its rows elsewhere.
RetentionProof(t, repo, n) ==
    LET at == {t[r].dir : r \in {x \in Numbered(t, repo, n) : t[x].scope # None}}
    IN  {<<r, t[r]>> : r \in {x \in InRepo(t, repo) :
            t[x].dir \in at \/ t[x].issue = n}}

-----------------------------------------------------------------------------
(* The route of another issue of the directory. *)

TasksFor(repo, n) == {k \in Tasks : TaskOf[k].number = n /\ TaskOf[k].repo = repo}

Legacy == [server |-> Pass.server, place |-> Pass.place]

\* The membership of this repository is the only proof of a task's route.
Route(repo, n) ==
    LET ks == TasksFor(repo, n) IN
    CASE ks = {} -> Legacy
      [] Cardinality(ks) = 1 /\ TaskOf[CHOOSE k \in ks : TRUE].server \in Served ->
            LET k == CHOOSE k \in ks : TRUE
            IN  [server |-> TaskOf[k].server, place |-> TaskOf[k].place]
      [] OTHER -> None

\* The links of the branch must agree with the route.
LinksAgree(n, route) == LinkPlaces[n] \subseteq {route.place}

ConfirmsClosed(repo, n) ==
    LET route == Route(repo, n)
    IN  /\ route # None
        /\ LinksAgree(n, route)
        /\ remote[route.server][n] = "closed"

ConfirmOthersClosed(repo, n, issues) == \A m \in issues \ {n} : ConfirmsClosed(repo, m)

\* What the confirmation read, for the properties.
Heard(repo, issues) ==
    {<<Route(repo, m).server, m>> : m \in {x \in issues : ConfirmsClosed(repo, x)}}

-----------------------------------------------------------------------------
(* The pass. *)

Idle == [pc |-> "idle", mode |-> "clean", todo |-> {}, cands |-> {}, at |-> None,
         seen |-> None, groups |-> {}, group |-> None, ids |-> {}, others |-> {},
         proof |-> {}, loaded |-> None, left |-> {}, dir |-> None, memo |-> {},
         told |-> {}]

\* A table acquire and the closes before this pass can have left.
OldRows == [issue : Issues, dir : Dirs, status : {"active", "retained"},
              scope : {None, Scope(Pass.place, None)} \cup {TaskScope(k) : k \in Tasks}]
Plausible(t) ==
    /\ \A r \in Live(t) : t[r].scope # None /\ t[r].scope.task # None =>
          LET k == t[r].scope.task
          IN  TaskOf[k].number = t[r].issue /\ TaskOf[k].repo = RepoOf[t[r].dir]
    /\ \A r, q \in Live(t) : r # q /\ t[r].dir = t[q].dir =>
          ~(t[r].status = "active" /\ t[q].status = "active")

Init ==
    /\ rows \in {t \in Starts : Plausible(t)}
    /\ remote \in [Servers -> [Issues -> {"open", "closed"}]]
    /\ dirs = Dirs
    /\ homes \in SUBSET Repos
    /\ hosted \in SUBSET Dirs
    /\ pass = Idle
    /\ passes = 0 /\ changes = 0 /\ faults = 0

At(pc) == pass.pc = pc
World == <<remote, hosted, homes>>
Counts == <<passes, changes, faults>>
Repo == pass.at[1]
Number == pass.at[2]

Skip == [pass EXCEPT !.pc = "group", !.group = None]
Abort == [Idle EXCEPT !.mode = pass.mode]

\* The scopes and their candidates, resolved once: a repository whose main
\* checkout is gone or resolves to another identity is skipped.
ResolveScopes(scopes) ==
    UNION {CandidateIssues(rows, r) : r \in scopes \cap homes}

Walking(mode, todo) ==
    [Idle EXCEPT !.pc = "walk", !.mode = mode, !.todo = todo,
       !.cands = UNION {CandidateRows(rows, c) : c \in todo}]

\* `issue sync [--all] [--no-clean]`: without --all an unresolvable checkout
\* is an error.
IssueSync(mode, scopes) ==
    /\ At("idle") /\ passes < MaxPasses
    /\ passes' = passes + 1
    /\ pass' = IF scopes \subseteq homes \/ scopes = Repos
               THEN Walking(mode, ResolveScopes(scopes)) ELSE Idle
    /\ UNCHANGED <<rows, dirs, World, changes, faults>>

\* Before a worktree command: with nothing left on disk the provider is not
\* even resolved, and no failure is more than a warning.
TaxiSync(repo) ==
    /\ At("idle") /\ passes < MaxPasses
    /\ passes' = passes + 1
    /\ LET todo == ResolveScopes({repo})
       IN  pass' = IF todo = {} THEN Idle ELSE Walking("clean", todo)
    /\ UNCHANGED <<rows, dirs, World, changes, faults>>

\* The next number, with the rows as they are now; at the end, the report.
Candidate ==
    /\ At("walk") /\ pass.todo # {}
    /\ \E c \in pass.todo :
        /\ \A d \in pass.todo : d[1] = c[1] => c[2] <= d[2]
        /\ pass' = [pass EXCEPT !.pc = "group", !.at = c, !.todo = @ \ {c},
                      !.seen = rows, !.groups = LeaseGroups(rows, c[1], c[2])]
    /\ UNCHANGED <<rows, dirs, World, Counts>>

Report ==
    /\ At("walk") /\ pass.todo = {}
    /\ pass' = Idle
    /\ UNCHANGED <<rows, dirs, World, Counts>>

\* A group is classified on the rows read for its number.
Classify ==
    /\ At("group") /\ pass.groups # {}
    /\ \E g \in pass.groups :
        LET cand == pass.cands \cap Numbered(rows, Repo, Number)
            kind == ScopedProcessing(pass.seen, Repo, Number, g, cand)
        IN  pass' = [pass EXCEPT !.groups = @ \ {g}, !.group = g,
                       !.pc = IF kind = "keep" \/ ~GroupServed(g) THEN "group" ELSE "ask"]
    /\ UNCHANGED <<rows, dirs, World, Counts>>

NumberDone ==
    /\ At("group") /\ pass.groups = {}
    /\ pass' = [pass EXCEPT !.pc = "walk", !.at = None, !.seen = None, !.group = None]
    /\ UNCHANGED <<rows, dirs, World, Counts>>

\* Read the group's issue before anything is written.  A missing issue is
\* passed over; any other failure ends the whole pass.
Ask ==
    /\ At("ask")
    /\ LET server == GroupServer(pass.group)
       IN  IF remote[server][Number] # "closed" THEN pass' = Skip
           ELSE pass' = [pass EXCEPT !.told = @ \cup {<<server, Number>>},
                           !.pc = CASE pass.group # None -> "prove"
                                    [] pass.mode = "clean" -> "release"
                                    [] OTHER -> "verdict"]
    /\ UNCHANGED <<rows, dirs, World, Counts>>

ReadFails ==
    /\ At("ask") /\ faults < MaxFaults
    /\ faults' = faults + 1
    /\ pass' = Abort
    /\ UNCHANGED <<rows, dirs, World, passes, changes>>

\* A legacy report drives the same guards through a runner that only records
\* the removal; a scoped one goes on to the guards themselves.
ReportVerdict ==
    /\ At("verdict")
    /\ pass' = Skip
    /\ UNCHANGED <<rows, dirs, World, Counts>>

Still(group) ==
    ScopedProcessing(rows, Repo, Number, group, pass.cands) = "provider"

\* Fresh evidence after the provider's word: ids to retain, issues to confirm.
Prove ==
    /\ At("prove")
    /\ pass' = IF ~Still(pass.group) THEN Skip
               ELSE [pass EXCEPT !.ids = VerifiedIds(rows, Repo, Number, pass.group),
                       !.others = AssociatedIssues(rows, Repo, Number, pass.group),
                       !.pc = IF pass.mode = "clean" THEN "confirm" ELSE "load"]
    /\ UNCHANGED <<rows, dirs, World, Counts>>

Confirm ==
    /\ At("confirm")
    /\ pass' = IF ConfirmOthersClosed(Repo, Number, pass.others)
               THEN [pass EXCEPT !.pc = "final",
                       !.told = @ \cup Heard(Repo, pass.others \ {Number})]
               ELSE Skip
    /\ UNCHANGED <<rows, dirs, World, Counts>>

\* The whole proof again after the remote reads; what changed keeps.
FinalProof ==
    /\ At("final")
    /\ pass' = IF /\ Still(pass.group)
                  /\ AssociatedIssues(rows, Repo, Number, pass.group) = pass.others
                  /\ VerifiedIds(rows, Repo, Number, pass.group) = pass.ids
               THEN [pass EXCEPT !.pc = "retain",
                       !.proof = RetentionProof(rows, Repo, Number)]
               ELSE Skip
    /\ UNCHANGED <<rows, dirs, World, Counts>>

Retained(t, ids) ==
    [r \in Rows |-> IF r \in ids THEN [t[r] EXCEPT !.status = "retained"] ELSE t[r]]

\* One immediate transaction: the proof must be the approved one, or the pass
\* ends in an error and nothing is written.
RetainScopeIds ==
    IF RetentionProof(rows, Repo, Number) = pass.proof
    THEN /\ rows' = Retained(rows, pass.ids)
         /\ pass' = [pass EXCEPT !.pc = "load", !.proof = {}]
    ELSE /\ pass' = Abort
         /\ rows' = rows
Retain ==
    /\ At("retain")
    /\ RetainScopeIds
    /\ UNCHANGED <<dirs, World, Counts>>

\* The legacy release: every active row of the number that has no sidecar.
LegacyIds(t) ==
    {r \in Numbered(t, Repo, Number) : t[r].status = "active" /\ t[r].scope = None}
Release ==
    /\ At("release")
    /\ rows' = Retained(rows, LegacyIds(rows))
    /\ pass' = [pass EXCEPT !.pc = "load"]
    /\ UNCHANGED <<dirs, World, Counts>>

-----------------------------------------------------------------------------
(* The guarded cleanup of the group's directories. *)

DirectoryAllowed(t, d, group) ==
    \/ \A r \in OnDir(t, d) : t[r].scope = None
    \/ group # None /\ \A r \in OnDir(t, d) : SameOwnership(group, t[r].scope)

RowsAllow(t, d, group) ==
    /\ DirectoryAllowed(t, d, group)
    /\ \A r \in OnDir(t, d) : t[r].status # "active"

\* The legacy pass denies every other issue; a scoped one asks for each.
OthersClosed(t, d) ==
    LET issues == {t[r].issue : r \in OnDir(t, d)}
    IN  IF pass.group = None THEN issues \subseteq {Number}
        ELSE ConfirmOthersClosed(Repo, Number, issues)

Associated(t, d) == OnDir(t, d) \cap OpenCodeRows # {}

\* The rows as they are after the release, never the ones of the scan.
Load ==
    /\ At("load")
    /\ pass' = [pass EXCEPT !.pc = "clean", !.loaded = rows,
                  !.left = {rows[r].dir : r \in {x \in Numbered(rows, Repo, Number) :
                      pass.group # None => rows[x].scope = pass.group}} \cap dirs]
    /\ UNCHANGED <<rows, dirs, World, Counts>>

\* Mutant of Occupied: the memo frees too.
OccupiedRemembered(d) ==
    IF <<d, FALSE>> \in pass.memo THEN FALSE ELSE <<d, TRUE>> \in pass.memo \/ d \in hosted
Occupied(d) ==
    IF <<d, TRUE>> \in pass.memo THEN TRUE ELSE d \in hosted
Remembered(d) ==
    IF \E b \in BOOLEAN : <<d, b>> \in pass.memo THEN pass.memo
    ELSE pass.memo \cup {<<d, d \in hosted>>}

\* One directory on the loaded rows.  A report asks no host and keeps what a
\* session is associated with.
Judge ==
    /\ At("clean")
    /\ \E d \in pass.left :
        LET local == RowsAllow(pass.loaded, d, pass.group) /\ OthersClosed(pass.loaded, d)
            asks == pass.mode = "clean" /\ Associated(pass.loaded, d)
            blocked == IF pass.mode = "clean" THEN asks /\ Occupied(d)
                       ELSE Associated(pass.loaded, d)
        IN  \/ pass' = [pass EXCEPT !.left = @ \ {d}]  \* dirty or the main checkout
            \/ pass' = [pass EXCEPT !.left = @ \ {d}, !.dir = d,
                          !.memo = IF local /\ asks THEN Remembered(d) ELSE @,
                          !.pc = IF local /\ ~blocked THEN "remove" ELSE "clean"]
    /\ UNCHANGED <<rows, dirs, World, Counts>>

\* The re-check before a removal: rows, closures and, directly, the host.
\* A report has nothing to re-check.
Recheck(d) ==
    \/ pass.mode = "report"
    \/ /\ RowsAllow(rows, d, pass.group)
       /\ OthersClosed(rows, d)
       /\ Associated(rows, d) => d \notin hosted
RemoveWorktree ==
    /\ At("remove")
    /\ LET d == pass.dir IN
       /\ IF Recheck(d) /\ d \in dirs THEN dirs' = dirs \ {d} ELSE dirs' = dirs
       /\ pass' = [pass EXCEPT !.pc = "clean", !.dir = None,
                     !.told = @ \cup Heard(Repo, {rows[r].issue : r \in OnDir(rows, d)}
                                                  \ {Number})]
    /\ UNCHANGED <<rows, World, Counts>>

GroupDone ==
    /\ At("clean") /\ pass.left = {}
    /\ pass' = [pass EXCEPT !.pc = "group", !.group = None, !.loaded = None,
                  !.ids = {}, !.others = {}]
    /\ UNCHANGED <<rows, dirs, World, Counts>>

PassStep ==
    \/ Candidate \/ Report \/ Classify \/ NumberDone \/ Ask \/ ReadFails
    \/ ReportVerdict \/ Prove \/ Confirm \/ FinalProof \/ Retain \/ Release
    \/ Load \/ Judge \/ RemoveWorktree \/ GroupDone

-----------------------------------------------------------------------------
(* Everyone else. *)

Changing == ~At("idle") /\ changes < MaxChanges /\ changes' = changes + 1

\* Another session takes a lease in a directory nobody holds.
LeaseTaken ==
    /\ Changing
    /\ \E r \in Rows, new \in OldRows :
        /\ rows[r] = None /\ new.status = "active" /\ new.dir \in dirs
        /\ rows' = [rows EXCEPT ![r] = new]
        /\ Plausible(rows')
    /\ UNCHANGED <<dirs, World, pass, passes, faults>>

LeaseEnds ==
    /\ Changing
    /\ \E r \in Live(rows) :
        /\ rows[r].status = "active"
        /\ rows' = [rows EXCEPT ![r].status = "released"]
    /\ UNCHANGED <<dirs, World, pass, passes, faults>>

IssueMoves ==
    /\ Changing
    /\ \E s \in Servers, n \in Issues, st \in States :
        /\ st # remote[s][n]
        /\ remote' = [remote EXCEPT ![s][n] = st]
    /\ UNCHANGED <<rows, dirs, hosted, homes, pass, passes, faults>>

SessionMoves ==
    /\ Changing
    /\ \E d \in dirs : hosted' = IF d \in hosted THEN hosted \ {d} ELSE hosted \cup {d}
    /\ UNCHANGED <<rows, dirs, remote, homes, pass, passes, faults>>

Next ==
    \/ \E mode \in {"clean", "report"}, scopes \in {Repos} \cup {{r} : r \in Repos} :
          IssueSync(mode, scopes)
    \/ \E repo \in Repos : TaxiSync(repo)
    \/ PassStep
    \/ LeaseTaken \/ LeaseEnds \/ IssueMoves \/ SessionMoves

Spec == Init /\ [][Next]_vars

-----------------------------------------------------------------------------
(* Properties. *)

\* The instances whose word counts for a row: its task's own one; without a
\* task the pass's, or that of a task of the same number in the repository.
OwnServers(row) ==
    IF row.scope # None /\ row.scope.task # None THEN {TaskOf[row.scope.task].server}
    ELSE {Pass.server} \cup {TaskOf[k].server : k \in TasksFor(RepoOf[row.dir], row.issue)}

Told(row, told) == \E s \in OwnServers(row) : <<s, row.issue>> \in told

\* Every lease the pass retains belongs to an issue that the row's own
\* instance reported closed during this pass: two tasks of one number on two
\* instances are never released together (run_sync_scopes, lease_groups).
RetainedStep ==
    \A r \in Live(rows) :
       rows[r].status = "active" /\ rows'[r].status = "retained"
       => Told(rows[r], pass.told)

\* A directory a cleaning pass removes is associated only with issues their own
\* instance reported closed during this pass, whoever joined it meanwhile
\* (SyncGroupClosure, the re-check before worktree_remove).
RemovedStep ==
    pass.mode = "clean" => \A d \in dirs \ dirs' :
       \A r \in OnDir(rows, d) : Told(rows[r], pass'.told)

\* A directory leaves the host guard as free only when the host says so at
\* that moment: the memo of the pass may keep, never free
\* (SyncOccupancyGuard::keep_reason).
MemoStep ==
    At("clean") /\ pass'.pc = "remove" /\ pass.mode = "clean"
    => ~Associated(pass.loaded, pass'.dir) \/ pass'.dir \notin hosted

=============================================================================

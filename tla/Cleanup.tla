------------------------------ MODULE Cleanup ------------------------------
(***************************************************************************)
(* Removing the worktree directories of closed issues: `worktree prune`    *)
(* (cli/worktree/prune), the cleanup after `issue close`                   *)
(* (lifecycle/cleanup.rs) and the one inside `issue sync`                  *)
(* (cli/sync/engine.rs), with the move of OpenCode sessions out of a       *)
(* directory (lifecycle/cleanup/sessions.rs, wait.rs).                     *)
(*                                                                         *)
(* A pass is one command at work on one directory; directories of one call *)
(* share only its start, its move target and its wait budget, so a call    *)
(* with several directories is several passes.  A step is one read of the  *)
(* lease table, of git, of the provider or of the OpenCode host, or one    *)
(* write; everything a pass read may have changed before its next step.    *)
(***************************************************************************)
EXTENDS LeaseStore

CONSTANTS
    Passes,          \* concurrent commands
    Modes,           \* the commands the instance runs
    Main,            \* the main checkout
    NoSession,       \* no closing session, no parent session
    OpenCode,        \* the sessions with a ses_ id, known to the host
    Parent,          \* parentID of a session, or NoSession
    MaxParentEdges,  \* MAX_PARENT_EDGES
    PollBudget,      \* polls that fit in MOVE_WAIT_BUDGET
    Events           \* what the rest of the world does in the instance

CleanupModes == {"prune", "preview", "close", "sync", "report"}

ASSUME CleanupAssumption ==
    /\ Main \in Paths
    /\ Issues # {}
    /\ Modes \subseteq CleanupModes
    /\ NoSession \notin Sessions
    /\ OpenCode \subseteq Sessions
    /\ Parent \in [OpenCode -> OpenCode \cup {NoSession}]
    /\ MaxParentEdges \in Nat
    /\ PollBudget \in Nat

VARIABLES
    leases,    \* worktree_leases with worktree_lease_scopes
    dirs,      \* the directories on disk
    content,   \* git status of each: clean, only a root .cache, or dirty
    open,      \* the issues the provider reports open
    place,     \* where the host places each session
    running,   \* the sessions the host reports running
    inflight,  \* sessions with an accepted move that has not been delivered
    pass,      \* what each pass is doing
    late       \* per pass: what appeared after its cache clearance

vars == <<leases, dirs, content, open, place, running, inflight, pass, late>>

world == <<leases, dirs, content, open, place, running, inflight, late>>
host  == <<place, running, inflight>>
disk  == <<dirs, content>>

Contents == {"clean", "cache", "dirty"}
Phases   == {"scan", "recheck", "moved", "cleared"}

Steps == {"idle", "recover", "again", "confirm", "retain", "load", "rows", "git",
          "active", "closure", "family", "locate", "list", "running", "lineage",
          "move", "check", "request", "observe", "wait", "poll", "vacant",
          "homes", "settled", "inspect", "clear", "remove", "flip"}

\* What a pass knows: its own parameters, the evidence of the last row read
\* (issues, roots), the candidate as scanned (ids, cache) and the family
\* assessment (hosted, probe, accepted, pending).
PassRecords ==
    [pc : Steps, phase : Phases, mode : CleanupModes, dir : Paths,
     issue : Issues, closer : Sessions \cup {NoSession},
     scope : Scopes \cup {NoScope}, legacy : BOOLEAN,
     project : Projects \cup {NoScope}, pinned : BOOLEAN,
     ids : SUBSET LeaseIds, cache : Contents,
     issues : SUBSET Issues, roots : SUBSET OpenCode,
     hosted : SUBSET OpenCode, probe : SUBSET OpenCode,
     accepted : SUBSET OpenCode, pending : SUBSET OpenCode,
     budget : 0..PollBudget]

\* What can forbid a removal.
Facts == ({"lease"} \X LeaseIds) \cup ({"issue"} \X Issues)
         \cup ({"session"} \X OpenCode)

\* The table, the disk, the provider, the host and every pass.
TypeOK ==
    /\ leases \in Tables
    /\ dirs \subseteq Paths
    /\ content \in [Paths -> Contents]
    /\ open \subseteq Issues
    /\ place \in [OpenCode -> Paths]
    /\ running \subseteq OpenCode
    /\ inflight \subseteq OpenCode
    /\ pass \in [Passes -> PassRecords]
    /\ late \in [Passes -> SUBSET Facts]

Fresh(mode, dir, issue, closer, scope, legacy, project) ==
    [pc |-> "idle", phase |-> "scan", mode |-> mode, dir |-> dir,
     issue |-> issue, closer |-> closer, scope |-> scope, legacy |-> legacy,
     project |-> project, pinned |-> FALSE, ids |-> {}, cache |-> "clean",
     issues |-> {}, roots |-> {}, hosted |-> {}, probe |-> {},
     accepted |-> {}, pending |-> {}, budget |-> 0]

Idle == Fresh("prune", Main, CHOOSE i \in Issues : TRUE, NoSession, NoScope,
              FALSE, NoScope)

Init ==
    /\ leases = EmptyTable
    /\ dirs = Paths
    /\ content = [d \in Paths |-> "clean"]
    /\ open = Issues
    /\ place = [s \in OpenCode |-> Main]
    /\ running = {}
    /\ inflight = {}
    /\ pass = [p \in Passes |-> Idle]
    /\ late = [p \in Passes |-> {}]

Enter(p, q)  == pass' = [pass EXCEPT ![p] = q]
Goto(p, pc)  == pass' = [pass EXCEPT ![p].pc = pc]
Keep(p)      == Enter(p, Idle)       \* the directory stays; the pass is over

At(p, pc) == pass[p].pc = pc

(***************************************************************************)
(* Evidence from the lease table.                                          *)
(***************************************************************************)

\* associated_issues and associated_sessions
IssuesOn(t, d) == {t[i].issue : i \in GroupOf(t, d)}
RootsOn(t, d)  == {t[i].session : i \in GroupOf(t, d)} \cap OpenCode

\* directory_scope_allowed
DirectoryAllowed(t, d, scope) ==
    \/ GroupOf(t, d) \cap Scoped(t) = {}
    \/ /\ scope # NoScope
       /\ \A i \in GroupOf(t, d) :
             /\ t[i].scope # NoScope
             /\ t[i].scope.project = scope.project
             /\ scope.task # NoTask => t[i].scope.task = scope.task

\* Mutant of RowsAllow: only the rows of the moment count, not the pinned ones.
RowsAllowUnpinned(t, q) ==
    IF q.mode \in {"prune", "preview"}
    THEN /\ GroupAdmitted(t, q.dir, q.legacy, q.project)
         /\ ActiveOnPath(t, q.dir) = {}
    ELSE /\ DirectoryAllowed(t, q.dir, q.scope)
         /\ \A i \in ActiveOnPath(t, q.dir) : t[i].session = q.closer

\* What the rows must say: for prune the group is its own and nothing is or
\* was active on it; for the others the scope fits and no other session is.
RowsAllow(t, q) ==
    IF q.mode \in {"prune", "preview"}
    THEN /\ GroupAdmitted(t, q.dir, q.legacy, q.project)
         /\ ActiveOnPath(t, q.dir) = {}
         /\ ~q.pinned
    ELSE /\ DirectoryAllowed(t, q.dir, q.scope)
         /\ \A i \in ActiveOnPath(t, q.dir) : t[i].session = q.closer

\* The evidence later steps use; the scan also fixes the rows to release.
WithRows(t, q) ==
    [q EXCEPT !.pc = "git",
              !.issues = IssuesOn(t, q.dir),
              !.roots = RootsOn(t, q.dir),
              !.ids = IF q.phase = "scan" THEN GroupOf(t, q.dir) ELSE q.ids]

(***************************************************************************)
(* Starting a pass.                                                        *)
(***************************************************************************)

\* worktree prune: the directories active now are pinned for the whole call.
\* The candidates come from the rows of this read unless --release-stale
\* changes some of them first.
PruneStart(p) ==
    /\ At(p, "idle")
    /\ \E mode \in Modes \cap {"prune", "preview"}, d \in Paths,
          legacy \in BOOLEAN, project \in Projects :
          LET q == [Fresh(mode, d, Idle.issue, NoSession, NoScope, legacy, project)
                       EXCEPT !.pinned = ActiveOnPath(leases, d) # {},
                              !.budget = PollBudget]
          IN  /\ GroupOf(leases, d) # {}
              /\ \/ RowsAllow(leases, q) /\ Enter(p, WithRows(leases, q))
                 \/ Enter(p, [q EXCEPT !.pc = "recover"])
    /\ UNCHANGED world

\* --release-stale flips at least one row, so the rows are read again.
PruneRecover(p) ==
    /\ At(p, "recover")
    /\ pass[p].mode = "prune"
    /\ \E answer \in StaleAnswers(leases, MaxClock + 1) :
          LET selected == IF pass[p].legacy THEN NoScope ELSE pass[p].project
          IN  /\ \E i \in answer : RecoveryAllows(leases, i, selected)
              /\ leases' = RecoverStale(leases, answer, selected, MaxClock)
    /\ Goto(p, "rows")
    /\ UNCHANGED <<disk, open, host, late>>

\* issue close: the provider has closed the issue; its leases are next.
CloseStart(p) ==
    /\ At(p, "idle")
    /\ "close" \in Modes
    /\ \E issue \in Issues, closer \in Sessions \cup {NoSession},
          scope \in Scopes \cup {NoScope} :
          /\ scope # NoScope => scope.number = issue
          /\ open' = open \ {issue}
          /\ Enter(p, [Fresh("close", Main, issue, closer, scope, FALSE, NoScope)
                          EXCEPT !.pc = "retain"])
    /\ UNCHANGED <<leases, disk, host, late>>

\* scoped_processing: an unscoped group shares neither its number nor its
\* directories with scoped rows; a scoped one has no unscoped row of its
\* number, and its directories hold rows of the same project and task only.
SyncAdmits(t, issue, scope) ==
    LET rows  == {i \in Stored(t) : t[i].issue = issue}
        owned == {i \in Scoped(t) : /\ t[i].scope.project = scope.project
                                    /\ t[i].scope.task = scope.task}
    IN  IF scope = NoScope
        THEN \A i \in rows : GroupOf(t, t[i].path) \cap Scoped(t) = {}
        ELSE /\ rows \subseteq Scoped(t)
             /\ \A i \in rows \cap owned : GroupOf(t, t[i].path) \subseteq owned

\* directory_associated_issues and verified_scope_lease_ids
ScopeIssues(t, scope) ==
    UNION {IssuesOn(t, t[i].path) : i \in {j \in Stored(t) : t[j].scope = scope}}
ScopeActive(t, scope) == {i \in Active(t) : t[i].scope = scope}

\* issue sync: a candidate group the provider reports closed.  The report of
\* an unscoped group runs git through a runner that removes nothing.
SyncStart(p) ==
    /\ At(p, "idle")
    /\ \E mode \in Modes \cap {"sync", "report"}, issue \in Issues \ open,
          scope \in Scopes \cup {NoScope} :
          /\ \E i \in Stored(leases) : /\ leases[i].issue = issue
                                       /\ leases[i].scope = scope
          /\ scope = NoScope => mode = "sync"
          /\ SyncAdmits(leases, issue, scope)
          /\ Enter(p, [Fresh(mode, Main, issue, NoSession, scope, FALSE, NoScope)
                          EXCEPT !.pc = IF scope = NoScope THEN "retain" ELSE "again"])
    /\ UNCHANGED world

\* A scoped group is classified again after the provider's answer; a clean
\* remembers the issues of its directories and the leases it would retain.
SyncAgain(p) ==
    /\ At(p, "again")
    /\ LET q == pass[p]
       IN  /\ SyncAdmits(leases, q.issue, q.scope)
           /\ Enter(p, IF q.mode = "report" THEN [q EXCEPT !.pc = "load"]
                       ELSE [q EXCEPT !.pc = "confirm",
                                      !.issues = ScopeIssues(leases, q.scope),
                                      !.ids = ScopeActive(leases, q.scope)])
    /\ UNCHANGED world

\* It confirms those other issues closed before it retains anything.
SyncConfirm(p) ==
    /\ At(p, "confirm")
    /\ pass[p].issues \cap open \subseteq {pass[p].issue}
    /\ Goto(p, "retain")
    /\ UNCHANGED world

\* Nothing the scoped sync confirmed may have changed when it retains.
Unchanged(t, q) ==
    /\ SyncAdmits(t, q.issue, q.scope)
    /\ ScopeIssues(t, q.scope) = q.issues
    /\ ScopeActive(t, q.scope) = q.ids

\* The leases of the closed issue are retained.  A close only warns when that
\* fails and goes on; a sync stops (PassKeeps).
RetainClosed(p) ==
    /\ At(p, "retain")
    /\ LET q == pass[p]
       IN  \/ /\ q.mode = "sync" /\ q.scope # NoScope => Unchanged(leases, q)
              /\ leases' = IF q.scope = NoScope
                           THEN RetainIssue(leases, q.issue, MaxClock)
                           ELSE RetainScopeIds(leases, q.scope,
                                    ScopeActive(leases, q.scope),
                                    RetentionProof(leases, q.scope.number), MaxClock)
           \/ q.mode = "close" /\ UNCHANGED leases
    /\ Goto(p, "load")
    /\ UNCHANGED <<disk, open, host, late>>

\* CleanupContext::load, and a candidate row whose directory exists.
LoadCandidate(p) ==
    /\ At(p, "load")
    /\ \E i \in Stored(leases) :
          LET q == [pass[p] EXCEPT !.dir = leases[i].path]
          IN  /\ leases[i].issue = q.issue
              /\ q.scope # NoScope => leases[i].scope = q.scope
              /\ q.dir \in dirs
              /\ RowsAllow(leases, q)
              /\ Enter(p, WithRows(leases, q))
    /\ UNCHANGED world

(***************************************************************************)
(* The guards: rows, git, running sessions (prune only), issue closure.    *)
(* They run at the scan, again before the moves (prune), after them, and   *)
(* after the cache clearance.                                              *)
(***************************************************************************)

ReadRows(p) ==
    /\ At(p, "rows")
    /\ RowsAllow(leases, pass[p])
    /\ Enter(p, WithRows(leases, pass[p]))
    /\ UNCHANGED world

\* evaluate_guards: never the main checkout, never dirty.  The scan's cache
\* verdict is the baseline; afterwards no cache may be left.
ReadGit(p) ==
    /\ At(p, "git")
    /\ LET q    == pass[p]
           seen == content[q.dir]
       IN  /\ q.dir \in dirs \ {Main}
           /\ seen # "dirty"
           /\ q.phase \in {"recheck", "moved"} => seen = q.cache
           /\ q.phase = "cleared" => seen = "clean"
           /\ Enter(p, [q EXCEPT
                  !.cache = IF q.phase = "scan" THEN seen ELSE q.cache,
                  !.pc = IF q.mode \in {"prune", "preview"}
                         THEN "active" ELSE "closure"])
    /\ UNCHANGED world

\* RunningSnapshot
ReadActive(p) ==
    /\ At(p, "active")
    /\ \A s \in running : place[s] # pass[p].dir
    /\ Goto(p, "closure")
    /\ UNCHANGED world

\* closure_of and confirm_others_closed: all issues for prune, all but the
\* closed one otherwise; an unscoped sync refuses any other issue.
ReadClosure(p) ==
    /\ At(p, "closure")
    /\ LET q      == pass[p]
           others == q.issues \ {q.issue}
       IN  /\ CASE q.mode \in {"prune", "preview"} -> q.issues \cap open = {}
                [] q.mode = "sync" /\ q.scope = NoScope -> others = {}
                [] OTHER -> others \cap open = {}
           /\ IF q.phase = "moved"
              THEN Goto(p, "inspect")
              ELSE IF q.phase = "scan" /\ q.mode = "prune"
              THEN Enter(p, [q EXCEPT !.pc = "rows", !.phase = "recheck"])
              ELSE Goto(p, "family")
    /\ UNCHANGED world

(***************************************************************************)
(* finalize_family_with: who is hosted in the directory.                   *)
(***************************************************************************)

\* The assessment after the cache clearance only verifies.
Verify(q) == q.phase = "cleared"

\* close_root
CloseRoot(q) == IF q.mode = "close" /\ ~Verify(q) THEN {q.closer} \cap OpenCode
                ELSE {}

Family(q) == q.roots \cup CloseRoot(q)

\* The n-th parent of a session.
Ancestors(s) ==
    LET up[n \in 0..MaxParentEdges] ==
            IF n = 0 THEN s
            ELSE IF up[n - 1] = NoSession THEN NoSession ELSE Parent[up[n - 1]]
    IN  up

\* A root, or a session whose parent chain reaches one within the edge limit.
Related(s, family) ==
    \E n \in 0..MaxParentEdges : Ancestors(s)[n] \in family

\* running_blocker
RunningBlocks(q, intended) ==
    \E s \in running \ CloseRoot(q) :
        s \in intended \/ s \in q.accepted \/ place[s] = q.dir

\* Where a pass goes when the assessment does not keep the directory.
Released(q) ==
    CASE Verify(q) \/ q.mode = "report" -> [q EXCEPT !.pc = "remove"]
      [] ~Verify(q) /\ q.mode \in {"prune", "close"} ->
             [q EXCEPT !.pc = "rows", !.phase = "moved"]
      [] ~Verify(q) /\ q.mode = "sync"    -> [q EXCEPT !.pc = "inspect"]
      [] OTHER                           -> Idle

\* A report never asks the host; a close or a sync does only when some lease
\* of the directory belongs to an OpenCode session.
FamilyStart(p) ==
    /\ At(p, "family")
    /\ LET q        == pass[p]
           unasked  == q.roots = {} /\ q.mode \notin {"prune", "preview"}
       IN  /\ q.mode = "report" => q.roots = {}
           /\ Enter(p, IF unasked THEN Released(q)
                       ELSE [q EXCEPT !.pc = "locate", !.probe = Family(q),
                                      !.hosted = {}])
    /\ UNCHANGED world

\* locate_roots, one answer per step.
LocateRoot(p) ==
    /\ At(p, "locate")
    /\ \/ /\ pass[p].probe = {}
          /\ Goto(p, "list")
       \/ \E s \in pass[p].probe :
             Enter(p, [pass[p] EXCEPT
                 !.probe = @ \ {s},
                 !.hosted = IF place[s] = pass[p].dir THEN @ \cup {s} ELSE @])
    /\ UNCHANGED world

\* The complete listing; a root it places here although the root's own
\* answer did not is a disagreement.
ListOccupants(p) ==
    /\ At(p, "list")
    /\ LET q         == pass[p]
           occupants == {s \in OpenCode : place[s] = q.dir}
       IN  /\ occupants \cap Family(q) \subseteq q.hosted
           /\ Enter(p, [q EXCEPT
                  !.hosted = @ \cup occupants,
                  !.pc = IF q.mode = "sync" /\ ~Verify(q)
                         THEN "lineage" ELSE "running"])
    /\ UNCHANGED world

ReadRunning(p) ==
    /\ At(p, "running")
    /\ ~RunningBlocks(pass[p], {})
    /\ Goto(p, "lineage")
    /\ UNCHANGED world

\* Mutant of ProveLineage: occupants nobody asked about count as family.
ProveLineageSkipped(p) ==
    /\ At(p, "lineage")
    /\ LET q == pass[p]
       IN  \/ /\ q.hosted = {}
              /\ Enter(p, Released(q))
           \/ /\ q.hosted # {}
              /\ ~Verify(q)
              /\ q.mode \in {"prune", "close"}
              /\ Enter(p, [q EXCEPT !.pc = "move"])
    /\ UNCHANGED world

\* Nobody hosted here: done.  Otherwise every occupant must belong to the
\* family, and only prune and close may move it.
ProveLineage(p) ==
    /\ At(p, "lineage")
    /\ LET q == pass[p]
       IN  \/ /\ q.hosted = {}
              /\ Enter(p, Released(q))
           \/ /\ q.hosted # {}
              /\ ~Verify(q)
              /\ q.mode \in {"prune", "close"}
              /\ \A s \in q.hosted : Related(s, Family(q))
              /\ Enter(p, [q EXCEPT !.pc = "move"])
    /\ UNCHANGED world

(***************************************************************************)
(* release_family: stage A asks for every move, stage B waits for them.    *)
(***************************************************************************)

\* The next occupant, located again: at the main checkout it needs no move,
\* anywhere else but here it is left alone and the directory kept.  With no
\* occupant left, pending moves are waited for; only prune has a budget.
MoveNext(p) ==
    /\ At(p, "move")
    /\ LET q == pass[p]
       IN  \/ /\ q.hosted = {}
              /\ q.pending = {}
              /\ Goto(p, "vacant")
           \/ /\ q.hosted = {}
              /\ q.pending # {}
              /\ q.mode = "prune"
              /\ Goto(p, "wait")
           \/ \E s \in q.hosted :
                 \/ /\ place[s] = Main
                    /\ Enter(p, [q EXCEPT !.hosted = @ \ {s}])
                 \/ /\ place[s] = q.dir
                    /\ Enter(p, [q EXCEPT !.hosted = @ \ {s}, !.probe = {s},
                                          !.pc = "check"])
    /\ UNCHANGED world

CheckIdle(p) ==
    /\ At(p, "check")
    /\ ~RunningBlocks(pass[p], pass[p].probe)
    /\ Goto(p, "request")
    /\ UNCHANGED world

\* move_session: the host accepts; delivery is its own affair.
RequestMove(p) ==
    /\ At(p, "request")
    /\ inflight' = inflight \cup pass[p].probe
    /\ Enter(p, [pass[p] EXCEPT !.accepted = @ \cup pass[p].probe,
                                !.pc = "observe"])
    /\ UNCHANGED <<leases, disk, open, place, running, late>>

\* observe_request: arrived, still here (pending), or a third place (kept).
ObserveMove(p) ==
    /\ At(p, "observe")
    /\ \E s \in pass[p].probe :
          /\ place[s] \in {Main, pass[p].dir}
          /\ Enter(p, [pass[p] EXCEPT
                 !.pending = IF place[s] = Main THEN @ ELSE @ \cup {s},
                 !.probe = {}, !.pc = "move"])
    /\ UNCHANGED world

\* Mutant of AwaitPending: the deadline starts anew with every round.
AwaitPendingForever(p) ==
    /\ At(p, "wait")
    /\ ~RunningBlocks(pass[p], {})
    /\ Enter(p, [pass[p] EXCEPT !.probe = pass[p].pending, !.pc = "poll"])
    /\ UNCHANGED world

\* wait_pending, the head of the loop: while budget is left, nothing that was
\* asked to move may run; then one poll interval passes.
AwaitPending(p) ==
    /\ At(p, "wait")
    /\ pass[p].budget > 0
    /\ ~RunningBlocks(pass[p], {})
    /\ Enter(p, [pass[p] EXCEPT !.budget = @ - 1, !.probe = pass[p].pending,
                                !.pc = "poll"])
    /\ UNCHANGED world

\* One observation per pending session, then the next round or the end.
PollPending(p) ==
    /\ At(p, "poll")
    /\ \/ /\ pass[p].probe = {}
          /\ Goto(p, IF pass[p].pending = {} THEN "vacant" ELSE "wait")
       \/ \E s \in pass[p].probe :
             /\ place[s] \in {Main, pass[p].dir}
             /\ Enter(p, [pass[p] EXCEPT
                    !.probe = @ \ {s},
                    !.pending = IF place[s] = Main THEN @ \ {s} ELSE @])
    /\ UNCHANGED world

\* A fresh listing must be empty, every root must answer from elsewhere, and
\* nothing that was moved may run.
ProveVacant(p) ==
    /\ At(p, "vacant")
    /\ \A s \in OpenCode : place[s] # pass[p].dir
    /\ Enter(p, [pass[p] EXCEPT !.probe = Family(pass[p]), !.pc = "homes"])
    /\ UNCHANGED world

ProveHome(p) ==
    /\ At(p, "homes")
    /\ \/ /\ pass[p].probe = {}
          /\ Goto(p, "settled")
       \/ \E s \in pass[p].probe :
             /\ place[s] # pass[p].dir
             /\ Enter(p, [pass[p] EXCEPT !.probe = @ \ {s}])
    /\ UNCHANGED world

ProveSettled(p) ==
    /\ At(p, "settled")
    /\ ~RunningBlocks(pass[p], {})
    /\ Enter(p, Released([pass[p] EXCEPT !.accepted = {}]))
    /\ UNCHANGED world

(***************************************************************************)
(* clear_cache_only, the last check, git worktree remove, the lease rows.  *)
(***************************************************************************)

InspectCache(p) ==
    /\ At(p, "inspect")
    /\ pass[p].dir \in dirs
    /\ content[pass[p].dir] = pass[p].cache
    /\ Goto(p, "clear")
    /\ UNCHANGED world

\* Mutant of ClearCache: nothing is checked after the clearance.
ClearCacheLast(p) ==
    /\ At(p, "clear")
    /\ LET d    == pass[p].dir
           left == IF content[d] = "cache" /\ pass[p].cache = "cache"
                   THEN "clean" ELSE content[d]
       IN  /\ content' = [content EXCEPT ![d] = left]
           /\ IF left = "clean" THEN Goto(p, "remove") ELSE Keep(p)
    /\ late' = [late EXCEPT ![p] = {}]
    /\ UNCHANGED <<leases, dirs, open, host>>

\* Only an untracked root .cache is deleted; git status must be clean then,
\* and the guards run once more.
ClearCache(p) ==
    /\ At(p, "clear")
    /\ LET d    == pass[p].dir
           left == IF content[d] = "cache" /\ pass[p].cache = "cache"
                   THEN "clean" ELSE content[d]
       IN  /\ content' = [content EXCEPT ![d] = left]
           /\ IF left = "clean"
              THEN Enter(p, [pass[p] EXCEPT !.pc = "rows", !.phase = "cleared"])
              ELSE Keep(p)
    /\ late' = [late EXCEPT ![p] = {}]
    /\ UNCHANGED <<leases, dirs, open, host>>

\* Mutant of RemoveWorktree: the exit status of git is not looked at.
RemoveWorktreeUnchecked(p) ==
    /\ At(p, "remove")
    /\ dirs' = IF content[pass[p].dir] = "clean" THEN dirs \ {pass[p].dir} ELSE dirs
    /\ IF pass[p].mode = "prune" THEN Goto(p, "flip") ELSE Keep(p)
    /\ UNCHANGED <<leases, content, open, host, late>>

\* git worktree remove without --force refuses a tree that is not clean.
RemoveWorktree(p) ==
    /\ At(p, "remove")
    /\ pass[p].dir \in dirs
    /\ content[pass[p].dir] = "clean"
    /\ dirs' = dirs \ {pass[p].dir}
    /\ IF pass[p].mode = "prune" THEN Goto(p, "flip") ELSE Keep(p)
    /\ UNCHANGED <<leases, content, open, host, late>>

\* apply_removal releases the rows the scan saw, one statement each.
FlipRow(p) ==
    /\ At(p, "flip")
    /\ \/ /\ pass[p].ids = {}
          /\ Keep(p)
          /\ UNCHANGED leases
       \/ \E i \in pass[p].ids :
             /\ leases' = UpdateStatus(leases, i, "released", MaxClock)
             /\ Enter(p, [pass[p] EXCEPT !.ids = @ \ {i}])
    /\ UNCHANGED <<disk, open, host, late>>

\* Any check can fail, any read or write can return an error, the wait can
\* run out, the process can be killed: the pass ends where it is and nothing
\* it did is undone.
PassKeeps(p) ==
    /\ ~At(p, "idle")
    /\ Keep(p)
    /\ UNCHANGED world

(***************************************************************************)
(* The rest of the world: other processes, the provider, the host.         *)
(***************************************************************************)

\* A fact that appears reaches the record of the passes past the clearance.
Appears(facts) ==
    late' = [p \in Passes |-> IF pass[p].phase = "cleared"
                              THEN late[p] \cup facts ELSE {}]

\* worktree acquire in a checkout nobody holds.
LeaseTaken ==
    /\ "acquire" \in Events
    /\ \E i \in LeaseIds, issue \in Issues, session \in Sessions, d \in dirs,
          scope \in Scopes \cup {NoScope} :
          LET row == [issue |-> issue, session |-> session, path |-> d,
                      scope |-> scope, status |-> "active",
                      heartbeat |-> MaxClock, reason |-> "null"]
          IN  /\ d # Main
              /\ scope # NoScope => /\ scope.number = issue
                                    /\ ~UnscopedCollision(leases, issue)
              /\ CanInsert(leases, row)
              /\ NextId(leases, i)
              /\ leases' = Insert(leases, i, row)
              /\ Appears({<<"lease", i>>, <<"issue", issue>>})
    /\ UNCHANGED <<disk, open, host, pass>>

\* worktree release, or the retention of another close.
LeaseEnds ==
    /\ "release" \in Events
    /\ \E i \in Active(leases) :
          leases' = UpdateStatus(leases, i, "retained", MaxClock)
    /\ UNCHANGED <<disk, open, host, pass, late>>

IssueCloses ==
    /\ "issues" \in Events
    /\ \E issue \in open : open' = open \ {issue}
    /\ UNCHANGED <<leases, disk, host, pass, late>>

IssueReopens ==
    /\ "issues" \in Events
    /\ \E issue \in Issues \ open : /\ open' = open \cup {issue}
                                    /\ Appears({<<"issue", issue>>})
    /\ UNCHANGED <<leases, disk, host, pass>>

FilesChange ==
    /\ "files" \in Events
    /\ \E d \in dirs \ {Main}, c \in Contents : content' = [content EXCEPT ![d] = c]
    /\ UNCHANGED <<leases, dirs, open, host, pass, late>>

SessionMoves ==
    /\ "sessions" \in Events
    /\ \E s \in OpenCode, d \in dirs :
          /\ place[s] # d
          /\ place' = [place EXCEPT ![s] = d]
          /\ Appears({<<"session", s>>})
    /\ UNCHANGED <<leases, disk, open, running, inflight, pass>>

SessionRuns ==
    /\ "running" \in Events
    /\ \E s \in OpenCode :
          running' = IF s \in running THEN running \ {s} ELSE running \cup {s}
    /\ UNCHANGED <<leases, disk, open, place, inflight, pass, late>>

\* The host delivers an accepted move.
MoveDelivered ==
    /\ \E s \in inflight : /\ place' = [place EXCEPT ![s] = Main]
                           /\ inflight' = inflight \ {s}
    /\ UNCHANGED <<leases, disk, open, running, pass, late>>

Start(p) == PruneStart(p) \/ CloseStart(p) \/ SyncStart(p)

Guards(p) ==
    \/ PruneRecover(p) \/ SyncAgain(p) \/ SyncConfirm(p) \/ RetainClosed(p)
    \/ LoadCandidate(p)
    \/ ReadRows(p) \/ ReadGit(p) \/ ReadActive(p) \/ ReadClosure(p)

Assess(p) ==
    \/ FamilyStart(p) \/ LocateRoot(p) \/ ListOccupants(p) \/ ReadRunning(p)
    \/ ProveLineage(p)

ReleaseFamily(p) ==
    \/ MoveNext(p) \/ CheckIdle(p) \/ RequestMove(p) \/ ObserveMove(p)
    \/ AwaitPending(p) \/ PollPending(p) \/ ProveVacant(p) \/ ProveHome(p)
    \/ ProveSettled(p)

Remove(p) == InspectCache(p) \/ ClearCache(p) \/ RemoveWorktree(p) \/ FlipRow(p)

PassStep(p) ==
    Guards(p) \/ Assess(p) \/ ReleaseFamily(p) \/ Remove(p) \/ PassKeeps(p)

World ==
    \/ LeaseTaken \/ LeaseEnds \/ IssueCloses \/ IssueReopens \/ FilesChange
    \/ SessionMoves \/ SessionRuns \/ MoveDelivered

Next == (\E p \in Passes : Start(p) \/ PassStep(p)) \/ World

Spec == Init /\ [][Next]_vars

\* A command keeps taking steps: every call it waits for has a timeout.
FairSpec == Spec /\ \A p \in Passes : WF_vars(PassStep(p))

(***************************************************************************)
(* Properties.                                                             *)
(***************************************************************************)

RemovedBy(p) == At(p, "remove") /\ pass[p].dir \in dirs \ dirs'

\* What forbids pass p to remove its directory: another session's active
\* lease, an open issue that is not the one being closed, and a session
\* hosted there if the pass asked the host at all.
Blockers(p) ==
    LET q == pass[p]
        prune == q.mode = "prune"
    IN  {<<"lease", i>> : i \in {j \in ActiveOnPath(leases, q.dir) :
                                    leases[j].session # q.closer}}
        \cup {<<"issue", i>> : i \in (IssuesOn(leases, q.dir) \cap open)
                                     \ (IF prune THEN {} ELSE {q.issue})}
        \cup {<<"session", s>> : s \in {x \in DOMAIN place :
                 place[x] = q.dir /\ (prune \/ q.roots # {})}}

\* No directory is removed over evidence a pass had the time to see: whatever
\* forbids the removal when git runs appeared after the cache clearance.  The
\* earlier answers, the scan's and the ones before the moves, never count.
RemovalEvidenceFresh ==
    [][\A p \in Passes :
          RemovedBy(p) /\ pass[p].mode # "report" => Blockers(p) \subseteq late[p]]_vars

\* A directory that held an active lease when prune started is not removed by
\* that call, although its own stale recovery made the lease terminal.
PinnedNotRemoved ==
    [][\A p \in Passes : RemovedBy(p) => ~pass[p].pinned]_vars

\* A session is asked to move only by prune or close, and only if it is, or
\* descends from, a session some lease associates with the directory, or the
\* closing session itself: nobody else's session is ever moved.
OnlyFamilyMoved ==
    [][\A s \in inflight' \ inflight :
          \E p \in Passes :
             /\ pass[p].mode \in {"prune", "close"}
             /\ Related(s, RootsOn(leases, pass[p].dir)
                           \cup ({pass[p].closer} \ {NoSession}))]_vars

\* Rows are released by a removal only once their directory is gone: a pass
\* that keeps the directory, or dies before git ran, leaves the rows alone.
ReleasedAfterRemoval ==
    [][\A i \in LeaseIds :
          leases'[i].status = "released" /\ leases[i].status # "released" =>
              leases[i].path \notin dirs]_vars

\* Every pass comes to an end: the wait for pending moves has a budget that
\* is shared and never renewed, whatever the host does meanwhile.
PassEnds == \A p \in Passes : ~At(p, "idle") ~> At(p, "idle")

\* "Report mode ... never retains, removes, or moves anything."
ReportNeverRemoves ==
    [][\A p \in Passes : RemovedBy(p) => pass[p].mode # "report"]_vars
=============================================================================

-------------------------------- MODULE Desk --------------------------------
(***************************************************************************)
(* The `worktree` command surface: the dispatcher's admission (caller,     *)
(* flags, durable task, context), the reconciliation it may run first, the *)
(* commands behind it, the create hook, the read-only probe, the global    *)
(* prune loop, and the adapter reading the lease pages one process at a    *)
(* time.  How a lease is chosen and a directory removed is in Leases and   *)
(* Cleanup; here a lease row is what the commands name and select.         *)
(***************************************************************************)
EXTENDS Integers, Sequences, FiniteSets

CONSTANTS
    Procs,        \* concurrent command processes
    Callers,      \* who runs a command
    Issues, Repos, Sessions,
    Environments, \* what PHASEGENT_SESSION_ID may hold
    Tasks,        \* durable tasks a number can belong to
    Limit,        \* LEASE_PAGE_LIMIT
    MaxPages,     \* MAX_LEASE_PAGES
    StartRows,    \* the lease tables the commands find
    MaxRows,      \* bound on leases ever recorded
    MaxCommands,  \* bound on commands
    MaxChanges,   \* bound on changes outside the commands
    None

VARIABLES
    rows,      \* worktree_leases, in the order of created_at
    legacy,    \* the default provider keeps unscoped numeric leases
    tasks,     \* the durable task of every number, None or "ambiguous"
    closed,    \* issues closed on the tracker
    proc,      \* the commands under way
    walk,      \* the adapter's readCompleteLeaseCollection
    commands, changes

vars == <<rows, legacy, tasks, closed, proc, walk, commands, changes>>

Statuses == {"active", "retained", "released"}
Kinds == {"acquire", "create", "release", "heartbeat", "status", "list", "probe", "prune"}
RawSessions == Sessions \cup {"blank", None}

\* The raw command lines, the environment's session identity included; a field a
\* command does not read has one value.
Lines ==
    [kind : Kinds, caller : Callers, issue : Issues, explicit : RawSessions,
     env : Environments, sync : BOOLEAN, dry : BOOLEAN, reason : BOOLEAN]
Commands ==
    {c \in Lines :
        /\ c.kind \notin {"acquire", "create", "heartbeat"} => c.env = None
        /\ c.explicit # None => c.env = None
        /\ c.kind \notin {"acquire", "create", "heartbeat", "probe"} => c.explicit = None
        /\ c.sync => c.kind \in {"acquire", "list"}
        /\ c.dry => c.kind = "prune"
        /\ c.reason => c.kind \in {"prune", "release"}}

Idle == [pc |-> "idle"]
NoWalk == [pc |-> "idle"]

TypeOK ==
    /\ \A i \in 1..Len(rows) : /\ rows[i].issue \in Issues
                               /\ rows[i].session \in Sessions
                               /\ rows[i].status \in Statuses
    /\ closed \subseteq Issues
    /\ legacy \in BOOLEAN

-----------------------------------------------------------------------------
(* Sessions, callers and lease rows. *)

\* resolve_session: the flag, else the environment; a blank or overlong value is
\* refused and no owner is made up.
ResolveSession(explicit, env) ==
    LET raw == IF explicit # None THEN explicit ELSE env
    IN  IF raw \in {"blank", None} THEN None ELSE raw

\* is_orchestrator_authorized, is_worktree_read_authorized.
OrchestratorAuthorized(caller) == caller \in {"operator", "orchestrator"}
ReadAuthorized(caller) == caller \in {"operator", "orchestrator", "executor", "reviewer"}
Authorized(c) ==
    \/ c.kind = "create"
    \/ c.kind \in {"status", "list", "probe"} /\ ReadAuthorized(c.caller)
    \/ OrchestratorAuthorized(c.caller)

Active(i) == rows[i].status = "active"

\* list_for_issue, the PAGE_FILTER of a status read: active rows without a scope.
OfIssue(issue) == {i \in 1..Len(rows) : rows[i].issue = issue /\ Active(i) /\ rows[i].scope = None}

\* list_for_repo, list_all_for_repo: every row, terminal ones included.
OfRepo(repo) == {i \in 1..Len(rows) : rows[i].repo = repo}

RepoIdentities == {rows[i].repo : i \in 1..Len(rows)}

\* The pages of a selection in ascending order of created_at.
PageAscending(selected, page) ==
    LET before(i) == Cardinality({j \in selected : j < i})
    IN  {i \in selected : before(i) \in ((page - 1) * Limit)..(page * Limit - 1)}

\* page_leases: ORDER BY created_at DESC with LIMIT and OFFSET, in one transaction
\* with the count.
PageLeases(selected, page) ==
    LET before(i) == Cardinality({j \in selected : j > i})
    IN  {i \in selected : before(i) \in ((page - 1) * Limit)..(page * Limit - 1)}

\* find_active_lease_for_probe: the newest active unscoped row of the issue.
ProbeLease(repo, issue, session) ==
    LET hits == {i \in OfIssue(issue) \cap OfRepo(repo) :
                    session = None \/ rows[i].session = session}
    IN  IF hits = {} THEN None ELSE CHOOSE i \in hits : \A j \in hits : j <= i

-----------------------------------------------------------------------------
(* The probe: what git answered, "fails" included, and what is reported. *)

GitAnswers ==
    {g \in [exists : BOOLEAN, inside : {"yes", "no", "fails"}, status : {"clean", "dirty", "fails"},
            branch : {"main", "fails"}, head : {"sha", "none", "fails"},
            dirs : {"same", "differ", "fails"}] :
        /\ g.exists \/ g.inside = "no"
        /\ g.inside # "yes" => [g EXCEPT !.exists = TRUE, !.inside = "no"]
                               = [exists |-> TRUE, inside |-> "no", status |-> "fails",
                                  branch |-> "fails", head |-> "fails", dirs |-> "fails"]}

\* probe_path, push_error: a failure degrades its own fact to None and leaves an error.
ProbePath(git) ==
    LET empty == [exists |-> FALSE, tree |-> FALSE, clean |-> None, branch |-> None,
                  head |-> None, main |-> None, errors |-> {"state"}]
    IN  CASE ~git.exists -> empty
          [] git.exists /\ git.inside # "yes" ->
               [empty EXCEPT !.exists = TRUE,
                             !.errors = @ \cup IF git.inside = "fails" THEN {"inside"} ELSE {}]
          [] OTHER ->
               [exists |-> TRUE, tree |-> TRUE,
                clean |-> IF git.status = "fails" THEN None ELSE git.status = "clean",
                branch |-> IF git.branch = "fails" THEN None ELSE git.branch,
                head |-> IF git.head \in {"none", "fails"} THEN None ELSE git.head,
                main |-> IF git.dirs = "fails" THEN None ELSE git.dirs = "same",
                errors |-> {k \in {"status", "head", "dirs"} : git[k] = "fails"}]

-----------------------------------------------------------------------------
Init ==
    /\ rows \in StartRows
    /\ legacy \in BOOLEAN
    /\ tasks \in [Issues -> {None}]
    /\ closed = {}
    /\ proc = [p \in Procs |-> Idle]
    /\ walk = NoWalk
    /\ commands = 0 /\ changes = 0

Start(p, c) ==
    /\ proc[p].pc = "idle"
    /\ commands < MaxCommands
    /\ commands' = commands + 1
    /\ proc' = [proc EXCEPT ![p] = [pc |-> "admit", cmd |-> c]]
    /\ UNCHANGED <<rows, legacy, tasks, closed, walk, changes>>

\* An answer with content; every other answer just ends the process.
Told(p, data) == [proc EXCEPT ![p] = [pc |-> "done", kind |-> proc[p].cmd.kind, data |-> data]]
Ends(p) == [proc EXCEPT ![p] = Idle]

Finish(p) ==
    /\ proc[p].pc = "done"
    /\ proc' = [proc EXCEPT ![p] = Idle]
    /\ UNCHANGED <<rows, legacy, tasks, closed, walk, commands, changes>>

\* execute_worktree_scoped up to the reconciliation: a managed caller without a role is
\* refused, an acquire validates its flags and resolves its durable task; without a
\* task the raw context is validated.  A create arrives with the task it just bound.
Admit(p, flagsOk) ==
    LET c == proc[p].cmd
        task == IF c.kind \in {"acquire", "create"} THEN tasks[c.issue] ELSE None
        refused == \/ c.caller = "managed" /\ c.kind # "create"
                   \/ ~flagsOk /\ c.kind \in {"acquire", "list", "prune"}
                   \/ task = "ambiguous"
    IN  /\ proc[p].pc = "admit"
        /\ proc' = IF refused \/ (c.kind = "create" /\ task = None) THEN Ends(p)
                   ELSE [proc EXCEPT ![p] = [pc |-> "taxi", cmd |-> c, task |-> task]]
        /\ UNCHANGED <<rows, legacy, tasks, closed, walk, commands, changes>>

\* A reconciliation any caller's list sets off.
TaxiRunsForAll(c) == c.kind \in {"acquire", "list"} /\ c.sync

\* sync_taxi: acquire and list, unless --no-sync, and only for an orchestrator.
TaxiRuns(c) == c.kind \in {"acquire", "list"} /\ c.sync /\ OrchestratorAuthorized(c.caller)

\* taxi_sync_scoped: retains the active rows of issues closed on the tracker; a provider
\* that does not answer skips it.
Taxi(p, reached) ==
    LET gone(i) == Active(i) /\ rows[i].issue \in closed
    IN  /\ proc[p].pc = "taxi"
        /\ reached => TaxiRuns(proc[p].cmd)
        /\ rows' = IF ~reached THEN rows
                   ELSE [i \in 1..Len(rows) |->
                           IF gone(i) THEN [rows[i] EXCEPT !.status = "retained",
                                                           !.reason = "issue closed"]
                           ELSE rows[i]]
        /\ proc' = [proc EXCEPT ![p].pc = "serve"]
        /\ UNCHANGED <<legacy, tasks, closed, walk, commands, changes>>

\* execute_acquire_scoped: the durable task owns the lease; otherwise a provider without
\* legacy numeric leases records its own scope, and the others none.
ScopeOf(task) == IF task # None THEN task ELSE IF legacy THEN None ELSE "default"

\* acquire_lease_scoped and its siblings: the caller's own active lease again, or a new
\* row.  Where it lies is decided in Leases.
Book(issue, session, scope, repo) ==
    LET own == {i \in OfRepo(repo) : /\ Active(i) /\ rows[i].issue = issue
                                     /\ rows[i].session = session /\ rows[i].scope = scope}
    IN  IF own # {} \/ Len(rows) = MaxRows THEN rows
        ELSE Append(rows, [repo |-> repo, issue |-> issue, session |-> session, scope |-> scope,
                           status |-> "active", fresh |-> TRUE, reason |-> None])

\* execute_acquire_at, execute_acquire_at_scoped: the identity first, then storage and
\* git, which may fail before anything is written.
Acquire(p, repo, fails) ==
    LET c == proc[p].cmd
        session == ResolveSession(c.explicit, c.env)
    IN  /\ proc[p].pc = "serve" /\ c.kind = "acquire" /\ Authorized(c)
        /\ IF session = None \/ fails
           THEN rows' = rows /\ proc' = Ends(p)
           ELSE /\ rows' = Book(c.issue, session, ScopeOf(proc[p].task), repo)
                /\ proc' = Ends(p)
        /\ UNCHANGED <<legacy, tasks, closed, walk, commands, changes>>

\* auto_acquire_after_create_scoped: the same booking under the task, and silence or a
\* warning instead of every failure.
CreateHook(p, repo, fails) ==
    LET c == proc[p].cmd
        session == ResolveSession(c.explicit, c.env)
    IN  /\ proc[p].pc = "serve" /\ c.kind = "create"
        /\ rows' = IF session = None \/ fails THEN rows
                   ELSE Book(c.issue, session, proc[p].task, repo)
        /\ proc' = Ends(p)
        /\ UNCHANGED <<legacy, tasks, closed, walk, commands, changes>>

\* execute_release: a forced release needs a justification.
Release(p, i, force, retain) ==
    LET c == proc[p].cmd IN
    /\ proc[p].pc = "serve" /\ c.kind = "release" /\ Authorized(c)
    /\ IF force /\ ~c.reason THEN rows' = rows /\ proc' = Ends(p)
       ELSE /\ rows' = IF ~Active(i) THEN rows
                       ELSE [rows EXCEPT ![i].status = IF retain THEN "retained" ELSE "released",
                                         ![i].reason = IF force THEN "forced" ELSE None]
            /\ proc' = Ends(p)
    /\ UNCHANGED <<legacy, tasks, closed, walk, commands, changes>>

\* execute_heartbeat: only the owner's active lease.
Heartbeat(p, i) ==
    LET c == proc[p].cmd
        session == ResolveSession(c.explicit, c.env)
        owned == session # None /\ Active(i) /\ rows[i].session = session
    IN  /\ proc[p].pc = "serve" /\ c.kind = "heartbeat" /\ Authorized(c)
        /\ rows' = IF owned THEN [rows EXCEPT ![i].fresh = TRUE] ELSE rows
        /\ proc' = Ends(p)
        /\ UNCHANGED <<legacy, tasks, closed, walk, commands, changes>>

\* execute_status_page, execute_list_page.
ReadLeases(p, repo) ==
    LET c == proc[p].cmd IN
    /\ proc[p].pc = "serve" /\ c.kind \in {"status", "list"} /\ Authorized(c)
    /\ proc' = Told(p, IF c.kind = "status" THEN OfIssue(c.issue) ELSE OfRepo(repo))
    /\ UNCHANGED <<rows, legacy, tasks, closed, walk, commands, changes>>

\* build_probe: the lease is looked up, then its directory is probed.
ReadProbe(p, repo) ==
    LET c == proc[p].cmd IN
    /\ proc[p].pc = "serve" /\ c.kind = "probe" /\ Authorized(c)
    /\ proc' = Told(p, ProbeLease(repo, c.issue, c.explicit))
    /\ UNCHANGED <<rows, legacy, tasks, closed, walk, commands, changes>>

\* permission_error.
Deny(p) ==
    /\ proc[p].pc = "serve"
    /\ ~Authorized(proc[p].cmd)
    /\ proc' = Ends(p)
    /\ UNCHANGED <<rows, legacy, tasks, closed, walk, commands, changes>>

-----------------------------------------------------------------------------
(* execute_prune_with_source. *)

\* resolve_scopes: the repositories recorded when the pass starts.  An applied recovery
\* without a reason is refused before that.
PruneStart(p, recover) ==
    LET c == proc[p].cmd IN
    /\ proc[p].pc = "serve" /\ c.kind = "prune" /\ Authorized(c)
    /\ proc' = IF recover /\ ~c.dry /\ ~c.reason THEN Ends(p)
               ELSE [proc EXCEPT ![p] = [pc |-> "prune", cmd |-> c, apply |-> recover /\ ~c.dry,
                                         left |-> RepoIdentities, known |-> Len(rows),
                                         skipped |-> {}, passed |-> {},
                                         failed |-> FALSE]]
    /\ UNCHANGED <<rows, legacy, tasks, closed, walk, commands, changes>>

\* A skipped repository that ends the whole pass.
SkipEnds(s, repo) == [s EXCEPT !.left = {}, !.skipped = @ \cup {repo}]

\* Scope::Skipped and an unreadable scope map: the next repository is still handled.
SkipRepo(s, repo) == [s EXCEPT !.left = @ \ {repo}, !.skipped = @ \cup {repo}]

\* StaleRecoveryScope: a provider with legacy leases recovers unscoped rows, one without
\* exactly its own scope.
Recoverable(i) == rows[i].scope = IF legacy THEN None ELSE "default"

\* One repository of the loop: resolve_known_identity and the scope map may skip it, a
\* storage error ends the command, otherwise stale leases are recovered and the removal
\* pass (Cleanup) runs, in which a removal may fail.
PruneRepo(p, repo, seen, removalFails) ==
    LET s == proc[p]
        stale == {i \in OfRepo(repo) : Active(i) /\ ~rows[i].fresh /\ Recoverable(i)}
    IN  /\ s.pc = "prune" /\ repo \in s.left
        /\ CASE seen = "storage" -> rows' = rows /\ proc' = Ends(p)
             [] seen = "skipped" -> rows' = rows /\ proc' = [proc EXCEPT ![p] = SkipRepo(s, repo)]
             [] seen = "resolved" ->
                  /\ rows' = IF ~s.apply THEN rows
                             ELSE [i \in 1..Len(rows) |->
                                     IF i \in stale THEN [rows[i] EXCEPT !.status = "retained",
                                                                         !.reason = "stale"]
                                     ELSE rows[i]]
                  /\ proc' = [proc EXCEPT ![p] =
                                [s EXCEPT !.left = @ \ {repo}, !.passed = @ \cup {repo},
                                          !.failed = @ \/ (removalFails /\ ~s.cmd.dry)]]
        /\ UNCHANGED <<legacy, tasks, closed, walk, commands, changes>>

\* The aggregate: a failed removal keeps a non-zero exit.
PruneEnd(p) ==
    LET s == proc[p] IN
    /\ s.pc = "prune" /\ s.left = {}
    /\ proc' = Told(p, [reported |-> s.skipped \cup s.passed, failed |-> s.failed])
    /\ UNCHANGED <<rows, legacy, tasks, closed, walk, commands, changes>>

-----------------------------------------------------------------------------
(* The adapter: readCompleteLeaseCollection, one process per page. *)

Selected(w) == IF w.by = "issue" THEN OfIssue(w.of) ELSE OfRepo(w.of)

\* readIssueLeases, readIssueLeaseHistory.
WalkStart(by, of) ==
    /\ walk.pc = "idle"
    /\ changes < MaxChanges
    /\ changes' = changes + 1
    /\ walk' = [pc |-> "page", by |-> by, of |-> of, page |-> 1, total |-> 0, got |-> {},
                since |-> Len(rows)]
    /\ UNCHANGED <<rows, legacy, tasks, closed, proc, commands>>

Ended(result) == [pc |-> "ended", by |-> walk.by, of |-> walk.of, since |-> walk.since,
                  result |-> result]

\* One page: the first one fixes the total, every other has to agree with it, and a page
\* that is short, long, repeated or says the wrong has_more ends the walk with nothing.
WalkPage(answers) ==
    LET selected == Selected(walk)
        total == IF walk.page = 1 THEN Cardinality(selected) ELSE walk.total
        pages == IF total = 0 THEN 1 ELSE (total + Limit - 1) \div Limit
        items == PageLeases(selected, walk.page)
        seen == Cardinality(walk.got)
        more == walk.page * Limit < Cardinality(selected)
        expected == IF total - seen < Limit THEN total - seen ELSE Limit
        sound == /\ answers
                 /\ Cardinality(selected) = total /\ total <= Limit * MaxPages
                 /\ walk.page <= pages
                 /\ Cardinality(items) = expected
                 /\ more = (seen + Cardinality(items) < total)
                 /\ items \cap walk.got = {}
        got == walk.got \cup items
    IN  /\ walk.pc = "page"
        /\ walk' = IF ~sound THEN Ended(None)
                   ELSE IF more THEN [walk EXCEPT !.page = @ + 1, !.total = total, !.got = got,
                                                  !.since = IF walk.page = 1 THEN Len(rows) ELSE @]
                   ELSE [Ended(IF Cardinality(got) = total THEN got ELSE None)
                            EXCEPT !.since = IF walk.page = 1 THEN Len(rows) ELSE @]
        /\ UNCHANGED <<rows, legacy, tasks, closed, proc, commands, changes>>

WalkEnd ==
    /\ walk.pc = "ended"
    /\ walk' = NoWalk
    /\ UNCHANGED <<rows, legacy, tasks, closed, proc, commands, changes>>

-----------------------------------------------------------------------------
(* Outside the commands. *)

\* A default provider is configured, a number is bound or becomes ambiguous, an issue is
\* closed on the tracker, time passes.
Outside ==
    /\ changes < MaxChanges
    /\ changes' = changes + 1
    /\ \/ legacy' = ~legacy /\ UNCHANGED <<rows, tasks, closed>>
       \/ /\ \E n \in Issues, t \in Tasks \cup {"ambiguous"} : tasks' = [tasks EXCEPT ![n] = t]
          /\ UNCHANGED <<rows, legacy, closed>>
       \/ /\ \E n \in Issues \ closed : closed' = closed \cup {n}
          /\ UNCHANGED <<rows, legacy, tasks>>
       \/ /\ rows' = [i \in 1..Len(rows) |-> [rows[i] EXCEPT !.fresh = FALSE]]
          /\ UNCHANGED <<legacy, tasks, closed>>
    /\ UNCHANGED <<proc, walk, commands>>

Step(p) ==
    \/ \E flagsOk \in BOOLEAN : Admit(p, flagsOk)
    \/ \E reached \in BOOLEAN : Taxi(p, reached)
    \/ \E repo \in Repos, fails \in BOOLEAN : Acquire(p, repo, fails) \/ CreateHook(p, repo, fails)
    \/ \E i \in 1..Len(rows), force \in BOOLEAN, retain \in BOOLEAN : Release(p, i, force, retain)
    \/ \E i \in 1..Len(rows) : Heartbeat(p, i)
    \/ \E repo \in Repos : ReadLeases(p, repo) \/ ReadProbe(p, repo)
    \/ Deny(p)
    \/ \E recover \in BOOLEAN : PruneStart(p, recover)
    \/ \E repo \in Repos, seen \in {"resolved", "skipped", "storage"}, fails \in BOOLEAN :
          PruneRepo(p, repo, seen, fails)
    \/ PruneEnd(p)
    \/ Finish(p)

Next ==
    \/ \E p \in {q \in Procs : proc[q].pc = "idle" /\ commands < MaxCommands} :
          \E c \in Commands : Start(p, c)
    \/ \E p \in Procs : Step(p)
    \/ \E n \in Issues : WalkStart("issue", n)
    \/ \E r \in Repos : WalkStart("repo", r)
    \/ \E answers \in BOOLEAN : WalkPage(answers)
    \/ WalkEnd
    \/ Outside

Spec == Init /\ [][Next]_vars
-----------------------------------------------------------------------------
(* Properties. *)

\* A collection the adapter gets from the pages is complete although every page is a
\* process of its own and leases come and go in between: every lease that was selected
\* from the first page to the last is in it (leases of one walk in distinct seconds).
WalkIsComplete ==
    walk.pc = "ended" /\ walk.result # None =>
        {i \in Selected(walk) : i <= walk.since} \subseteq walk.result

\* A caller without orchestrator authority never changes a lease, through no command and
\* through no reconciliation a command runs first (a create books its own task).
ReadersStep ==
    \A p \in Procs :
       /\ proc[p].pc \in {"admit", "taxi", "serve", "prune"} /\ proc'[p] # proc[p]
       /\ ~OrchestratorAuthorized(proc[p].cmd.caller) /\ proc[p].cmd.kind # "create"
       => rows' = rows

\* The lease an acquire books names the durable task its number belonged to when the
\* command was admitted, whatever default provider is configured meanwhile.
LeaseStep ==
    \A p \in Procs :
       /\ proc[p].pc = "serve" /\ proc'[p] # proc[p] /\ Len(rows') > Len(rows)
       => \/ proc[p].task = None
          \/ rows'[Len(rows')].scope = proc[p].task

\* A prune that comes to its end has passed or skipped every repository that had a
\* lease when it began: none is left out of its report.
PruneReportsAll ==
    \A p \in Procs :
        proc[p].pc = "prune" /\ proc[p].left = {} =>
            \A i \in 1..Len(rows) : rows[i].repo \in proc[p].skipped \cup proc[p].passed
                                     \/ i > proc[p].known

\* The probe never guesses: whatever git calls fail, whether a tree is clean or the main checkout is
\* reported only if git answered, and a call for one of the two that failed leaves an error beside
\* the missing fact.  (A branch that cannot be read is missing without an error.)
ProbeNeverGuesses ==
    \A git \in GitAnswers :
        LET facts == ProbePath(git) IN
        /\ facts.clean = TRUE => git.exists /\ git.inside = "yes" /\ git.status = "clean"
        /\ facts.main = TRUE => git.dirs = "same"
        /\ facts.tree /\ facts.clean = None => "status" \in facts.errors
        /\ facts.errors = {} => None \notin {facts.clean, facts.main}

=============================================================================

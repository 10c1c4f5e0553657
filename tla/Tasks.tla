------------------------------- MODULE Tasks -------------------------------
(***************************************************************************)
(* The durable task identity, the branch links and what is resolved from   *)
(* them: `issue bind`, `issue unbind`, `issue create`, the route of a      *)
(* numbered command, the route of a timer and the closure check of a       *)
(* directory's other issues.                                               *)
(*                                                                         *)
(* All commands of a machine share one SQLite store; a step is one         *)
(* statement or one transaction on it, or one request to a tracker.  A     *)
(* command may die between two steps, the configured endpoint may be       *)
(* changed by another command, and trackers close and reopen issues by     *)
(* themselves.  A task id is its row's position in `tasks`.                *)
(***************************************************************************)
EXTENDS Naturals, Sequences, FiniteSets, SequencesExt, TLC

CONSTANTS
    Procs,      \* commands that may run at the same time
    Checkouts,  \* [repo, branch] of the directories commands run in
    Contexts,   \* explicit selections: [provider, base, repository, project]
    Configs,    \* stored settings: [kind, redmine, forgejo, origin]
    Trackers,   \* the scopes issues exist in: [provider, instance, project]
    Numbers,    \* issue numbers
    DefaultBranch,  \* the default branch the cached remote HEAD names, or None
    MaxCalls,   \* bound on the commands started
    MaxMoves,   \* bound on the changes nobody asked for (settings, trackers)
    Legacy, Ambiguous, Refused,   \* routes that name no task
    None

ASSUME TaskConstants ==
    /\ MaxCalls \in Nat /\ MaxMoves \in Nat
    /\ {None, Legacy, Ambiguous, Refused} \cap Nat = {}
    /\ \A c \in Checkouts : DOMAIN c = {"repo", "branch"}
    /\ \A t \in Trackers : t.provider \in {"redmine", "forgejo", "local"}

VARIABLES
    tasks,      \* task_bindings, by id
    members,    \* task_repo_memberships: <<repo, task id>>
    links,      \* branch_issue_links
    config,     \* the settings of the role
    issues,     \* the trackers' issues: key |-> "open" or "closed"
    proc,       \* the commands
    sent,       \* history: the requests of the numbered commands
    calls,
    moves       \* the clock of those changes; it starts at 1

store == <<tasks, members, links>>
vars == <<tasks, members, links, config, issues, proc, sent, calls, moves>>

Idle == [pc |-> "idle"]

----------------------------------------------------------------------------
(* Selections and keys.                                                    *)

ScopeOf(key) == [provider |-> key.provider, instance |-> key.instance, project |-> key.project]

TaskKey(scope, n) ==
    [provider |-> scope.provider, instance |-> scope.instance,
     project |-> scope.project, number |-> n]

\* Explicit provider first, then the stored default.
ResolveKind(ctx) == IF ctx.provider # None THEN ctx.provider ELSE config.kind

\* The trusted instance is the stored one; a selected endpoint may only
\* repeat it.  The repository is the selected one, or the checkout's origin.
ForgejoSelect(ctx) ==
    IF config.forgejo = None \/ ctx.base \notin {None, config.forgejo}
    THEN None
    ELSE [provider |-> "forgejo", instance |-> config.forgejo,
          project |-> IF ctx.repository # None THEN ctx.repository ELSE config.origin]

\* An explicit endpoint wins over the stored address; the project is never
\* taken from the settings.
RedmineSelect(ctx) ==
    IF ctx.base = None /\ config.redmine = None
    THEN None
    ELSE [provider |-> "redmine",
          instance |-> IF ctx.base # None THEN ctx.base ELSE config.redmine,
          project |-> ctx.project]

LocalScope == [provider |-> "local", instance |-> "local", project |-> "default"]

\* The provider an unrouted command talks to, None when none can be built.
ProviderFor(ctx) ==
    CASE ResolveKind(ctx) = "forgejo" ->
            IF ctx.project # None THEN None ELSE ForgejoSelect(ctx)
      [] ResolveKind(ctx) = "redmine" -> RedmineSelect(ctx)
      [] OTHER -> LocalScope

\* The scope a bind writes its rows under; Redmine needs --project-id.
ResolveLinkScope(ctx) ==
    CASE ResolveKind(ctx) = "redmine" ->
            IF ctx.project = None THEN None
            ELSE [provider |-> "redmine", project |-> ctx.project]
      [] ResolveKind(ctx) = "forgejo" ->
            LET selected == ForgejoSelect([ctx EXCEPT !.base = None])
            IN  IF selected = None THEN None
                ELSE [provider |-> "forgejo", project |-> selected.project]
      [] OTHER -> [provider |-> "local", project |-> "default"]

\* An explicit selection is a filter on a task, never an override.
FieldsMatchContext(key, ctx) ==
    /\ ctx.provider \in {None, key.provider}
    /\ CASE key.provider = "forgejo" ->
               /\ ctx.project = None          \* the code refuses the flag
               /\ ctx.repository \in {None, key.project}
               /\ ctx.base \in {None, key.instance}
         [] key.provider = "redmine" ->
               /\ ctx.project \in {None, key.project}
               /\ ctx.base \in {None, key.instance}
         [] OTHER -> ctx.base = None /\ ctx.repository = None /\ ctx.project = None

----------------------------------------------------------------------------
(* The store.                                                              *)

TaskIds == 1..Len(tasks)

\* INSERT ... ON CONFLICT DO NOTHING, then the row of the key.
EnsureBinding(rows, key) == IF key \in Range(rows) THEN rows ELSE Append(rows, key)

IdOf(rows, key) == CHOOSE i \in 1..Len(rows) : rows[i] = key

RepoNumber(rows, pairs, repo, n) ==
    {i \in 1..Len(rows) : <<repo, i>> \in pairs /\ rows[i].number = n}

BindingsForRepoNumber(repo, n) == RepoNumber(tasks, members, repo, n)

BindingsForNumber(n) == {i \in TaskIds : tasks[i].number = n}

\* What a row names of an issue: no instance.
IssueKey(scope, n) == [provider |-> scope.provider, project |-> scope.project, number |-> n]

SameRow(row, at, issue) ==
    /\ row.repo = at.repo /\ row.branch = at.branch
    /\ row.provider = issue.provider /\ row.project = issue.project
    /\ row.number = issue.number

\* Create the row, relink a detached one, leave a linked one alone.
Link(rows, at, issue) ==
    IF \E row \in rows : SameRow(row, at, issue)
    THEN {IF SameRow(row, at, issue) THEN [row EXCEPT !.status = "linked"] ELSE row : row \in rows}
    ELSE rows \cup {[repo |-> at.repo, branch |-> at.branch, provider |-> issue.provider,
                     project |-> issue.project, number |-> issue.number,
                     status |-> "linked", task |-> None, by |-> None]}

RefOf(rows, at, issue) == (CHOOSE row \in rows : SameRow(row, at, issue)).task

\* `by` remembers, for the properties only, which command set the reference.
SetRef(rows, at, issue, id, by) ==
    {IF ~ SameRow(row, at, issue) THEN row
     ELSE [row EXCEPT !.task = id, !.by = IF row.task = id THEN @ ELSE by] : row \in rows}

\* Whether a reference may be attached: an existing one is never replaced.
MayAttach(rows, at, issue, id) == RefOf(rows, at, issue) \in {None, id}

Detach(rows, at, scope, numbers) ==
    {IF row.number \in numbers /\ SameRow(row, at, IssueKey(scope, row.number))
     THEN [row EXCEPT !.status = "detached"] ELSE row : row \in rows}

IssuesForBranch(at) ==
    {row \in links : row.repo = at.repo /\ row.branch = at.branch /\ row.status = "linked"}

BranchesForNumber(repo, n) ==
    {row \in links : row.repo = repo /\ row.number = n /\ row.status = "linked"}

\* The references of a branch: detached rows keep theirs and are read too.
BranchTaskRefs(at, n) ==
    {row.task : row \in {r \in links : r.repo = at.repo /\ r.branch = at.branch
                                       /\ r.task # None /\ r.number = n}}

----------------------------------------------------------------------------
(* Routing.                                                                *)

\* The durable task of a number: the branch's reference, else the one
\* membership of the repository that the selection leaves.
ResolveNumberBinding(at, ctx, n) ==
    LET refs == BranchTaskRefs(at, n)
        found == BindingsForRepoNumber(at.repo, n)
        selected == {i \in found : FieldsMatchContext(tasks[i], ctx)}
        explicit == \E f \in DOMAIN ctx : ctx[f] # None
        candidates == IF refs # {} THEN refs
                      ELSE IF Cardinality(found) <= 1 THEN found
                      ELSE IF explicit THEN selected ELSE found
        task == CHOOSE i \in candidates : TRUE
    IN  IF Cardinality(refs) > 1 \/ Cardinality(candidates) > 1 THEN Ambiguous
        ELSE IF candidates = {} THEN (IF found = {} THEN Legacy ELSE Ambiguous)
        ELSE IF ~ FieldsMatchContext(tasks[task], ctx) THEN Refused
        ELSE task

\* The provider of a task: its own instance, which the settings must attest.
PinnedProvider(key) ==
    IF \/ key.provider = "local"
       \/ key.provider = "forgejo" /\ config.forgejo = key.instance
       \/ key.provider = "redmine" /\ config.redmine = key.instance
    THEN ScopeOf(key)
    ELSE None

\* The timer's resolution: the first reference of the branch by task id, else
\* the single membership.
ResolveTaskForRepo(at, n) ==
    LET refs == BranchTaskRefs(at, n)
        found == BindingsForRepoNumber(at.repo, n)
    IN  IF refs # {} THEN CHOOSE i \in refs : \A j \in refs : i <= j
        ELSE IF found = {} THEN Legacy
        ELSE IF Cardinality(found) > 1 THEN Ambiguous
        ELSE CHOOSE i \in found : TRUE

RedmineScopes(n) ==
    {ScopeOf(tasks[i]) : i \in {j \in BindingsForNumber(n) : tasks[j].provider = "redmine"}}

ResolveTimerRoute(at, n) ==
    LET current == ResolveTaskForRepo(at, n)
    IN  IF current = Ambiguous THEN Ambiguous
        ELSE IF Cardinality(RedmineScopes(n)) > 1 THEN Refused
        ELSE IF current = Legacy THEN Legacy
        ELSE IF tasks[current].provider = "forgejo" THEN Refused
        ELSE IF /\ tasks[current].provider = "redmine"
                /\ config.redmine \notin {None, tasks[current].instance}
        THEN Refused
        ELSE current

\* No rows keep default routing; otherwise one of them must be the scope.
EnsureRowsMatch(rows, selected) ==
    LET scopes == {[provider |-> row.provider, project |-> row.project] : row \in rows}
    IN  scopes = {} \/ selected \in scopes

\* The guard of an unrouted command: the branch's rows and the number's rows
\* must both know the scope; a scope without a project decides nothing.
VerifyLinks(at, n, scope) ==
    LET selected == [provider |-> scope.provider, project |-> scope.project]
    IN  \/ scope.project = None
        \/ /\ EnsureRowsMatch(IssuesForBranch(at), selected)
           /\ EnsureRowsMatch(BranchesForNumber(at.repo, n), selected)

----------------------------------------------------------------------------
(* issue bind and issue unbind.                                            *)

Start(p, state) ==
    /\ proc[p] = Idle
    /\ calls < MaxCalls
    /\ calls' = calls + 1
    /\ proc' = [proc EXCEPT ![p] = state]

\* The default branch, or main and master while it is not known.
IsProtectedBranch(branch) ==
    \/ branch = DefaultBranch
    \/ DefaultBranch = None /\ branch \in {"main", "master"}

Bind(p) ==
    \E at \in Checkouts, ctx \in Contexts, n \in Numbers :
        /\ ResolveLinkScope(ctx) # None
        /\ ~ IsProtectedBranch(at.branch)
        /\ Start(p, [pc |-> IF ctx.provider = None THEN "bind_link" ELSE "preflight",
                     at |-> at, ctx |-> ctx, n |-> n, scope |-> ResolveLinkScope(ctx), on |-> None])
        /\ UNCHANGED <<store, config, issues, sent, moves>>

\* The instance an explicit bind verifies its issue on: the configured one.
PreflightScope(ctx) ==
    LET scope == ProviderFor(ctx)
    IN  IF scope # None /\ scope.provider = "redmine" /\ config.redmine # scope.instance
        THEN None
        ELSE scope

\* One GET: the issue exists there and, on Redmine, in that project.
PreflightExplicitIssue(p) ==
    LET me == proc[p]
        scope == PreflightScope(me.ctx)
    IN  /\ me.pc = "preflight"
        /\ IF scope # None /\ TaskKey(scope, me.n) \in DOMAIN issues
           THEN proc' = [proc EXCEPT ![p].pc = "adopt", ![p].on = scope]
           ELSE proc' = [proc EXCEPT ![p] = Idle]
        /\ UNCHANGED <<store, config, issues, sent, calls, moves>>

\* Another task of the repository that a row of this key would also stand for.
ConflictingTask(key, found, rows) ==
    \E i \in found : /\ rows[i].provider = key.provider
                     /\ rows[i].project = key.project
                     /\ rows[i] # key

\* One immediate transaction: binding, membership and referenced row, or none.
CommitAdoptionSet(p) ==
    LET me == proc[p]
        key == TaskKey(me.on, me.n)
        rows == EnsureBinding(tasks, key)
        id == IdOf(rows, key)
        linked == Link(links, me.at, key)
        ok == /\ ~ ConflictingTask(key, RepoNumber(rows, members, me.at.repo, me.n), rows)
              /\ MayAttach(linked, me.at, key, id)
    IN  /\ me.pc = "adopt"
        /\ IF ok
           THEN /\ tasks' = rows
                /\ members' = members \cup {<<me.at.repo, id>>}
                /\ links' = SetRef(linked, me.at, key, id, "adoption")
                /\ proc' = [proc EXCEPT ![p].pc = "bind_link"]
           ELSE /\ proc' = [proc EXCEPT ![p] = Idle]
                /\ UNCHANGED store
        /\ UNCHANGED <<config, issues, sent, calls, moves>>

LinkMany(p) ==
    LET me == proc[p]
    IN  /\ me.pc = "bind_link"
        /\ links' = Link(links, me.at, IssueKey(me.scope, me.n))
        /\ proc' = [proc EXCEPT ![p] = Idle]
        /\ UNCHANGED <<tasks, members, config, issues, sent, calls, moves>>

\* Named numbers, or every linked row of the scope when none is named.
Unbind(p) ==
    \E at \in Checkouts, ctx \in Contexts, numbers \in {{}} \cup {{n} : n \in Numbers} :
        LET scope == ResolveLinkScope(ctx)
            rows == {row \in IssuesForBranch(at) : row.provider = scope.provider
                                                   /\ row.project = scope.project}
        IN  /\ scope # None
            /\ Start(p, [pc |-> "unbind", at |-> at, scope |-> scope,
                         targets |-> IF numbers # {} THEN numbers
                                     ELSE {row.number : row \in rows}])
            /\ UNCHANGED <<store, config, issues, sent, moves>>

DetachMany(p) ==
    LET me == proc[p]
    IN  /\ me.pc = "unbind"
        /\ links' = Detach(links, me.at, me.scope, me.targets)
        /\ proc' = [proc EXCEPT ![p] = Idle]
        /\ UNCHANGED <<tasks, members, config, issues, sent, calls, moves>>

----------------------------------------------------------------------------
(* issue create: one POST, then best-effort local steps that never undo it *)
(* and never repeat it.  A local failure goes on with the branch link.     *)

CreateIssue(p) ==
    \E at \in Checkouts, ctx \in Contexts, n \in Numbers :
        LET scope == ProviderFor(ctx)
        IN  /\ scope \in Trackers
            /\ ~ \E key \in DOMAIN issues : /\ key.number = n
                                            /\ key.instance = scope.instance
            /\ Start(p, [pc |-> "persist", at |-> at, n |-> n, scope |-> scope])
            /\ issues' = issues @@ (TaskKey(scope, n) :> [state |-> "open", since |-> moves])
            /\ UNCHANGED <<store, config, sent, moves>>

PersistBindingOnly(p) ==
    LET me == proc[p]
        rows == EnsureBinding(tasks, TaskKey(me.scope, me.n))
    IN  /\ me.pc = "persist"
        /\ tasks' = rows
        /\ proc' = [proc EXCEPT ![p] = [pc |-> "attach", at |-> me.at, n |-> me.n,
                                        scope |-> me.scope,
                                        id |-> IdOf(rows, TaskKey(me.scope, me.n))]]
        /\ UNCHANGED <<members, links, config, issues, sent, calls, moves>>

PersistBinding(p) ==
    LET me == proc[p]
        rows == EnsureBinding(tasks, TaskKey(me.scope, me.n))
    IN  /\ me.pc = "persist"
        /\ tasks' = rows
        /\ proc' = [proc EXCEPT ![p] = [pc |-> "member", at |-> me.at, n |-> me.n,
                                        scope |-> me.scope,
                                        id |-> IdOf(rows, TaskKey(me.scope, me.n))]]
        /\ UNCHANGED <<members, links, config, issues, sent, calls, moves>>

AddRepoMembership(p) ==
    LET me == proc[p]
    IN  /\ me.pc = "member"
        /\ members' = members \cup {<<me.at.repo, me.id>>}
        /\ proc' = [proc EXCEPT ![p].pc = "attach"]
        /\ UNCHANGED <<tasks, links, config, issues, sent, calls, moves>>

PersistFails(p) ==
    /\ proc[p].pc \in {"persist", "member"}
    /\ proc' = [proc EXCEPT ![p].pc = "create_link"]
    /\ UNCHANGED <<store, config, issues, sent, calls, moves>>

\* Read the linked rows of the current branch; nothing to attach without one.
AttachCreatedTask(p) ==
    LET me == proc[p]
        key == TaskKey(me.scope, me.n)
    IN  /\ me.pc = "attach"
        /\ proc' = [proc EXCEPT ![p].pc =
                      IF \E row \in IssuesForBranch(me.at) : SameRow(row, me.at, key)
                      THEN "attach_link" ELSE "create_link"]
        /\ UNCHANGED <<store, config, issues, sent, calls, moves>>

\* link_with_task outside a transaction: link, read the reference, set it.
AttachLink(p) ==
    LET me == proc[p]
    IN  /\ me.pc = "attach_link"
        /\ links' = Link(links, me.at, TaskKey(me.scope, me.n))
        /\ proc' = [proc EXCEPT ![p].pc = "attach_read"]
        /\ UNCHANGED <<tasks, members, config, issues, sent, calls, moves>>

AttachRead(p) ==
    LET me == proc[p]
    IN  /\ me.pc = "attach_read"
        /\ proc' = [proc EXCEPT ![p].pc =
                      IF RefOf(links, me.at, TaskKey(me.scope, me.n)) = None
                      THEN "attach_set" ELSE "create_link"]
        /\ UNCHANGED <<store, config, issues, sent, calls, moves>>

AttachSet(p) ==
    LET me == proc[p]
    IN  /\ me.pc = "attach_set"
        /\ links' = SetRef(links, me.at, TaskKey(me.scope, me.n), me.id, "create")
        /\ proc' = [proc EXCEPT ![p].pc = "create_link"]
        /\ UNCHANGED <<tasks, members, config, issues, sent, calls, moves>>

\* The row of the issue's own branch, without a reference; a scope without a
\* project warns instead.
CreateBranchLink(p) ==
    LET me == proc[p]
        own == [repo |-> me.at.repo, branch |-> ToString(me.n)]
    IN  /\ me.pc = "create_link"
        /\ links' = IF me.scope.project = None THEN links
                    ELSE Link(links, own, TaskKey(me.scope, me.n))
        /\ proc' = [proc EXCEPT ![p] = Idle]
        /\ UNCHANGED <<tasks, members, config, issues, sent, calls, moves>>

----------------------------------------------------------------------------
(* A numbered command (here one that closes the issue): resolve, then pin  *)
(* the provider of the task, or guard and build the configured one.        *)

Route(p) ==
    \E at \in Checkouts, ctx \in Contexts, n \in Numbers :
        LET task == ResolveNumberBinding(at, ctx, n)
            next == IF task = Legacy THEN "guard"
                    ELSE IF task \in TaskIds THEN "pin" ELSE "idle"
        IN  /\ Start(p, IF next = "idle" THEN Idle
                        ELSE [pc |-> next, at |-> at, ctx |-> ctx, n |-> n, task |-> task,
                              known |-> BindingsForRepoNumber(at.repo, n)])
            /\ UNCHANGED <<store, config, issues, sent, moves>>

To(p, scope) ==
    proc' = [proc EXCEPT ![p] = IF scope = None THEN Idle
                                ELSE [pc |-> "send", at |-> @.at, n |-> @.n, task |-> @.task,
                                      known |-> @.known, scope |-> scope]]

Pin(p) ==
    /\ proc[p].pc = "pin"
    /\ To(p, PinnedProvider(tasks[proc[p].task]))
    /\ UNCHANGED <<store, config, issues, sent, calls, moves>>

\* Before any provider is built: what the selection alone resolves to.
PreflightIssueScope(p) ==
    LET me == proc[p]
        scope == ProviderFor(me.ctx)
    IN  /\ me.pc = "guard"
        /\ proc' = [proc EXCEPT ![p] = IF scope # None /\ VerifyLinks(me.at, me.n, scope)
                                       THEN [me EXCEPT !.pc = "build"] ELSE Idle]
        /\ UNCHANGED <<store, config, issues, sent, calls, moves>>

\* The provider is built from the settings as they are now and checked again.
VerifyIssueScope(p) ==
    LET me == proc[p]
        scope == ProviderFor(me.ctx)
    IN  /\ me.pc = "build"
        /\ To(p, IF scope # None /\ VerifyLinks(me.at, me.n, scope) THEN scope ELSE None)
        /\ UNCHANGED <<store, config, issues, sent, calls, moves>>

\* The tracker's issue of a number: Redmine addresses it without a project.
IssueAt(scope, n) ==
    {key \in DOMAIN issues : /\ key.number = n
                             /\ key.provider = scope.provider
                             /\ key.instance = scope.instance
                             /\ key.provider = "redmine" \/ key.project = scope.project}

SendClose(p) ==
    LET me == proc[p]
    IN  /\ me.pc = "send"
        /\ sent' = sent \cup {[repo |-> me.at.repo, number |-> me.n, task |-> me.task,
                               known |-> me.known, scope |-> me.scope]}
        /\ issues' = [key \in DOMAIN issues |->
                        IF /\ key \in IssueAt(me.scope, me.n) /\ issues[key].state = "open"
                           /\ me.scope.project \in {None, key.project}   \* the scope guard's GET
                        THEN [state |-> "closed", since |-> moves] ELSE issues[key]]
        /\ proc' = [proc EXCEPT ![p] = Idle]
        /\ UNCHANGED <<store, config, calls, moves>>

----------------------------------------------------------------------------
(* The closure check of one issue of a directory: asked once while the     *)
(* candidate is chosen and again, after a refresh, before the directory    *)
(* goes.  Between refreshes an answer is cached.  A pass asks for the task *)
(* its lease proves ("own"), a routed close for the directory's other      *)
(* numbers ("associated"), an unrouted close asks the provider it was      *)
(* invoked with ("configured").                                            *)

Ask(p, round, cache) ==
    [pc |-> "lookup", at |-> proc[p].at, ctx |-> proc[p].ctx, n |-> proc[p].n,
     how |-> proc[p].how, own |-> proc[p].own, round |-> round, cache |-> cache, refreshed |-> moves,
     known |-> IF proc[p].how = "own" THEN proc[p].known
               ELSE BindingsForRepoNumber(proc[p].at.repo, proc[p].n)]

CheckClosure(p) ==
    \E at \in Checkouts, ctx \in Contexts, n \in Numbers,
       how \in {"associated", "configured"} :
        /\ Start(p, [pc |-> "lookup", at |-> at, ctx |-> ctx, n |-> n, how |-> how, own |-> None, round |-> 1,
                     cache |-> None, refreshed |-> moves,
                     known |-> BindingsForRepoNumber(at.repo, n)])
        /\ UNCHANGED <<store, config, issues, sent, moves>>

\* The task proven by the lease, read again by its id.
CheckOwnClosure(p) ==
    \E at \in Checkouts, ctx \in Contexts, n \in Numbers :
        \E id \in BindingsForRepoNumber(at.repo, n) :
            /\ Start(p, [pc |-> "lookup", at |-> at, ctx |-> ctx, n |-> n,
                         how |-> "own", own |-> id, round |-> 1,
                         cache |-> None, refreshed |-> moves, known |-> {id}])
            /\ UNCHANGED <<store, config, issues, sent, moves>>

ReadTask(id, ctx) ==
    [route |-> "task",
     scope |-> IF FieldsMatchContext(tasks[id], ctx) THEN PinnedProvider(tasks[id]) ELSE None]

\* Who answers for the number: its one durable task, the configured provider
\* when the repository has none; several tasks keep the directory.
AssociatedTask(me) ==
    LET found == BindingsForRepoNumber(me.at.repo, me.n)
    IN  IF found = {} THEN [route |-> "legacy", scope |-> ProviderFor(me.ctx)]
        ELSE IF Cardinality(found) = 1 THEN ReadTask(CHOOSE i \in found : TRUE, me.ctx)
        ELSE [route |-> "task", scope |-> None]

ClosureRoute(me) ==
    CASE me.how = "configured" -> [route |-> "legacy", scope |-> ProviderFor(me.ctx)]
      [] me.how = "associated" -> AssociatedTask(me)
      [] OTHER -> ReadTask(me.own, me.ctx)

\* A cached verdict answers; otherwise the route is resolved.
LookupVerdict(p) ==
    LET me == proc[p]
        by == ClosureRoute(me)
    IN  /\ me.pc = "lookup"
        /\ proc' = [proc EXCEPT ![p] =
             IF me.cache # None THEN [me EXCEPT !.pc = "verdict"]
             ELSE IF by.scope = None THEN Idle
             ELSE [pc |-> IF by.route = "task" THEN "read" ELSE "scopes",
                   at |-> me.at, ctx |-> me.ctx, n |-> me.n, how |-> me.how, own |-> me.own,
                   round |-> me.round,
                   cache |-> None, refreshed |-> me.refreshed, known |-> me.known,
                   route |-> by.route, scope |-> by.scope, state |-> None]]
        /\ UNCHANGED <<store, config, issues, sent, calls, moves>>

\* One GET on the provider that answers; a missing issue keeps.
ReadIssueState(p) ==
    LET me == proc[p]
        found == IssueAt(me.scope, me.n)
    IN  /\ me.pc = "read"
        /\ proc' = [proc EXCEPT ![p] =
             IF found = {} THEN Idle
             ELSE [me EXCEPT !.state = issues[CHOOSE key \in found : TRUE].state,
                             !.pc = IF me.route = "task" THEN "scopes" ELSE "decide"]]
        /\ UNCHANGED <<store, config, issues, sent, calls, moves>>

\* The link rows of the number: at most one scope, and it must agree with
\* the provider that answers; a durable task must agree on the project too.
ScopesAgree(me) ==
    LET scopes == {[provider |-> row.provider, project |-> row.project]
                     : row \in BranchesForNumber(me.at.repo, me.n)}
    IN  /\ Cardinality(scopes) <= 1
        /\ \A s \in scopes : /\ s.provider = me.scope.provider
                             /\ me.route = "task" => s.project = me.scope.project

ReadLinkScopes(p) ==
    LET me == proc[p]
    IN  /\ me.pc = "scopes"
        /\ proc' = [proc EXCEPT ![p] =
             IF ~ ScopesAgree(me) THEN Idle
             ELSE [me EXCEPT !.pc = IF me.route = "task" THEN "decide" ELSE "read"]]
        /\ UNCHANGED <<store, config, issues, sent, calls, moves>>

DecideClosure(p) ==
    LET me == proc[p]
    IN  /\ me.pc = "decide"
        /\ proc' = [proc EXCEPT ![p] = [me EXCEPT !.pc = "verdict",
                                                  !.cache = [state |-> me.state,
                                                             scope |-> me.scope]]]
        /\ UNCHANGED <<store, config, issues, sent, calls, moves>>

\* refresh() drops every cached verdict and the open stores.
Refreshed(cache) == None

\* An open issue keeps the directory.  A closed one is asked again after the
\* move, then the directory is authorised.
ConfirmOthersClosed(p) ==
    LET me == proc[p]
    IN  /\ me.pc = "verdict"
        /\ proc' = [proc EXCEPT ![p] =
             IF me.cache.state # "closed" THEN Idle
             ELSE IF me.round = 1 THEN Ask(p, 2, Refreshed(me.cache))
             ELSE [me EXCEPT !.pc = "authorised"]]
        /\ UNCHANGED <<store, config, issues, sent, calls, moves>>

----------------------------------------------------------------------------
(* Around the commands.                                                    *)

\* A command ends, or is killed, wherever it is.
End(p) ==
    /\ proc[p] # Idle
    /\ proc' = [proc EXCEPT ![p] = Idle]
    /\ UNCHANGED <<store, config, issues, sent, calls, moves>>

\* `config set`, `admin auth setup`: another default, another endpoint.
Reconfigure ==
    /\ moves < MaxMoves
    /\ config' \in Configs \ {config}
    /\ moves' = moves + 1
    /\ UNCHANGED <<store, issues, proc, sent, calls>>

\* Somebody opens, closes or reopens an issue in the tracker itself.
TrackerMoves ==
    /\ moves < MaxMoves
    /\ \E tracker \in Trackers, n \in Numbers :
         LET key == TaskKey(tracker, n)
             old == IF key \in DOMAIN issues THEN issues[key].state ELSE "closed"
         IN  issues' = (key :> [state |-> IF old = "open" THEN "closed" ELSE "open",
                                since |-> moves]) @@ issues
    /\ moves' = moves + 1
    /\ UNCHANGED <<store, config, proc, sent, calls>>

Init ==
    /\ tasks = <<>> /\ members = {} /\ links = {}
    /\ config \in Configs
    /\ \E there \in SUBSET Trackers :
         issues = [key \in {TaskKey(t, n) : t \in there, n \in Numbers} |->
                     [state |-> "open", since |-> 0]]
    /\ proc = [p \in Procs |-> Idle]
    /\ sent = {} /\ calls = 0 /\ moves = 1

Next ==
    \/ Reconfigure \/ TrackerMoves
    \/ \E p \in Procs :
         \/ Bind(p) \/ PreflightExplicitIssue(p) \/ CommitAdoptionSet(p) \/ LinkMany(p)
         \/ Unbind(p) \/ DetachMany(p)
         \/ CreateIssue(p) \/ PersistBinding(p) \/ AddRepoMembership(p) \/ PersistFails(p)
         \/ AttachCreatedTask(p) \/ AttachLink(p) \/ AttachRead(p) \/ AttachSet(p)
         \/ CreateBranchLink(p)
         \/ Route(p) \/ Pin(p) \/ PreflightIssueScope(p) \/ VerifyIssueScope(p) \/ SendClose(p)
         \/ CheckClosure(p) \/ CheckOwnClosure(p) \/ LookupVerdict(p) \/ ReadIssueState(p) \/ ReadLinkScopes(p)
         \/ DecideClosure(p) \/ ConfirmOthersClosed(p)
         \/ End(p)

Spec == Init /\ [][Next]_vars

----------------------------------------------------------------------------
(* Properties.                                                             *)

\* The store has the shape its tables give it, with one row per link key.
TypeOK ==
    /\ \A i \in TaskIds : ScopeOf(tasks[i]) \in Trackers /\ tasks[i].number \in Numbers
    /\ IsInjective(tasks)
    /\ members \subseteq {c.repo : c \in Checkouts} \X TaskIds
    /\ \A row \in links : row.status \in {"linked", "detached"}
    /\ \A r, s \in links :
         SameRow(r, [repo |-> s.repo, branch |-> s.branch], s) => r = s

\* A link's reference is whole whatever died when: it names a task of the
\* same provider, project and number that is a member of the repository.
ReferencesAreWhole ==
    \A row \in links : row.task # None =>
        /\ row.task \in TaskIds
        /\ tasks[row.task].provider = row.provider
        /\ tasks[row.task].project = row.project
        /\ tasks[row.task].number = row.number
        /\ <<row.repo, row.task>> \in members

\* A number that had a durable task in the repository when the command began
\* is never asked of anything but that repository's tasks of the number, on
\* their own stored instance, whatever the settings have become.
RequestsFollowTheTask ==
    \A s \in sent : s.known # {} =>
        /\ s.task \in TaskIds /\ tasks[s.task].number = s.number
        /\ <<s.repo, s.task>> \in members
        /\ ScopeOf(tasks[s.task]) = s.scope

\* A timer books on a task of its number that the repository knows, on an instance
\* the settings still name: never on a namesake of another instance.
TimerBooksHere ==
    \A at \in Checkouts, n \in Numbers :
        LET t == ResolveTimerRoute(at, n)
        IN  t \in TaskIds => /\ tasks[t].number = n /\ <<at.repo, t>> \in members
                             /\ \A u \in BindingsForNumber(n) :
                                  tasks[t].provider = "redmine" /\ tasks[u].provider = "redmine"
                                    => ScopeOf(tasks[t]) = ScopeOf(tasks[u])

\* A directory goes only when its other issue was closed at some moment after
\* the last refresh, according to the tracker that owns it (or, in an
\* unrouted close, the one the close was invoked with).
ClosedIsFresh ==
    \A p \in Procs : proc[p].pc = "authorised" =>
        LET me == proc[p]
        IN  /\ \A key \in IssueAt(me.cache.scope, me.n) :
                 ~ (issues[key].state = "open" /\ issues[key].since < me.refreshed)
            /\ me.how # "configured" /\ me.known # {} =>
                 \E i \in me.known : ScopeOf(tasks[i]) = me.cache.scope

=============================================================================

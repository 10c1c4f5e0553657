----------------------------- MODULE Invocation -----------------------------
(* How a phasegent command gets its caller.  A tool call of an OpenCode     *)
(* session passes the adapter's hooks (index.js, hook.js, command.js,       *)
(* managed-env.js), becomes a shell whose environment carries role and      *)
(* session, and every phasegent process of it decides who called it         *)
(* (policy.rs), parses its arguments (command/argv.rs), consults the        *)
(* registry and then the gate of its handler.                               *)
EXTENDS Naturals, Sequences, FiniteSets

CONSTANTS
    Calls,          \* tool calls
    Events,         \* what the host may report: [session, agent, line]
    Surfaces,       \* the hooks hosts may offer: sets of registrations that work
    Ambient,        \* PHASEGENT_ROLE values the host itself may carry
    Argvs,          \* argument vectors typed at a terminal
    Windows,        \* whether the host runs PowerShell
    Capacity, Ttl,  \* MANAGED_BRIDGE_CAPACITY, MANAGED_BRIDGE_TTL_MS in ticks
    MaxClock, MaxShells,    \* bounds
    None

VARIABLES
    hooks,      \* the registrations setup made
    inherited,  \* PHASEGENT_ROLE of the host process, None when unset
    entries,    \* the bridge's map, in insertion order
    clock,
    nonces,     \* nonces drawn (random UUIDs: never twice the same)
    call,       \* per tool call: its event, the command sent, its shells
    last,       \* the last process that decided on its caller
    scan        \* the last argument vector read, by pre-scan and parser

vars == <<hooks, inherited, entries, clock, nonces, call, last, scan>>
-----------------------------------------------------------------------------
(* policy.rs                                                                *)

Roles == {"admin", "orchestrator", "executor", "reviewer", "explore"}

ReadCapabilities ==
    {"IssueRead", "CommentRead", "CommentFindMarker", "CommentCreate", "ProjectRead",
     "IssueStatusRead", "VersionRead", "RelationRead", "Notify"}

RoleAllows(role, capability) ==
    \/ role = "orchestrator"
    \/ role = "admin" /\ capability \in {"ProjectRead", "ProjectCreate",
                                         "IssueStatusRead", "VersionRead"}
    \/ role = "executor" /\ capability \in ReadCapabilities
    \/ role = "reviewer" /\ capability \in ReadCapabilities \cup {"IssueAttachmentUpload"}
    \/ role = "explore" /\ capability = "IssueRead"

RecordRoles == Roles \ {"admin"}
Kinds == {"executor", "reviewer", "recon"}

\* What decides on a write besides who asks: --kind and --authorized.
Writes(path) ==
    [kind : IF path = "record create" THEN Kinds ELSE {None},
     authorized : IF path \in {"record create", "comment create"} THEN BOOLEAN ELSE {FALSE}]

Operator == [kind |-> "operator", role |-> None]
Agent(role) == [kind |-> "agent", role |-> role]
ManagedWithoutRole == [kind |-> "managed", role |-> None]

FromRoleAndSession(role, present) ==
    IF role # None THEN Agent(role)
    ELSE IF present THEN ManagedWithoutRole ELSE Operator

CallerAllows(caller, capability) ==
    \/ caller = Operator
    \/ caller.kind = "agent" /\ RoleAllows(caller.role, capability)
OrchestratorAuthorized(caller) == caller \in {Operator, Agent("orchestrator")}
AdminAuthorized(caller) == caller \in {Operator, Agent("admin")}
WorktreeReadAuthorized(caller) ==
    caller \in {Operator, Agent("orchestrator"), Agent("executor"), Agent("reviewer")}
-----------------------------------------------------------------------------
(* The command registry: what the parser lets a role do.                    *)

IssueGates ==
    { <<"issue get", "IssueRead">>, <<"issue branches", "IssueRead">>,
      <<"issue search", "IssueSearch">>, <<"issue create", "IssueCreate">>,
      <<"issue update", "IssueUpdateBody">>, <<"issue close", "IssueClose">>,
      <<"issue upload-attachment", "IssueAttachmentUpload">> }
CommentGates ==
    { <<"comment create", "CommentCreate">>, <<"comment get", "CommentRead">>,
      <<"comment list", "CommentRead">>, <<"comment find-marker", "CommentFindMarker">> }
TrackerGates ==
    { <<"project list", "ProjectRead">>, <<"project create", "ProjectCreate">>,
      <<"status list", "IssueStatusRead">>, <<"status next", "IssueStatusRead">>,
      <<"version list", "VersionRead">>, <<"relation list", "RelationRead">>,
      <<"relation create", "RelationCreate">>, <<"relation delete", "RelationDelete">> }
CapabilityGates ==
    IssueGates \cup CommentGates \cup TrackerGates \cup {<<"notify send", "Notify">>}

TimerPaths == {"timer start", "timer finish", "timer list", "timer get", "timer recover"}
WorktreeWrites ==
    {"worktree acquire", "worktree release", "worktree prune", "worktree heartbeat"}
OrchestratorOnly ==
    {"issue sync", "status set", "status advance"} \cup TimerPaths \cup WorktreeWrites
WorktreeReads == {"worktree status", "worktree list", "worktree probe"}
RecordPaths == {"record create", "record get", "record list"}
BranchWrites == {"issue bind", "issue unbind"}
AdminPaths ==
    {"admin config set", "admin config set scoped", "admin config clear",
     "admin config clear scoped", "admin config provider set",
     "admin config provider clear", "admin workflow bootstrap"}
OpenPaths ==
    {"doctor", "config show", "config provider get", "issue status", "hooks install",
     "hooks run", "plugin install", "plugin status", "plugin uninstall"}
AnyRolePaths == {"admin auth setup"}

Paths == {g[1] : g \in CapabilityGates} \cup OrchestratorOnly \cup WorktreeReads
           \cup RecordPaths \cup BranchWrites \cup AdminPaths \cup OpenPaths
           \cup AnyRolePaths

RegistryAllows(role, path) ==
    \/ path \in OpenPaths \cup AnyRolePaths
    \/ \E g \in CapabilityGates : g[1] = path /\ RoleAllows(role, g[2])
    \/ path \in OrchestratorOnly \cup BranchWrites /\ role = "orchestrator"
    \/ path \in WorktreeReads /\ role \in {"orchestrator", "executor", "reviewer"}
    \/ path \in RecordPaths /\ role \in RecordRoles
    \/ path \in AdminPaths /\ role = "admin"

\* What a managed session without a role may still run.
NoRoleAllowed(path) ==
    \/ path \in OpenPaths \cup BranchWrites
    \/ path \in {"admin config provider set", "admin config provider clear",
                 "admin config set", "admin config clear"}

\* The parser's verdict once the command is known.
ParseGate(caller, path) ==
    IF caller.kind = "agent" /\ ~RegistryAllows(caller.role, path) THEN "permission"
    ELSE IF caller.kind = "managed" /\ ~NoRoleAllowed(path) THEN "argument"
    ELSE "accepted"
-----------------------------------------------------------------------------
(* The gate of each handler.                                                *)

IssueGate(caller, path) ==
    IF path = "issue sync" THEN OrchestratorAuthorized(caller)
    ELSE \E g \in IssueGates : g[1] = path /\ CallerAllows(caller, g[2])

BranchGate(caller, path) ==
    path \in BranchWrites => caller.role \in {None, "orchestrator"}

\* RecordKind::allows
KindAllows(kind, role) ==
    role \in {"orchestrator", CASE kind = "executor" -> "executor"
                                [] kind = "reviewer" -> "reviewer" [] OTHER -> "explore"}

\* A person reads records and writes none; an agent other than the orchestrator
\* writes with --authorized, and each role its kind.
RecordGate(caller, path, write) ==
    IF path # "record create"
    THEN caller = Operator \/ (caller.kind = "agent" /\ caller.role \in RecordRoles)
    ELSE /\ caller.kind = "agent" /\ caller.role \in RecordRoles
         /\ caller.role = "orchestrator" \/ write.authorized
         /\ KindAllows(write.kind, caller.role)

StatusGate(caller, path) ==
    /\ CallerAllows(caller, "IssueStatusRead")
    /\ path \in {"status set", "status advance"} => OrchestratorAuthorized(caller)

WorktreeGate(caller, path) ==
    IF path \in WorktreeReads THEN WorktreeReadAuthorized(caller)
    ELSE OrchestratorAuthorized(caller)

\* Settings of a role need one; a person at a terminal writes admin's.
ConfigGate(caller, path) ==
    path \in {"admin config set scoped", "admin config clear scoped"} =>
        caller # ManagedWithoutRole

CommentGate(caller, path, write) ==
    /\ \E g \in CommentGates : g[1] = path /\ CallerAllows(caller, g[2])
    /\ path = "comment create" => OrchestratorAuthorized(caller) \/ write.authorized
ProjectGate(caller, path) ==
    CallerAllows(caller, IF path = "project list" THEN "ProjectRead" ELSE "ProjectCreate")
VersionGate(caller) == CallerAllows(caller, "VersionRead")
RelationGate(caller, path) ==
    \E g \in TrackerGates : g[1] = path /\ CallerAllows(caller, g[2])
NotifyGate(caller) == CallerAllows(caller, "Notify")
TimerGate(caller) == OrchestratorAuthorized(caller)
WorkflowGate(caller) == AdminAuthorized(caller)
AuthGate(caller) == caller # ManagedWithoutRole

\* cli.rs execute: the commands that need no tracker.
ExecuteLocal(caller, path) ==
    CASE path = "admin auth setup" -> AuthGate(caller)
      [] path \in AdminPaths -> ConfigGate(caller, path)
      [] OTHER -> TRUE

Execute(caller, path, write) ==
    CASE path = "issue branches" -> TRUE
      [] path \in BranchWrites \cup {"issue status"} -> BranchGate(caller, path)
      [] path \in {g[1] : g \in IssueGates} \cup {"issue sync"} -> IssueGate(caller, path)
      [] path \in {g[1] : g \in CommentGates} -> CommentGate(caller, path, write)
      [] path \in RecordPaths -> RecordGate(caller, path, write)
      [] path \in {"project list", "project create"} -> ProjectGate(caller, path)
      [] path \in {"status list", "status next", "status set", "status advance"} ->
             StatusGate(caller, path)
      [] path = "version list" -> VersionGate(caller)
      [] path = "admin workflow bootstrap" -> WorkflowGate(caller)
      [] path \in {"relation list", "relation create", "relation delete"} ->
             RelationGate(caller, path)
      [] path \in TimerPaths -> TimerGate(caller)
      [] path = "notify send" -> NotifyGate(caller)
      [] path \in WorktreeReads \cup WorktreeWrites -> WorktreeGate(caller, path)
      [] OTHER -> ExecuteLocal(caller, path)
-----------------------------------------------------------------------------
(* Global options: the pre-scan decides how failures of the parse are shown, *)
(* the parser what the run itself uses.  A token is one argument.            *)

Selections == {"auto", "text", "json"}
ValueOptions == {"--provider", "--api-base"}

\* --output=V; an unreadable value has no selection.
Inline == [t \in {"--output=text", "--output=json", "--output=?"} |->
              CASE t = "--output=text" -> "text" [] t = "--output=json" -> "json"
                [] OTHER -> None]
StartsWithDash(t) == t \in ValueOptions \cup DOMAIN Inline
                          \cup {"--output", "--no-progress", "--help", "-x"}

Read0 == [at |-> 1, sel |-> None, quiet |-> FALSE, end |-> FALSE, error |-> FALSE]

At(args, i) == IF i <= Len(args) THEN args[i] ELSE None

\* merge_output: a second, different --output is an error.
Merge(st, sel, n) ==
    IF sel = None \/ (st.sel # None /\ st.sel # sel)
    THEN [st EXCEPT !.error = TRUE]
    ELSE [st EXCEPT !.sel = sel, !.at = @ + n]

ParseStep(args, st) ==
    LET t == At(args, st.at)
        v == At(args, st.at + 1)
        missing == v = None \/ StartsWithDash(v)
    IN  CASE st.error \/ st.end -> st
          [] t = None -> [st EXCEPT !.error = TRUE]
          [] t = "--help" -> [st EXCEPT !.end = TRUE]
          [] t \in ValueOptions ->
                 IF missing THEN [st EXCEPT !.error = TRUE] ELSE [st EXCEPT !.at = @ + 2]
          [] t = "--output" ->
                 IF missing THEN [st EXCEPT !.error = TRUE]
                 ELSE Merge(st, IF v \in Selections THEN v ELSE None, 2)
          [] t = "--no-progress" -> [st EXCEPT !.quiet = TRUE, !.at = @ + 1]
          [] t \in DOMAIN Inline -> Merge(st, Inline[t], 1)
          [] t = "-x" -> [st EXCEPT !.error = TRUE]
          [] OTHER -> [st EXCEPT !.end = TRUE]

\* first_selection: auto gives way, an explicit choice stays.
First(st, sel, n) ==
    [st EXCEPT !.at = @ + n,
               !.sel = IF sel # None /\ @ \in {None, "auto"} THEN sel ELSE @]

PrescanStep(args, st) ==
    LET t == At(args, st.at)
        v == At(args, st.at + 1)
    IN  CASE st.end \/ t = None -> [st EXCEPT !.end = TRUE]
          [] t = "--no-progress" -> [st EXCEPT !.quiet = TRUE, !.at = @ + 1]
          [] t = "--output" ->
                 IF v = None THEN [st EXCEPT !.at = @ + 1]
                 ELSE First(st, IF v \in Selections THEN v ELSE None, 2)
          [] t \in DOMAIN Inline -> First(st, Inline[t], 1)
          [] t \in ValueOptions -> [st EXCEPT !.at = @ + 2]
          [] OTHER -> [st EXCEPT !.end = TRUE]

\* Every step moves on or ends, so Len(args) + 1 steps read everything.
Iterate(Step(_, _), args) ==
    LET run[n \in 0 .. Len(args) + 1] ==
            IF n = 0 THEN Read0 ELSE Step(args, run[n - 1])
    IN  run[Len(args) + 1]

ParseGlobals(args) == Iterate(ParseStep, args)
PrescanPresentation(args) == Iterate(PrescanStep, args)

\* resolve_format: an explicit choice, else text for a person on a terminal.
ResolveFormat(sel, caller, terminal) ==
    IF sel \in {"text", "json"} THEN sel
    ELSE IF caller \in {Operator, Agent("admin")} /\ terminal THEN "text" ELSE "json"
-----------------------------------------------------------------------------
(* command.js: the rewriting of one command line.  A line is a sequence of   *)
(* segments: what it runs, a role it claims (quoted or not), whether its     *)
(* quotes are balanced and whether a wrapper precedes phasegent.             *)

CanonicalAgents == {"orchestrator", "executor", "reviewer", "explore"}
AgentRole(agent) == IF agent \in CanonicalAgents THEN agent ELSE None
IsSubagent(agent) == AgentRole(agent) \notin {None, "orchestrator"}

Refusal == <<[path |-> None, claim |-> None, quoted |-> FALSE, balanced |-> TRUE,
              wrapped |-> FALSE, scope |-> None, session |-> None]>>

\* transformCodeOnly: an unquoted elevated claim becomes the session's role.
Downgrade(seg, role) ==
    IF ~seg.quoted /\ seg.claim \in {"orchestrator", "admin"}
    THEN [seg EXCEPT !.claim = role] ELSE seg

SessionFlag(seg, session) ==
    IF seg.path \in {"issue create", "issue close"} /\ seg.session = None
    THEN session ELSE seg.session

\* roleAssignmentStatus, roleScope.
RoleScope(seg, role, sub) ==
    IF role # None /\ (seg.claim = None \/ (sub /\ seg.claim # role)) THEN role ELSE None

RewriteSegment(seg, role, sub, session) ==
    IF seg.path = None \/ ~seg.balanced \/ (Windows /\ seg.wrapped) THEN seg
    ELSE [seg EXCEPT !.session = SessionFlag(seg, session),
                     !.scope = RoleScope(seg, role, sub)]

RewritePhasegentCommand(line, session, agent) ==
    LET role == AgentRole(agent)
        sub == IsSubagent(agent)
        source == IF sub THEN [i \in DOMAIN line |-> Downgrade(line[i], role)] ELSE line
    IN  IF sub /\ \E i \in DOMAIN source : source[i].path \in {"issue create", "issue bind"}
        THEN Refusal
        ELSE [i \in DOMAIN source |-> RewriteSegment(source[i], role, sub, session)]
-----------------------------------------------------------------------------
(* managed-env.js: the bridge from a tool call to its shell.                 *)

Live(es) == SelectSeq(es, LAMBDA e : clock - e.at <= Ttl)
EvictOldest(es) ==
    IF Len(es) >= Capacity THEN SubSeq(es, Len(es) - Capacity + 2, Len(es)) ELSE es

\* decorate: the entry is stored under a fresh nonce and the header prepended.
Decorate(c, session, role, line) ==
    /\ nonces' = nonces + 1
    /\ entries' = Append(EvictOldest(Live(entries)),
                    [nonce |-> nonces + 1, session |-> session, role |-> role,
                     call |-> c, line |-> line, at |-> clock])

EntryFor(es, nonce) == {i \in DOMAIN es : es[i].nonce = nonce}

Without(es, i) == SubSeq(es, 1, i - 1) \o SubSeq(es, i + 1, Len(es))

\* consume: exact nonce and exact command, once; deleted before the checks.
Consume(nonce, line, env) ==
    LET found == EntryFor(entries, nonce)
    IN  IF found = {}
        THEN [entries |-> entries, env |-> env, used |-> FALSE]
        ELSE LET i == CHOOSE j \in found : TRUE
                 e == entries[i]
                 ok == clock - e.at <= Ttl /\ e.line = line
             IN  [entries |-> Without(entries, i), used |-> ok,
                  env |-> IF ok THEN [role |-> e.role, session |-> e.session] ELSE env]
-----------------------------------------------------------------------------
(* The host, the hooks and the processes.                                    *)

Idle == [pc |-> "idle", event |-> None, nonce |-> None, line |-> <<>>,
         shells |-> 0, used |-> 0, run |-> <<>>, env |-> None, altered |-> FALSE]

\* index.js setup: the bridge exists when the host offers the shell hook; every
\* registration may fail on its own.
Setup(works) ==
    [rewrites |-> "tool" \in works,
     decorates |-> {"tool", "shell"} \subseteq works,
     consumes |-> {"shell", "create"} \subseteq works,
     cleans |-> {"tool", "shell", "after"} \subseteq works]

Init ==
    /\ \E works \in Surfaces : hooks = Setup(works)
    /\ inherited \in Ambient
    /\ entries = <<>> /\ clock = 0 /\ nonces = 0
    /\ call = [c \in Calls |-> Idle]
    /\ last = None /\ scan = None

\* tool.execute.before: rewrite, then decorate.
ExecuteBefore(c) ==
    /\ call[c].pc = "idle"
    /\ \E e \in Events :
         LET line == IF hooks.rewrites
                     THEN RewritePhasegentCommand(e.line, e.session, e.agent) ELSE e.line
             marked == hooks.decorates /\ e.session # None
         IN  /\ IF marked THEN Decorate(c, e.session, AgentRole(e.agent), line)
                          ELSE UNCHANGED <<entries, nonces>>
             /\ call' = [call EXCEPT ![c] =
                  [Idle EXCEPT !.pc = "sent", !.event = e, !.line = line,
                               !.nonce = IF marked THEN nonces + 1 ELSE None]]
    /\ last' = None /\ scan' = None
    /\ UNCHANGED <<hooks, inherited, clock>>

\* shell.create.before, for the command as it was sent or as another plugin
\* left it below the header; the host may create a shell twice.
ShellCreateBefore(c) ==
    /\ call[c].pc \in {"sent", "shell"} /\ call[c].shells < MaxShells
    /\ \E altered \in BOOLEAN :
         LET line == IF altered THEN call[c].event.line ELSE call[c].line
             env == [role |-> inherited, session |-> None]
             r == IF hooks.consumes THEN Consume(call[c].nonce, line, env)
                  ELSE [entries |-> entries, env |-> env, used |-> FALSE]
         IN  /\ entries' = r.entries
             /\ call' = [call EXCEPT ![c].shells = @ + 1, ![c].run = line,
                                     ![c].env = r.env, ![c].altered = altered,
                                     ![c].used = IF r.used THEN @ + 1 ELSE @,
                                     ![c].pc = "shell"]
    /\ last' = None
    /\ UNCHANGED <<hooks, inherited, clock, nonces, scan>>

\* role_from_env, session_present: the assignment before the command wins over
\* the environment, and a managed shell always has the host's marker.
Caller(role, present) == FromRoleAndSession(role, present)
InlineRole(seg) == IF seg.scope # None THEN seg.scope ELSE seg.claim

Outcome(caller, path, write) ==
    [caller |-> caller, path |-> path, write |-> write, parse |-> ParseGate(caller, path),
     exec |-> Execute(caller, path, write)]

\* One phasegent process of the shell.
RunSegment(c) ==
    /\ call[c].pc = "shell"
    /\ \E i \in DOMAIN call[c].run :
         LET seg == call[c].run[i]
             role == IF InlineRole(seg) # None THEN InlineRole(seg) ELSE call[c].env.role
             caller == Caller(role, TRUE)
         IN  /\ seg.path # None
             /\ \E write \in Writes(seg.path) :
                last' = [from |-> c, at |-> i, session |-> call[c].env.session,
                         altered |-> call[c].altered, outcome |-> Outcome(caller, seg.path, write)]
    /\ UNCHANGED <<hooks, inherited, entries, clock, nonces, call, scan>>

\* tool.execute.after: the entries of the call go, and the expired ones.
ExecuteAfter(c) ==
    /\ call[c].pc \in {"sent", "shell"}
    /\ call' = [call EXCEPT ![c] = [Idle EXCEPT !.pc = "done"]]
    /\ last' = None
    /\ entries' = IF hooks.cleans THEN SelectSeq(Live(entries), LAMBDA e : e.call # c)
                  ELSE entries
    /\ UNCHANGED <<hooks, inherited, clock, nonces, scan>>

\* What happens at a terminal shares nothing with the adapter: it is looked at
\* before the first tool call only.
Untouched ==
    /\ clock = 0 /\ nonces = 0 /\ last = None /\ scan = None
    /\ \A c \in Calls : call[c].pc = "idle"

\* A process outside any managed shell, or in one the adapter knows nothing of.
Terminal ==
    /\ Untouched
    /\ \E role \in Roles \cup {None}, marker \in BOOLEAN, path \in Paths :
         \E write \in Writes(path) :
         last' = [from |-> None, at |-> 0, session |-> None, altered |-> FALSE,
                  outcome |-> Outcome(Caller(role, marker), path, write)]
    /\ UNCHANGED <<hooks, inherited, entries, clock, nonces, call, scan>>

\* cli::run: the scope is installed from the pre-scan, then the parse decides.
ReadArguments ==
    /\ Untouched
    /\ \E args \in Argvs :
         scan' = [args |-> args, pre |-> PrescanPresentation(args),
                  parsed |-> ParseGlobals(args)]
    /\ UNCHANGED <<hooks, inherited, entries, clock, nonces, call, last>>

Tick ==
    /\ clock < MaxClock
    /\ clock' = clock + 1
    /\ last' = None /\ scan' = None
    /\ UNCHANGED <<hooks, inherited, entries, nonces, call>>

Next ==
    \/ \E c \in Calls : \/ ExecuteBefore(c) \/ ShellCreateBefore(c)
                        \/ RunSegment(c) \/ ExecuteAfter(c)
    \/ Terminal \/ ReadArguments \/ Tick

Spec == Init /\ [][Next]_vars
-----------------------------------------------------------------------------
(* Properties.                                                              *)

Rewritable(seg) == seg.balanced /\ ~(Windows /\ seg.wrapped)

\* A phasegent process of a tool call is never taken for a person's, never
\* carries another call's session, and runs as the agent that made the call:
\* always when its command could be rewritten, and when the bridge paired its
\* shell, whatever other calls, evictions, expiries and repeated shells come in
\* between.  Only an orchestrator's own claim of a role is kept.
RunsAsItsAgent ==
    last # None /\ last.from # None =>
        LET c == call[last.from]
            role == AgentRole(c.event.agent)
            sub == IsSubagent(c.event.agent)
            seg == c.event.line[last.at]
            who == last.outcome.caller
        IN  /\ who # Operator
            /\ last.session \in {None, c.event.session}
            /\ hooks.rewrites /\ ~last.altered /\ role # None /\ Rewritable(seg) =>
                 who = Agent(IF sub \/ seg.claim = None THEN role ELSE seg.claim)
            /\ last.session # None /\ seg.claim = None =>
                 who = IF role = None THEN ManagedWithoutRole ELSE Agent(role)

\* A header is good for one shell.
HeaderUsedOnce == \A c \in Calls : call[c].used <= 1

\* owning_role: the agent role a kind of record is of.
OwningRole == [executor |-> "executor", reviewer |-> "reviewer", recon |-> "explore"]

\* A write has its authority: none but the orchestrator's, and a person's comment,
\* goes without --authorized, and a record is the orchestrator's or its owner's.
HasAuthority(o) ==
    \/ o.path \notin {"record create", "comment create"}
    \/ o.caller = Agent("orchestrator")
    \/ o.path = "comment create" /\ (o.caller = Operator \/ o.write.authorized)
    \/ o.path = "record create" /\ o.write.authorized /\ o.caller = Agent(OwningRole[o.write.kind])

\* What the parser accepts the handler serves, but for a write that lacks its
\* authority: no role is refused for who it is after the gate that exists to refuse
\* it early ("a denied command fails before any provider or network access",
\* argv.rs:23-24), a session without a role is left with exactly what needs none, and
\* a person may run everything but the agents' own record create.
AcceptedIsServed ==
    last # None /\ last.outcome.parse = "accepted" =>
        (last.outcome.exec <=> HasAuthority(last.outcome))

\* A failure of the parse is shown in the format the run would have used: where
\* the parser accepts the options the pre-scan read the same ones, and a choice
\* the parser had read when it failed is the pre-scan's too.
FormatAgrees ==
    scan # None =>
        /\ scan.parsed.sel \in {"text", "json"} => scan.pre.sel = scan.parsed.sel
        /\ \A caller \in {Operator, Agent("executor")}, terminal \in BOOLEAN :
             ~scan.parsed.error =>
                /\ scan.pre.quiet = scan.parsed.quiet
                /\ ResolveFormat(scan.pre.sel, caller, terminal)
                     = ResolveFormat(scan.parsed.sel, caller, terminal)
=============================================================================

----------------------------- MODULE Bootstrap ------------------------------
(* The Redmine bootstrap: project, service users, memberships, settings and  *)
(* mirror (workflow/run.rs, provision*.rs), the same over all projects and   *)
(* its preview(workflow/all_projects), and the discovery of a project by    *)
(* its mirror (cli/project_resolution.rs).  Bootstraps of several processes  *)
(* overlap, are killed, and lose answers of the server.                      *)
EXTENDS Naturals, Sequences, FiniteSets

CONSTANTS
    Procs,
    Provisioned,    \* provisioned_roles, in order
    Admin,          \* the one role that is not provisioned
    Others,         \* projects besides the repository's own
    Commands,       \* what a process may be told to do
    Stores, Servers, Names,     \* what the old store and the server may hold
    MaxFaults,      \* bound
    None

Repo == "repo"
Projects == {Repo} \cup Others
Roles == {Provisioned[i] : i \in DOMAIN Provisioned}

VARIABLES
    projects, users,    \* the server: projects and service users there are
    names,              \* roles the server has by the name of a role
    members,            \* role ids of a user in a project
    mirror,             \* status of a project's mirror; None: there is none
    identity,           \* role_redmine_user
    key,                \* role_credential: whose key it is
    settings,           \* close status and provider of a role, as bootstrap stores them
    proc, faults,
    cut                 \* history: roles whose last save of a pair ended after its first row

server == <<projects, users, names, members, mirror>>
store == <<identity, key, settings>>
vars == <<server, store, proc, faults, cut>>
-----------------------------------------------------------------------------
(* Selection of the close status among [id, name, closed] records.           *)

The(set) == IF Cardinality(set) = 1 THEN CHOOSE s \in set : TRUE ELSE None

\* By id, by name, or the only closed one; None stands for every refusal.
SelectCloseStatus(c) ==
    LET chosen == The(IF c.id # None THEN {s \in c.statuses : s.id = c.id}
                      ELSE IF c.name # None THEN {s \in c.statuses : s.name = c.name}
                      ELSE {s \in c.statuses : s.closed})
    IN  IF chosen = None THEN None ELSE IF chosen.closed THEN chosen.id ELSE None
-----------------------------------------------------------------------------
Idle == [pc |-> "idle"]

Init ==
    /\ \E s \in Servers : projects = s.projects /\ members = s.members /\ mirror = s.mirror
    /\ users = {} /\ names \in Names
    /\ \E s \in Stores : identity = s.identity /\ key = s.key
    /\ settings = [r \in Roles \cup {Admin} |-> None]
    /\ proc = [p \in Procs |-> Idle]
    /\ faults = 0 /\ cut = {}

End(p) == proc' = [proc EXCEPT ![p] = Idle]
To(p, pc) == proc' = [proc EXCEPT ![p].pc = pc]

\* The answer of a request that was acted on arrives, or is lost.
Answered(p, next) ==
    \/ next /\ UNCHANGED faults
    \/ faults < MaxFaults /\ faults' = faults + 1 /\ End(p)
-----------------------------------------------------------------------------
(* Project.                                                                  *)

\* discover_matching_projects: the projects whose mirror is the origin's.
Matching == {q \in projects : mirror[q] # None}

\* resolve_redmine_project_for_search_or_create; a number is only resolved.
Resolved(c) ==
    IF c.explicit # None THEN c.explicit
    ELSE IF c.foreign \/ Matching = {} THEN None
    ELSE IF Cardinality(Matching) = 1 THEN CHOOSE q \in Matching : TRUE
    ELSE "ambiguous"

Start(p, c) ==
    /\ proc[p].pc = "idle"
    /\ proc' = [proc EXCEPT ![p] =
         [pc |-> IF c.op = "issue" THEN "resolve" ELSE IF c.op = "bootstrap" THEN "project" ELSE "list",
          cmd |-> c, todo |-> Provisioned, user |-> [r \in Roles |-> None],
          jobs |-> <<>>, warn |-> FALSE, close |-> None, seen |-> {}]]
    /\ UNCHANGED <<server, store, faults, cut>>

\* A match is used as it is, none begins a bootstrap by the admin, more are an error.
ResolveProject(p) ==
    /\ proc[p].pc = "resolve"
    /\ IF Resolved(proc[p].cmd) = None THEN To(p, "project") ELSE End(p)
    /\ UNCHANGED <<server, store, faults, cut>>

\* bootstrap_project: the close status is settled before a project is created.
FindProject(p) ==
    /\ proc[p].pc = "project"
    /\ LET close == SelectCloseStatus(proc[p].cmd) IN
         IF close = None THEN End(p)
         ELSE proc' = [proc EXCEPT ![p].close = close,
                          ![p].pc = IF Repo \in projects THEN "role" ELSE "create"]
    /\ UNCHANGED <<server, store, faults, cut>>

CreateProject(p) ==
    /\ proc[p].pc = "create"
    /\ IF Repo \in projects THEN End(p) /\ UNCHANGED <<projects, faults>>
       ELSE projects' = projects \cup {Repo} /\ Answered(p, To(p, "role"))
    /\ UNCHANGED <<users, names, members, mirror, store, cut>>

\* complete_projects; no project at all is a ready no-op.
ListProjects(p) ==
    /\ proc[p].pc = "list"
    /\ IF projects = {} THEN End(p)
       ELSE proc' = [proc EXCEPT ![p].seen = projects,
                        ![p].pc = IF proc[p].cmd.op = "preview" THEN "preview" ELSE "role"]
    /\ UNCHANGED <<server, store, faults, cut>>
-----------------------------------------------------------------------------
(* Service users: provision_agent_users, one role after the other.           *)

Role(p) == Head(proc[p].todo)

\* persisted_identity: both rows, or neither counts.
PersistedIdentity(r) == IF identity[r] # None /\ key[r] # None THEN identity[r] ELSE None

\* find_user_by_login
FindUserNone(r) == None
FindUser(r) == IF r \in users THEN r ELSE None

\* ensure_distinct, then the next role, then memberships.
Jobs(p) ==
    LET of(q) == [i \in DOMAIN Provisioned |-> [project |-> q, role |-> Provisioned[i]]]
        listed == CHOOSE s \in [1..Cardinality(proc[p].seen) -> proc[p].seen] :
                      \A i, j \in DOMAIN s : i # j => s[i] # s[j]
    IN  IF proc[p].cmd.op # "apply" THEN of(Repo)
        ELSE [i \in 1..(Len(listed) * Len(Provisioned)) |->
                of(listed[((i - 1) \div Len(Provisioned)) + 1])[((i - 1) % Len(Provisioned)) + 1]]

Accept(p, user) ==
    IF \E r \in Roles : proc[p].user[r] = user THEN End(p)
    ELSE LET rest == Tail(proc[p].todo) IN
         proc' = [proc EXCEPT ![p].user[Role(p)] = user, ![p].todo = rest,
                     ![p].pc = IF rest = <<>> THEN "roles" ELSE "role",
                     ![p].jobs = IF rest = <<>> THEN Jobs(p) ELSE <<>>,
                     ![p].seen = IF rest = <<>> THEN {} ELSE @]

ReuseOrFind(p) ==
    /\ proc[p].pc = "role"
    /\ LET known == PersistedIdentity(Role(p)) IN
         IF known # None THEN Accept(p, known)
         ELSE To(p, IF FindUser(Role(p)) # None THEN "key" ELSE "new")
    /\ UNCHANGED <<server, store, faults, cut>>

\* create_service_user; a login that is taken meanwhile is looked up again.
CreateUser(p) ==
    /\ proc[p].pc = "new"
    /\ IF Role(p) \in users
       THEN To(p, "again") /\ UNCHANGED <<users, faults>>
       ELSE users' = users \cup {Role(p)} /\ Answered(p, To(p, "key"))
    /\ UNCHANGED <<projects, names, members, mirror, store, cut>>

FindAgain(p) ==
    /\ proc[p].pc = "again"
    /\ IF FindUser(Role(p)) # None THEN To(p, "key") ELSE End(p)
    /\ UNCHANGED <<server, store, faults, cut>>

\* get_user_api_key and save_redmine_user, then, in a second transaction,
\* save_credential.
SaveUser(p) ==
    /\ proc[p].pc = "key"
    /\ identity' = [identity EXCEPT ![Role(p)] = Role(p)]
    /\ To(p, "credential")
    /\ UNCHANGED <<server, key, settings, faults, cut>>

SaveKey(p) ==
    /\ proc[p].pc = "credential"
    /\ key' = [key EXCEPT ![Role(p)] = Role(p)]
    /\ Accept(p, Role(p))
    /\ cut' = cut \ {Role(p)}
    /\ UNCHANGED <<server, identity, settings, faults>>
-----------------------------------------------------------------------------
(* Memberships: ensure_user_membership for every project and role.           *)

Job(p) == Head(proc[p].jobs)

\* What the write path does with the lists it has read.
Outcome(r, held) ==
    IF names[r] # 1 THEN "warning"
    ELSE IF held = {} THEN "added"
    ELSE IF r \in held THEN "existing" ELSE "updated"

\* memberships_ready decides what follows the last one.
ReadyAlways(p) == TRUE
Ready(p) == ~proc[p].warn

AfterJob(p, warn) ==
    LET rest == Tail(proc[p].jobs) IN
    proc' = [proc EXCEPT ![p].jobs = rest, ![p].warn = @ \/ warn, ![p].seen = {},
                ![p].pc = IF rest = <<>> THEN "settle" ELSE "roles"]

ReadMembership(p) ==
    /\ proc[p].pc = "roles"
    /\ LET held == members[Job(p).project][proc[p].user[Job(p).role]]
           does == Outcome(Job(p).role, held) IN
         CASE does = "warning" -> AfterJob(p, TRUE)
           [] does = "existing" -> AfterJob(p, FALSE)
           [] OTHER -> proc' = [proc EXCEPT ![p].pc = "member", ![p].seen = held]
    /\ UNCHANGED <<server, store, faults, cut>>

\* apply_project collects an error and goes on; bootstrap ends.
Errs(p) == IF proc[p].cmd.op = "apply" THEN AfterJob(p, TRUE) ELSE End(p)

\* POST of a new membership, or PUT of the roles that were read and one more.
WriteMembership(p) ==
    /\ proc[p].pc = "member"
    /\ LET q == Job(p).project
           u == proc[p].user[Job(p).role] IN
         IF proc[p].seen = {} /\ members[q][u] # {}
         THEN Errs(p) /\ UNCHANGED <<members, faults>>
         ELSE /\ members' = [members EXCEPT ![q][u] = proc[p].seen \cup {Job(p).role}]
              /\ \/ AfterJob(p, FALSE) /\ UNCHANGED faults
                 \/ faults < MaxFaults /\ faults' = faults + 1 /\ Errs(p)
    /\ UNCHANGED <<projects, users, names, mirror, store, cut>>

\* persist_role_settings comes next when no membership warned.
Settle(p) ==
    /\ proc[p].pc = "settle"
    /\ IF proc[p].cmd.op = "apply" THEN End(p)
       ELSE proc' = [proc EXCEPT ![p].pc = IF Ready(p) THEN "persist" ELSE "mirror",
                        ![p].todo = Provisioned]
    /\ UNCHANGED <<server, store, faults, cut>>
-----------------------------------------------------------------------------
(* Settings and mirror.                                                      *)

\* Every provisioned role, then the role that asked if it is not one of them.
Asks(p) == proc[p].cmd.role

Persist(p) ==
    /\ proc[p].pc = "persist"
    /\ LET last == proc[p].todo = <<>>
           r == IF last THEN Asks(p) ELSE Role(p) IN
         /\ settings' = IF last /\ r \in Roles THEN settings
                        ELSE [settings EXCEPT ![r] = proc[p].close]
         /\ proc' = [proc EXCEPT ![p].pc = IF last THEN "mirror" ELSE "persist",
                        ![p].todo = IF last THEN @ ELSE Tail(@)]
    /\ UNCHANGED <<server, identity, key, faults, cut>>

\* register_git_mirror: no mirror or a failed one is posted, once.  A foreign
\* repository without an address of its own is refused first.
MirrorGet(p) ==
    /\ proc[p].pc = "mirror"
    /\ IF ~proc[p].cmd.foreign /\ mirror[Repo] \in {None, "failed"}
       THEN To(p, "post") ELSE End(p)
    /\ UNCHANGED <<server, store, faults, cut>>

MirrorPost(p) ==
    /\ proc[p].pc = "post"
    /\ mirror' = [mirror EXCEPT ![Repo] = IF @ \in {None, "failed"} THEN "pending" ELSE @]
    /\ Answered(p, End(p))
    /\ UNCHANGED <<projects, users, names, members, store, cut>>
-----------------------------------------------------------------------------
(* Preview: reads what the run would read, and writes nothing.               *)

Preview(p) ==
    /\ proc[p].pc = "preview"
    /\ End(p)
    /\ UNCHANGED <<server, store, faults, cut>>
-----------------------------------------------------------------------------
(* Faults and the rest of the world.                                         *)

\* A request is refused or its answer is no use, or the process is killed.
Fault(p) ==
    /\ proc[p].pc # "idle" /\ faults < MaxFaults
    /\ faults' = faults + 1
    /\ IF proc[p].pc \in {"roles", "member"} THEN Errs(p) \/ End(p) ELSE End(p)
    /\ cut' = IF proc[p].pc = "credential" THEN cut \cup {Role(p)} ELSE cut
    /\ UNCHANGED <<server, store>>

\* The mirror plugin ends the job it has.
Mirrored ==
    \E q \in Projects :
        /\ mirror[q] = "pending"
        /\ \/ mirror' = [mirror EXCEPT ![q] = "ready"] /\ UNCHANGED faults
           \/ faults < MaxFaults /\ faults' = faults + 1
              /\ mirror' = [mirror EXCEPT ![q] = "failed"]
        /\ UNCHANGED <<projects, users, names, members, store, proc, cut>>

\* The administrator of Redmine puts the names of the roles right.
NameRoles ==
    /\ \E r \in Roles : names[r] # 1
    /\ names' = [r \in Roles |-> 1]
    /\ UNCHANGED <<projects, users, members, mirror, store, proc, faults, cut>>

Step(p) ==
    \/ ResolveProject(p) \/ FindProject(p) \/ CreateProject(p) \/ ListProjects(p)
    \/ ReuseOrFind(p) \/ CreateUser(p) \/ FindAgain(p) \/ SaveUser(p) \/ SaveKey(p)
    \/ ReadMembership(p) \/ WriteMembership(p) \/ Settle(p)
    \/ Persist(p) \/ MirrorGet(p) \/ MirrorPost(p) \/ Preview(p)

Next ==
    \/ Mirrored \/ NameRoles
    \/ \E p \in Procs : (\E c \in Commands[p] : Start(p, c)) \/ Step(p) \/ Fault(p)

\* A bootstrap that selects a close status and is of this repository.
Whole(p) == {c \in Commands[p] : c.op = "bootstrap" /\ ~c.foreign /\ SelectCloseStatus(c) # None}

\* Processes run; the operator runs the bootstrap again and again.
Fairness ==
    \A p \in Procs : WF_vars(Step(p)) /\ \A c \in Whole(p) : SF_vars(Start(p, c))

Spec == Init /\ [][Next]_vars /\ Fairness
-----------------------------------------------------------------------------
(* Properties.                                                               *)

\* The user whose key a role acts with holds the role's Redmine role in the
\* repository's project.
Backed(r) == key[r] # None /\ r \in members[Repo][key[r]]

Saving(r) == \E p \in Procs : proc[p].pc = "credential" /\ Role(p) = r

\* A role's settings are stored only when the user recorded for it holds its
\* Redmine role in the repository's project, and so does the user whose key it
\* acts with, whatever overlapped, was lost or killed: the role never selects a
\* tracker it may not write to.  The key is only promised of a pair that no save
\* left half written (provision_user.rs, two writes); see KeysAreBacked.
SettingsAreBacked ==
    \A r \in Roles : settings[r] # None =>
        /\ PersistedIdentity(r) # None /\ r \in members[Repo][PersistedIdentity(r)]
        /\ r \in cut \/ Saving(r) \/ Backed(r)

\* What persisted_identity says of itself, "a half-written or legacy record falls
\* through ... instead of silently reusing a stale identity" (provision_user.rs):
\* no settings are stored for a role that acts with a key of somebody else.
KeysAreBacked ==
    \A r \in Roles : settings[r] # None => Saving(r) \/ Backed(r)

\* A bootstrap that is run again comes to its end after any finite number of
\* faults, overlapping runs included, once the roles' names are right and the
\* roles do not share a user.
Complete ==
    /\ \A r \in Roles \cup {Admin} : settings[r] # None
    /\ mirror[Repo] \in {"pending", "ready"}
Distinct ==
    \A r, s \in Roles : r # s => PersistedIdentity(r) = None \/ PersistedIdentity(r) # PersistedIdentity(s)
Converges == (<>[](\A r \in Roles : names[r] = 1) /\ []Distinct) => <>[]Complete

=============================================================================

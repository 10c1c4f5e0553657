------------------------------- MODULE Leases -------------------------------
(***************************************************************************)
(* The lease commands of concurrent phasegent processes on one repository: *)
(* acquire (worktree/acquire.rs), release, heartbeat, the issue-close and  *)
(* sync retention, prune's stale recovery and its release of rows whose    *)
(* directory is gone.  Each process is its own OS process; the only shared *)
(* state is the SQLite table and the directories on disk.  A step is one   *)
(* SQL statement, one IMMEDIATE transaction or one git command, so every   *)
(* read is stale by the time the next step uses it, and a process may be   *)
(* killed between any two steps.                                           *)
(***************************************************************************)
EXTENDS LeaseStore

CONSTANTS
    Clients,     \* phasegent processes
    Main,        \* the main checkout, the one path that is not a linked tree
    Commands,    \* the commands the processes of the instance run
    Options,     \* the acquire options they pass
    StaleAfter   \* --stale-days, in clock units

\* How acquire may place the lease (AcquireOptions): reuse never creates a
\* tree, auto creates one on a path conflict, isolate and base always.
AcquireOptions == {"reuse", "auto", "isolate", "base"}

ASSUME LeasesAssumption ==
    /\ Main \in Paths
    /\ Options \subseteq AcquireOptions
    /\ StaleAfter \in Nat

Trees == Paths \ {Main}

VARIABLES
    leases,    \* worktree_leases with worktree_lease_scopes
    dirs,      \* the worktree directories on disk
    branches,  \* generated names whose branch exists; branches are never deleted
    lost,      \* trees whose creator was killed, or could not remove them again
    clock,     \* now_unix_secs
    proc       \* what each process is doing

vars == <<leases, dirs, branches, lost, clock, proc>>

\* AcquireLeaseRequest
Requests == [issue : Issues, session : Sessions, scope : Scopes \cup {NoScope},
             cwd : Paths, option : Options]

Members == [lease : LeaseIds, issue : Issues, status : {"active"} \cup Terminal,
            directory : Paths, scope : Scopes \cup {NoScope}]

Idle == [pc |-> "idle"]

Procs ==
    {Idle}
    \cup [pc : {"check", "find", "lookup", "add"}, req : Requests]
    \cup [pc : {"refresh"}, lease : LeaseIds]
    \cup [pc : {"insert", "compensate"}, req : Requests, path : Paths]
    \cup [pc : {"update"}, lease : LeaseIds, to : Terminal, forced : BOOLEAN]
    \cup [pc : {"justify"}, lease : LeaseIds]
    \cup [pc : {"retain"}, scope : Scopes, ids : SUBSET LeaseIds,
          approved : SUBSET Members]
    \cup [pc : {"recover"}, before : Int, selected : Projects \cup {NoScope},
          now : Times]
    \cup [pc : {"absent"}, path : Paths, targets : SUBSET LeaseIds,
          approved : SUBSET Members]

\* The table, the disk, the clock and every process as the commands may meet
\* them.
TypeOK ==
    /\ leases \in Tables
    /\ dirs \subseteq Paths
    /\ branches \subseteq Trees
    /\ lost \subseteq Trees
    /\ clock \in Times
    /\ proc \in [Clients -> Procs]

Init ==
    /\ leases = EmptyTable
    /\ dirs = {Main}
    /\ branches = {}
    /\ lost = {}
    /\ clock = 0
    /\ proc = [c \in Clients |-> Idle]

Enter(c, p) == proc' = [proc EXCEPT ![c] = p]
Done(c)     == Enter(c, Idle)

(***************************************************************************)
(* acquire_lease_scoped, acquire_lease_with, acquire_lease_inner           *)
(***************************************************************************)

\* validate_acquire passed; a scoped request checks for a collision first.
AcquireStart(c) ==
    /\ "acquire" \in Commands
    /\ proc[c].pc = "idle"
    /\ \E req \in Requests :
          /\ req.cwd \in dirs
          /\ req.scope # NoScope => req.scope.number = req.issue
          /\ Enter(c, [pc |-> IF req.scope = NoScope THEN "find" ELSE "check",
                       req |-> req])
    /\ UNCHANGED <<leases, dirs, branches, lost, clock>>

\* ensure_no_unscoped_collision, outside any transaction.
AcquireCheck(c) ==
    /\ proc[c].pc = "check"
    /\ IF UnscopedCollision(leases, proc[c].req.issue)
       THEN Done(c)
       ELSE Enter(c, [proc[c] EXCEPT !.pc = "find"])
    /\ UNCHANGED <<leases, dirs, branches, lost, clock>>

\* Rule 1 finds the triple's own active lease, the newest if there are more.
AcquireFound(c) ==
    /\ proc[c].pc = "find"
    /\ LET req == proc[c].req IN
       \E i \in ActiveForTriple(leases, req.issue, req.session, req.scope) :
          Enter(c, [pc |-> "refresh", lease |-> i])
    /\ UNCHANGED <<leases, dirs, branches, lost, clock>>

\* Rule 1 finds nothing.  --base goes straight to a new tree; so does
\* --isolate when git status could not be read; otherwise the path decides.
AcquireMissed(c) ==
    /\ proc[c].pc = "find"
    /\ LET req == proc[c].req IN
       /\ ActiveForTriple(leases, req.issue, req.session, req.scope) = {}
       /\ \E next \in {"lookup", "add"} :
             /\ next = "lookup" => req.option # "base"
             /\ next = "add" => req.option \in {"base", "isolate"}
             /\ Enter(c, [proc[c] EXCEPT !.pc = next])
    /\ UNCHANGED <<leases, dirs, branches, lost, clock>>

\* Rule 1 returns the lease it found after touching its heartbeat.
AcquireRefresh(c) ==
    /\ proc[c].pc = "refresh"
    /\ leases' = RefreshHeartbeat(leases, proc[c].lease, clock)
    /\ Done(c)
    /\ UNCHANGED <<dirs, branches, lost, clock>>

\* Rule 2 and rule 3: an occupied checkout refuses a reuse caller and sends
\* everyone else to a new tree; a free one is reused unless --isolate.
AcquireLookup(c) ==
    /\ proc[c].pc = "lookup"
    /\ LET req      == proc[c].req
           occupied == ActiveOnPath(leases, req.cwd) # {}
       IN  \/ /\ occupied
              /\ req.option = "reuse"
              /\ Done(c)
           \/ /\ occupied \/ req.option = "isolate"
              /\ req.option # "reuse"
              /\ Enter(c, [proc[c] EXCEPT !.pc = "add"])
           \/ /\ ~occupied
              /\ req.option # "isolate"
              /\ \/ Enter(c, [pc |-> "insert", req |-> req, path |-> req.cwd])
                 \/ Done(c)      \* the current branch could not be read
    /\ UNCHANGED <<leases, dirs, branches, lost, clock>>

\* acquire_new_worktree: a generated name, git worktree add -b.  An existing
\* path or branch, a bad base or a git failure ends the command.
AcquireAdd(c) ==
    /\ proc[c].pc = "add"
    /\ \/ \E p \in Trees \ (dirs \cup branches) :
             /\ dirs' = dirs \cup {p}
             /\ branches' = branches \cup {p}
             /\ Enter(c, [pc |-> "insert", req |-> proc[c].req, path |-> p])
       \/ /\ Done(c)
          /\ UNCHANGED <<dirs, branches>>
    /\ UNCHANGED <<leases, lost, clock>>

NewRow(req, path, now) ==
    [issue |-> req.issue, session |-> req.session, path |-> path,
     scope |-> req.scope, status |-> "active", heartbeat |-> now,
     reason |-> "null"]

\* Mutant of AcquireInsert: the transaction trusts the earlier collision check.
AcquireInsertUnchecked(c) ==
    /\ proc[c].pc = "insert"
    /\ LET row == NewRow(proc[c].req, proc[c].path, clock)
       IN  /\ CanInsert(leases, row)
           /\ \E i \in LeaseIds :
                 /\ NextId(leases, i)
                 /\ leases' = Insert(leases, i, row)
    /\ Done(c)
    /\ UNCHANGED <<dirs, branches, lost, clock>>

\* insert_lease, or insert_lease_scoped, whose transaction repeats the
\* collision check.
AcquireInsert(c) ==
    /\ proc[c].pc = "insert"
    /\ LET req == proc[c].req
           row == NewRow(req, proc[c].path, clock)
       IN  /\ req.scope # NoScope => ~UnscopedCollision(leases, req.issue)
           /\ CanInsert(leases, row)
           /\ \E i \in LeaseIds :
                 /\ NextId(leases, i)
                 /\ leases' = Insert(leases, i, row)
    /\ Done(c)
    /\ UNCHANGED <<dirs, branches, lost, clock>>

\* Mutant of AcquireRefused: the tree the command made is not removed.
AcquireRefusedLeaving(c) ==
    /\ proc[c].pc = "insert"
    /\ Done(c)
    /\ UNCHANGED <<leases, dirs, branches, lost, clock>>

\* The insert is refused: the unique index, the collision check, the durable
\* task proof, or the store itself.  Only a tree this command made is undone.
AcquireRefused(c) ==
    /\ proc[c].pc = "insert"
    /\ IF proc[c].path = proc[c].req.cwd
       THEN Done(c)
       ELSE Enter(c, [proc[c] EXCEPT !.pc = "compensate"])
    /\ UNCHANGED <<leases, dirs, branches, lost, clock>>

\* Best-effort worktree_remove of the tree the refused insert leaves behind.
AcquireCompensate(c) ==
    /\ proc[c].pc = "compensate"
    /\ \/ dirs' = dirs \ {proc[c].path} /\ UNCHANGED lost
       \/ lost' = lost \cup {proc[c].path} /\ UNCHANGED dirs
    /\ Done(c)
    /\ UNCHANGED <<leases, branches, clock>>

(***************************************************************************)
(* release_lease_inner: load, then update, then record the justification.  *)
(***************************************************************************)

ReleaseLoad(c) ==
    /\ "release" \in Commands
    /\ proc[c].pc = "idle"
    /\ \E i \in Active(leases), to \in Terminal, forced \in BOOLEAN :
          Enter(c, [pc |-> "update", lease |-> i, to |-> to, forced |-> forced])
    /\ UNCHANGED <<leases, dirs, branches, lost, clock>>

ReleaseUpdate(c) ==
    /\ proc[c].pc = "update"
    /\ leases' = UpdateStatus(leases, proc[c].lease, proc[c].to, clock)
    /\ IF proc[c].forced
       THEN Enter(c, [pc |-> "justify", lease |-> proc[c].lease])
       ELSE Done(c)
    /\ UNCHANGED <<dirs, branches, lost, clock>>

ReleaseJustify(c) ==
    /\ proc[c].pc = "justify"
    /\ leases' = RecordReason(leases, proc[c].lease, "forced")
    /\ Done(c)
    /\ UNCHANGED <<dirs, branches, lost, clock>>

(***************************************************************************)
(* heartbeat_lease, issue close and sync, stale recovery, absent release.  *)
(***************************************************************************)

Heartbeat(c) ==
    /\ "heartbeat" \in Commands
    /\ proc[c].pc = "idle"
    /\ \E i \in Stored(leases), s \in Sessions :
          leases' = HeartbeatActive(leases, i, s, clock)
    /\ UNCHANGED <<dirs, branches, lost, clock, proc>>

\* release_active_leases_for_issue, after the provider confirmed the close.
RetainForIssue(c) ==
    /\ "close" \in Commands
    /\ proc[c].pc = "idle"
    /\ \E issue \in Issues : leases' = RetainIssue(leases, issue, clock)
    /\ UNCHANGED <<dirs, branches, lost, clock, proc>>

\* retain_active_leases_for_scope: the rows and the proof are read first.
RetainScopeRead(c) ==
    /\ "close" \in Commands
    /\ proc[c].pc = "idle"
    /\ \E scope \in Scopes :
          Enter(c, [pc |-> "retain", scope |-> scope,
                    ids |-> {i \in Active(leases) : leases[i].scope = scope},
                    approved |-> RetentionProof(leases, scope.number)])
    /\ UNCHANGED <<leases, dirs, branches, lost, clock>>

RetainScopeWrite(c) ==
    /\ proc[c].pc = "retain"
    /\ leases' = RetainScopeIds(leases, proc[c].scope, proc[c].ids,
                                proc[c].approved, clock)
    /\ Done(c)
    /\ UNCHANGED <<dirs, branches, lost, clock>>

\* prune --release-stale: the window is fixed when the command starts.
RecoverStart(c) ==
    /\ "recover" \in Commands
    /\ proc[c].pc = "idle"
    /\ \E selected \in Projects \cup {NoScope} :
          Enter(c, [pc |-> "recover", before |-> clock - StaleAfter,
                    selected |-> selected, now |-> clock])
    /\ UNCHANGED <<leases, dirs, branches, lost, clock>>

RecoverWrite(c) ==
    /\ proc[c].pc = "recover"
    /\ \E answer \in StaleAnswers(leases, proc[c].before) :
          leases' = RecoverStale(leases, answer, proc[c].selected, proc[c].now)
    /\ Done(c)
    /\ UNCHANGED <<dirs, branches, lost, clock>>

\* prune's scan found a directory absent in a group its provider selection
\* admits, with no active row; the rows that are not yet released are the
\* targets of the transaction below.
AbsentScan(c) ==
    /\ "absent" \in Commands
    /\ proc[c].pc = "idle"
    /\ \E p \in Paths \ dirs, legacy \in BOOLEAN, project \in Projects :
          LET group   == GroupOf(leases, p)
              targets == {i \in group : leases[i].status # "released"}
          IN  /\ GroupAdmitted(leases, p, legacy, project)
              /\ targets # {}
              /\ group \cap Active(leases) = {}
              /\ Enter(c, [pc |-> "absent", path |-> p, targets |-> targets,
                           approved |-> OwnershipProof(leases, p)])
    /\ UNCHANGED <<leases, dirs, branches, lost, clock>>

AbsentWrite(c) ==
    /\ proc[c].pc = "absent"
    /\ leases' = ReleaseAbsent(leases, proc[c].path, proc[c].targets,
                               proc[c].approved, proc[c].path \in dirs, clock)
    /\ Done(c)
    /\ UNCHANGED <<dirs, branches, lost, clock>>

(***************************************************************************)
(* The environment.                                                        *)
(***************************************************************************)

\* A process is killed between two of its steps.
Kill(c) ==
    /\ "kill" \in Commands
    /\ proc[c].pc # "idle"
    /\ lost' = IF /\ proc[c].pc \in {"insert", "compensate"}
                  /\ proc[c].path # proc[c].req.cwd
               THEN lost \cup {proc[c].path}
               ELSE lost
    /\ Done(c)
    /\ UNCHANGED <<leases, dirs, branches, clock>>

\* A linked tree disappears (prune, close cleanup or the user), or one that a
\* lease names is put back under the same path.
RemoveTree ==
    /\ "absent" \in Commands
    /\ \E p \in dirs \ {Main} : dirs' = dirs \ {p}
    /\ UNCHANGED <<leases, branches, lost, clock, proc>>

RestoreTree ==
    /\ "absent" \in Commands
    /\ \E p \in branches \ dirs : /\ GroupOf(leases, p) # {}
                                 /\ dirs' = dirs \cup {p}
    /\ UNCHANGED <<leases, branches, lost, clock, proc>>

Tick ==
    /\ clock < MaxClock
    /\ clock' = clock + 1
    /\ UNCHANGED <<leases, dirs, branches, lost, proc>>

Acquire(c) ==
    \/ AcquireStart(c)   \/ AcquireCheck(c)   \/ AcquireFound(c)
    \/ AcquireMissed(c)  \/ AcquireRefresh(c) \/ AcquireLookup(c)
    \/ AcquireAdd(c)     \/ AcquireInsert(c)  \/ AcquireRefused(c)
    \/ AcquireCompensate(c)

Transition(c) ==
    \/ ReleaseLoad(c)     \/ ReleaseUpdate(c)    \/ ReleaseJustify(c)
    \/ Heartbeat(c)       \/ RetainForIssue(c)
    \/ RetainScopeRead(c) \/ RetainScopeWrite(c)
    \/ RecoverStart(c)    \/ RecoverWrite(c)
    \/ AbsentScan(c)      \/ AbsentWrite(c)

Next ==
    \/ \E c \in Clients : Acquire(c) \/ Transition(c) \/ Kill(c)
    \/ RemoveTree \/ RestoreTree \/ Tick

Spec == Init /\ [][Next]_vars

(***************************************************************************)
(* Safety.                                                                 *)
(***************************************************************************)

\* At most one active lease per checkout path, whatever commands interleave:
\* the index admits one, and no command turns a terminal row active again.
ActivePathUnique ==
    \A i, j \in Active(leases) : leases[i].path = leases[j].path => i = j

\* No scoped lease is ever written for an issue number some unscoped row
\* already used: the check acquire makes first can be stale, so the insert's
\* transaction has to repeat it.
NoScopedOverUnscoped ==
    \A i \in Unscoped(leases), j \in Scoped(leases) :
        i < j => leases[i].issue # leases[j].issue

\* An active row carries no release reason: a release killed between its two
\* statements leaves a terminal row without reason, never an active row that
\* says it was released.
ActiveHasNoReason ==
    \A i \in Active(leases) : leases[i].reason = "null"

\* A linked tree on disk is recorded by a lease, or is in the hands of the
\* acquire that made it, unless that process was killed or could not remove
\* it again: those are the only ways to leave an unrecorded tree behind.
TreesAccounted ==
    \A p \in dirs \ {Main} :
        \/ GroupOf(leases, p) # {}
        \/ \E c \in Clients : /\ proc[c].pc \in {"insert", "compensate"}
                              /\ proc[c].path = p
        \/ p \in lost

(***************************************************************************)
(* What a step may never do.                                               *)
(***************************************************************************)

\* retained and released are terminal: no statement makes such a row active,
\* the ones that name a row by its id alone included.
TerminalIsFinal ==
    [][\A i \in Stored(leases) :
          leases[i].status \in Terminal => leases'[i].status \in Terminal]_vars

\* A lease is recovered as stale only while its heartbeat really is older
\* than the window: a heartbeat that lands between the command's start and
\* its transaction saves the lease.
FreshNeverRecovered ==
    [][\A i \in Active(leases) :
          leases'[i].reason = "stale" =>
              clock - leases[i].heartbeat > StaleAfter]_vars

\* A close that retains one lease of an issue or of a scope leaves no active
\* lease of it: rows that arrive between the scope's read and its write make
\* the write abort instead of slipping through.
CloseLeavesNoneActive ==
    [][\A i \in Active(leases) :
          leases'[i].reason = "closed" =>
              \A j \in Active(leases)' :
                  \/ leases'[j].scope # leases[i].scope
                  \/ leases'[j].issue # leases[i].issue]_vars

\* A row is written off as absent only while its directory is gone and no
\* active lease names it, however long ago prune scanned it.
AbsentIsProven ==
    [][\A i \in Stored(leases) :
          leases'[i].reason = "absent" /\ leases[i].reason # "absent" =>
              /\ leases[i].path \notin dirs
              /\ ActiveOnPath(leases, leases[i].path) = {}]_vars
=============================================================================

----------------------------- MODULE LeaseStore -----------------------------
(***************************************************************************)
(* The lease table of one repository identity (worktree/lease_schema.rs,   *)
(* worktree/leases.rs) and the SQL statements and IMMEDIATE transactions   *)
(* that read and write it, as operators from a table to a table.           *)
(*                                                                         *)
(* A table is a function from lease ids to rows.  Ids stand for the random *)
(* lease ids in insertion order; rows are never deleted.  The sidecar row  *)
(* of worktree_lease_scopes is written in the transaction that writes the  *)
(* lease and never changed, so it is the field "scope" (NoScope: none).    *)
(***************************************************************************)
EXTENDS Integers, FiniteSets

CONSTANTS
    MaxLeases,    \* bound on the rows an instance inserts
    MaxClock,     \* bound on the wall clock, in seconds
    QueryLimit,   \* MAX_LEASES_PER_QUERY
    Issues,       \* issue numbers
    Sessions,     \* session ids
    Paths,        \* canonical worktree paths
    Projects,     \* (provider, project) pairs a sidecar scope may name
    Scopes,       \* the sidecar scopes of the instance
    NoScope       \* a lease without a sidecar row

ASSUME LeaseStoreAssumption ==
    /\ MaxLeases \in Nat
    /\ MaxClock \in Nat
    /\ QueryLimit \in Nat \ {0}
    /\ Scopes \subseteq [project : Projects, number : Issues, task : Nat]
    /\ NoScope \notin Scopes \cup Projects

LeaseIds == 1..MaxLeases
Times    == 0..MaxClock

\* LeaseScope: provider and project, external id, durable task (0: none).
NoTask == 0

\* release_reason: NULL, or which command wrote it.
Reasons  == {"null", "closed", "stale", "absent", "forced"}
Terminal == {"retained", "released"}

Lease == [issue : Issues, session : Sessions, path : Paths,
          scope : Scopes \cup {NoScope}, status : {"active"} \cup Terminal,
          heartbeat : Times, reason : Reasons]

NoLease == [status |-> "none"]

Tables     == [LeaseIds -> Lease \cup {NoLease}]
EmptyTable == [i \in LeaseIds |-> NoLease]

Stored(t)   == {i \in LeaseIds : t[i] # NoLease}
Active(t)   == {i \in LeaseIds : t[i].status = "active"}
Scoped(t)   == {i \in Stored(t) : t[i].scope # NoScope}
Unscoped(t) == {i \in Stored(t) : t[i].scope = NoScope}

(***************************************************************************)
(* Reads.                                                                  *)
(***************************************************************************)

\* find_active_lease and find_active_lease_for_scope: rows matching the
\* triple; without a scope only rows without a sidecar match.
ActiveForTriple(t, issue, session, scope) ==
    {i \in Active(t) : /\ t[i].session = session
                       /\ t[i].scope = scope
                       /\ scope = NoScope => t[i].issue = issue}

\* find_active_lease_for_path
ActiveOnPath(t, path) == {i \in Active(t) : t[i].path = path}

\* ensure_no_unscoped_collision: an unscoped row of any status collides.
UnscopedCollision(t, issue) == \E i \in Unscoped(t) : t[i].issue = issue

\* The directory group of a path: every row recorded on it.
GroupOf(t, path) == {i \in Stored(t) : t[i].path = path}

\* same_number_ambiguous: the number is used both with and without a scope.
Ambiguous(t, issue) ==
    /\ \E i \in Scoped(t) : t[i].issue = issue
    /\ \E i \in Unscoped(t) : t[i].issue = issue

\* Whether a prune for a provider may act on a directory group: no ambiguous
\* number; an unscoped group needs a provider with legacy numeric leases, a
\* scoped one a single key, a durable task's or the provider's own project.
GroupAdmitted(t, path, legacy, project) ==
    LET group == GroupOf(t, path)
    IN  /\ \A i \in group : ~Ambiguous(t, t[i].issue)
        /\ \/ group \subseteq Unscoped(t) /\ legacy
           \/ /\ group \subseteq Scoped(t)
              /\ \A i, j \in group : /\ t[i].scope.project = t[j].scope.project
                                     /\ t[i].scope.task = t[j].scope.task
              /\ \A i \in group : \/ t[i].scope.task # NoTask
                                  \/ t[i].scope.project = project

\* One ScopedRetentionMember: what an ownership proof records about a row.
Member(t, i) == [lease |-> i, issue |-> t[i].issue, status |-> t[i].status,
                 directory |-> t[i].path, scope |-> t[i].scope]

\* scoped_retention_proof: the rows on every directory some scoped row of
\* the issue names, and every other row with the same issue number.
RetentionProof(t, issue) ==
    LET dirs == {t[i].path : i \in {j \in Scoped(t) : t[j].issue = issue}}
    IN  {Member(t, i) : i \in {j \in Stored(t) : \/ t[j].path \in dirs
                                                 \/ t[j].issue = issue}}

\* directory_ownership_proof: the rows of one directory, and every row
\* elsewhere that carries the issue number of one of them.
OwnershipProof(t, path) ==
    LET issues == {t[i].issue : i \in GroupOf(t, path)}
    IN  {Member(t, i) : i \in {j \in Stored(t) : t[j].issue \in issues}}

\* Mutant of StaleAnswers: a heartbeat exactly as old as the window is stale.
StaleAnswersInclusive(t, before) ==
    {{i \in Active(t) : t[i].heartbeat <= before}}

\* stale_active_leases: at most QueryLimit stale rows, oldest heartbeat first.
\* Ties are broken either way, so this is the set of possible answers.
StaleAnswers(t, before) ==
    LET stale == {i \in Active(t) : t[i].heartbeat < before}
    IN  {s \in SUBSET stale :
            /\ Cardinality(s) <= QueryLimit
            /\ s # stale => Cardinality(s) = QueryLimit
            /\ \A i \in s, j \in stale \ s : t[i].heartbeat <= t[j].heartbeat}

(***************************************************************************)
(* Writes.                                                                 *)
(***************************************************************************)

\* The next id in insertion order.
NextId(t, i) == t[i] = NoLease /\ \A j \in LeaseIds : j < i => t[j] # NoLease

\* Mutant of CanInsert: the unique index is missing.
CanInsertUnindexed(t, row) == row.path \in Paths

\* insert_lease_on under the active-only unique index on the path.
CanInsert(t, row) == ActiveOnPath(t, row.path) = {}
Insert(t, i, row) == [t EXCEPT ![i] = row]

\* The UPDATE every transition statement shares: status, heartbeat, reason.
Flip(t, ids, to, now, why) ==
    [i \in LeaseIds |->
        IF i \in ids
        THEN [t[i] EXCEPT !.status = to, !.heartbeat = now, !.reason = why]
        ELSE t[i]]

\* Mutant of RefreshHeartbeat: the statement also makes the row active.
RefreshHeartbeatReviving(t, i, now) ==
    [t EXCEPT ![i].heartbeat = now, ![i].status = "active"]

\* refresh_heartbeat: by lease id alone, whatever the status.
RefreshHeartbeat(t, i, now) == [t EXCEPT ![i].heartbeat = now]

\* update_status: by lease id alone, whatever the status; keeps the reason.
UpdateStatus(t, i, to, now) ==
    [t EXCEPT ![i].status = to, ![i].heartbeat = now]

\* record_release_reason: by lease id alone.
RecordReason(t, i, why) == [t EXCEPT ![i].reason = why]

\* heartbeat_active_lease: only the owner's active row is refreshed.
HeartbeatActive(t, i, session, now) ==
    IF t[i].status = "active" /\ t[i].session = session
    THEN RefreshHeartbeat(t, i, now)
    ELSE t

\* retain_active_leases_for_issue: every unscoped active row of the issue,
\* across sessions.
RetainIssue(t, issue, now) ==
    Flip(t, {i \in Active(t) \cap Unscoped(t) : t[i].issue = issue},
         "retained", now, "closed")

\* Mutant of RetainScopeIds: the approved proof is not compared again.
RetainScopeIdsUnproven(t, scope, ids, approved, now) ==
    Flip(t, ids \cap Active(t), "retained", now, "closed")

\* retain_active_leases_for_scope_ids: nothing is written unless the proof
\* rebuilt inside the transaction equals the approved one.
RetainScopeIds(t, scope, ids, approved, now) ==
    IF /\ RetentionProof(t, scope.number) = approved
       /\ \A i \in ids : /\ t[i].scope # NoScope
                        /\ t[i].scope.project = scope.project
                        /\ t[i].scope.number = scope.number
    THEN Flip(t, ids \cap Active(t), "retained", now, "closed")
    ELSE t

\* StaleRecoveryScope::allows for the selections prune makes: LegacyOnly
\* (NoScope) owns unscoped rows, Exact owns the task-free rows of a project.
RecoveryAllows(t, i, selected) ==
    IF selected = NoScope
    THEN t[i].scope = NoScope
    ELSE /\ t[i].scope # NoScope
         /\ t[i].scope.project = selected
         /\ t[i].scope.task = NoTask

\* recover_stale_active_leases_for_scope: the transaction re-reads the
\* candidates; "answer" is the answer that read gave.
RecoverStale(t, answer, selected, now) ==
    Flip(t, {i \in answer : RecoveryAllows(t, i, selected)},
         "retained", now, "stale")

\* Mutant of ReleaseAbsent: the directory is not looked at again.
ReleaseAbsentUnseen(t, path, targets, approved, present, now) ==
    IF OwnershipProof(t, path) = approved
    THEN Flip(t, targets, "released", now, "absent")
    ELSE t

\* release_absent_leases_proven: proof, row status and physical absence are
\* re-read inside the transaction; any difference releases nothing.
ReleaseAbsent(t, path, targets, approved, present, now) ==
    IF /\ OwnershipProof(t, path) = approved
       /\ ~present
    THEN Flip(t, targets, "released", now, "absent")
    ELSE t
=============================================================================

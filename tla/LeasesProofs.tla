---------------------------- MODULE LeasesProofs ----------------------------
(***************************************************************************)
(* The lease commands are correct for every set of processes, commands,    *)
(* options, paths, sessions, issues and scopes, and every bound.           *)
(*                                                                         *)
(* First, what the statements on the table preserve.                       *)
(*                                                                         *)
(* Then the inductive invariant IInv: the properties of the table joined   *)
(* with what the processes remember.  A row some process is about to       *)
(* update or to justify exists, and a justified row is already terminal;   *)
(* without that, the statements that name a row by its id alone could      *)
(* write anywhere.                                                         *)
(*                                                                         *)
(* Last, what the commands may rely on when they act on evidence they read *)
(* earlier: stale recovery, retention after a close and the release of     *)
(* absent directories, and that no worktree directory is forgotten.  EInv  *)
(* joins IInv with what the running commands remember (MemoryInv) and with *)
(* the whereabouts of every tree (TreeInv).                                *)
(***************************************************************************)
EXTENDS Leases, TLAPS

-----------------------------------------------------------------------------
(* The statements.                                                           *)

\* From t to u no row appears or disappears or changes owner, no row becomes
\* active, and the ones that stay active keep their release reason.
Quiet(t, u) ==
    \A i \in LeaseIds :
        /\ (t[i] = NoLease) <=> (u[i] = NoLease)
        /\ t[i] # NoLease => /\ u[i].issue = t[i].issue
                             /\ u[i].session = t[i].session
                             /\ u[i].path = t[i].path
                             /\ u[i].scope = t[i].scope
        /\ u[i].status = "active" => /\ t[i].status = "active"
                                     /\ u[i].reason = t[i].reason

\* A stored row is a lease, any other entry is not.
LEMMA StoredIsLease ==
    ASSUME NEW t \in Tables, NEW i \in LeaseIds
    PROVE  /\ i \in Stored(t) <=> t[i] \in Lease
           /\ i \in Active(t) => t[i] \in Lease
  BY DEF Tables, Stored, Active, Lease, NoLease, Terminal

\* The empty table is a table.
LEMMA EmptyIsTable == EmptyTable \in Tables
  BY DEF EmptyTable, Tables

\* Inserting a lease gives a table.
LEMMA InsertTable ==
    ASSUME NEW t \in Tables, NEW i \in LeaseIds, NEW row \in Lease
    PROVE  Insert(t, i, row) \in Tables
  BY DEF Insert, Tables

\* The shared UPDATE of the transitions.
LEMMA FlipTable ==
    ASSUME NEW t \in Tables, NEW ids, ids \subseteq Stored(t),
           NEW to \in Terminal, NEW now \in Times, NEW why \in Reasons
    PROVE  /\ Flip(t, ids, to, now, why) \in Tables
           /\ Quiet(t, Flip(t, ids, to, now, why))
  <1> DEFINE u == Flip(t, ids, to, now, why)
  <1>1. ASSUME NEW i \in LeaseIds
        PROVE  u[i] = IF i \in ids
                      THEN [t[i] EXCEPT !.status = to, !.heartbeat = now, !.reason = why]
                      ELSE t[i]
    BY DEF Flip
  <1>2. ASSUME NEW i \in LeaseIds, i \in ids
        PROVE  /\ t[i] \in Lease /\ u[i] \in Lease
               /\ u[i].status = to
               /\ u[i].issue = t[i].issue /\ u[i].session = t[i].session
               /\ u[i].path = t[i].path /\ u[i].scope = t[i].scope
    <2>1. t[i] \in Lease
      BY <1>2, StoredIsLease
    <2> QED
      BY <1>1, <1>2, <2>1 DEF Lease
  <1>3. u \in Tables
    <2>1. \A i \in LeaseIds : u[i] \in Lease \cup {NoLease}
      BY <1>1, <1>2 DEF Tables
    <2> QED
      BY <2>1 DEF Flip, Tables
  <1>4. Quiet(t, u)
    <2> SUFFICES ASSUME NEW i \in LeaseIds
                 PROVE  /\ (t[i] = NoLease) <=> (u[i] = NoLease)
                        /\ t[i] # NoLease => /\ u[i].issue = t[i].issue
                                             /\ u[i].session = t[i].session
                                             /\ u[i].path = t[i].path
                                             /\ u[i].scope = t[i].scope
                        /\ u[i].status = "active" => /\ t[i].status = "active"
                                                     /\ u[i].reason = t[i].reason
      BY DEF Quiet
    <2>1. CASE i \in ids
      BY <1>2, <2>1 DEF Lease, NoLease, Terminal
    <2>2. CASE i \notin ids
      BY <1>1, <2>2
    <2> QED
      BY <2>1, <2>2
  <1> QED
    BY <1>3, <1>4

\* An update of one stored row that leaves its owner alone, does not make it
\* active, and touches its reason only if it is not active.
LEMMA RowTable ==
    ASSUME NEW t \in Tables, NEW i \in Stored(t), NEW row \in Lease,
           row.issue = t[i].issue, row.session = t[i].session,
           row.path = t[i].path, row.scope = t[i].scope,
           row.status = "active" => /\ t[i].status = "active"
                                    /\ row.reason = t[i].reason
    PROVE  /\ [t EXCEPT ![i] = row] \in Tables
           /\ Quiet(t, [t EXCEPT ![i] = row])
  <1> DEFINE u == [t EXCEPT ![i] = row]
  <1>1. i \in LeaseIds /\ t[i] \in Lease
    BY StoredIsLease DEF Stored
  <1>2. u \in Tables
    BY <1>1 DEF Tables
  <1>3. \A j \in LeaseIds : u[j] = IF j = i THEN row ELSE t[j]
    BY <1>1 DEF Tables
  <1>4. t[i] # NoLease /\ row # NoLease
    BY <1>1 DEF Lease, NoLease, Terminal
  <1>5. Quiet(t, u)
    BY <1>3, <1>4 DEF Quiet
  <1> QED
    BY <1>2, <1>5

\* refresh_heartbeat
LEMMA RefreshTable ==
    ASSUME NEW t \in Tables, NEW i \in Stored(t), NEW now \in Times
    PROVE  /\ RefreshHeartbeat(t, i, now) \in Tables
           /\ Quiet(t, RefreshHeartbeat(t, i, now))
  <1> DEFINE row == [t[i] EXCEPT !.heartbeat = now]
  <1>1. t[i] \in Lease
    BY StoredIsLease DEF Stored
  <1>2. /\ row \in Lease
        /\ row.issue = t[i].issue /\ row.session = t[i].session
        /\ row.path = t[i].path /\ row.scope = t[i].scope
        /\ row.status = t[i].status /\ row.reason = t[i].reason
    BY <1>1 DEF Lease
  <1>3. RefreshHeartbeat(t, i, now) = [t EXCEPT ![i] = row]
    BY DEF RefreshHeartbeat
  <1> HIDE DEF row
  <1> QED
    BY <1>2, <1>3, RowTable

\* update_status
LEMMA UpdateTable ==
    ASSUME NEW t \in Tables, NEW i \in Stored(t), NEW to \in Terminal,
           NEW now \in Times
    PROVE  /\ UpdateStatus(t, i, to, now) \in Tables
           /\ Quiet(t, UpdateStatus(t, i, to, now))
           /\ UpdateStatus(t, i, to, now)[i].status = to
  <1> DEFINE row == [[t[i] EXCEPT !.status = to] EXCEPT !.heartbeat = now]
             u   == UpdateStatus(t, i, to, now)
  <1>1. t[i] \in Lease /\ i \in LeaseIds
    BY StoredIsLease DEF Stored
  <1>2. /\ row \in Lease
        /\ row.issue = t[i].issue /\ row.session = t[i].session
        /\ row.path = t[i].path /\ row.scope = t[i].scope
        /\ row.status = to
    BY <1>1 DEF Lease
  <1>3. u = [t EXCEPT ![i] = row]
    BY <1>1 DEF UpdateStatus, Tables
  <1>4. u[i] = row
    BY <1>1, <1>3 DEF Tables
  <1> HIDE DEF row, u
  <1>5. row.status # "active"
    BY <1>2 DEF Terminal
  <1>6. u \in Tables /\ Quiet(t, u)
    BY <1>2, <1>3, <1>5, RowTable
  <1> QED
    BY <1>2, <1>4, <1>6 DEF u

\* record_release_reason on a row that is no longer active
LEMMA RecordTable ==
    ASSUME NEW t \in Tables, NEW i \in Stored(t), NEW why \in Reasons,
           t[i].status # "active"
    PROVE  /\ RecordReason(t, i, why) \in Tables
           /\ Quiet(t, RecordReason(t, i, why))
  <1> DEFINE row == [t[i] EXCEPT !.reason = why]
  <1>1. t[i] \in Lease
    BY StoredIsLease DEF Stored
  <1>2. /\ row \in Lease
        /\ row.issue = t[i].issue /\ row.session = t[i].session
        /\ row.path = t[i].path /\ row.scope = t[i].scope
        /\ row.status = t[i].status
    BY <1>1 DEF Lease
  <1>3. RecordReason(t, i, why) = [t EXCEPT ![i] = row]
    BY DEF RecordReason
  <1> HIDE DEF row
  <1> QED
    BY <1>2, <1>3, RowTable

\* Nothing written
LEMMA SameTable == ASSUME NEW t \in Tables PROVE Quiet(t, t)
  BY DEF Quiet

\* heartbeat_active_lease
LEMMA HeartbeatTable ==
    ASSUME NEW t \in Tables, NEW i \in Stored(t), NEW s, NEW now \in Times
    PROVE  /\ HeartbeatActive(t, i, s, now) \in Tables
           /\ Quiet(t, HeartbeatActive(t, i, s, now))
  BY RefreshTable, SameTable DEF HeartbeatActive

\* Active rows are stored rows.
LEMMA ActiveStored == ASSUME NEW t \in Tables PROVE Active(t) \subseteq Stored(t)
  BY DEF Active, Stored, NoLease

\* retain_active_leases_for_issue and retain_active_leases_for_scope_ids
LEMMA RetainTable ==
    ASSUME NEW t \in Tables, NEW issue, NEW scope, NEW ids, NEW approved,
           NEW now \in Times
    PROVE  /\ RetainIssue(t, issue, now) \in Tables
           /\ Quiet(t, RetainIssue(t, issue, now))
           /\ RetainScopeIds(t, scope, ids, approved, now) \in Tables
           /\ Quiet(t, RetainScopeIds(t, scope, ids, approved, now))
  <1> DEFINE mine == {i \in Active(t) \cap Unscoped(t) : t[i].issue = issue}
             some == ids \cap Active(t)
  <1>1. mine \subseteq Stored(t) /\ some \subseteq Stored(t)
    BY ActiveStored
  <1>2. "retained" \in Terminal /\ "closed" \in Reasons
    BY DEF Terminal, Reasons
  <1>3. RetainIssue(t, issue, now) = Flip(t, mine, "retained", now, "closed")
    BY DEF RetainIssue
  <1>4. \/ RetainScopeIds(t, scope, ids, approved, now) = t
        \/ RetainScopeIds(t, scope, ids, approved, now)
             = Flip(t, some, "retained", now, "closed")
    BY DEF RetainScopeIds
  <1> HIDE DEF mine, some
  <1> QED
    BY <1>1, <1>2, <1>3, <1>4, FlipTable, SameTable

\* recover_stale_active_leases_for_scope
LEMMA RecoverTable ==
    ASSUME NEW t \in Tables, NEW before, NEW answer \in StaleAnswers(t, before),
           NEW selected, NEW now \in Times
    PROVE  /\ RecoverStale(t, answer, selected, now) \in Tables
           /\ Quiet(t, RecoverStale(t, answer, selected, now))
  <1> DEFINE ids == {i \in answer : RecoveryAllows(t, i, selected)}
  <1>1. ids \subseteq Stored(t)
    BY ActiveStored DEF StaleAnswers
  <1>2. "retained" \in Terminal /\ "stale" \in Reasons
    BY DEF Terminal, Reasons
  <1>3. RecoverStale(t, answer, selected, now) = Flip(t, ids, "retained", now, "stale")
    BY DEF RecoverStale
  <1> HIDE DEF ids
  <1> QED
    BY <1>1, <1>2, <1>3, FlipTable

\* release_absent_leases_proven
LEMMA AbsentTable ==
    ASSUME NEW t \in Tables, NEW path, NEW targets, targets \subseteq Stored(t),
           NEW approved, NEW present, NEW now \in Times
    PROVE  /\ ReleaseAbsent(t, path, targets, approved, present, now) \in Tables
           /\ Quiet(t, ReleaseAbsent(t, path, targets, approved, present, now))
  <1>1. "released" \in Terminal /\ "absent" \in Reasons
    BY DEF Terminal, Reasons
  <1>2. \/ ReleaseAbsent(t, path, targets, approved, present, now) = t
        \/ ReleaseAbsent(t, path, targets, approved, present, now)
             = Flip(t, targets, "released", now, "absent")
    BY DEF ReleaseAbsent
  <1> QED
    BY <1>1, <1>2, FlipTable, SameTable

-----------------------------------------------------------------------------
(* The table and the processes.                                              *)

\* Rows fill the table from below: ids are given in insertion order.
Prefix(t) == \A i \in LeaseIds, j \in Stored(t) : i < j => i \in Stored(t)

\* The table part of the invariants, for any table.
PathUnique(t)   == \A i, j \in Active(t) : t[i].path = t[j].path => i = j
ScopesSplit(t)  == \A i \in Unscoped(t), j \in Scoped(t) :
                       i < j => t[i].issue # t[j].issue
NoReason(t)     == \A i \in Active(t) : t[i].reason = "null"

TableInv(t) == Prefix(t) /\ PathUnique(t) /\ ScopesSplit(t) /\ NoReason(t)

\* What a process may rely on although other processes run: the rows it
\* remembers exist, a row it is about to justify is terminal, and a path that
\* is not its working directory is a linked tree it made itself.
Knows(p, t) ==
    /\ p.pc \in {"refresh", "update", "justify"} => p.lease \in Stored(t)
    /\ p.pc = "justify" => t[p.lease].status # "active"
    /\ p.pc = "absent" => p.targets \subseteq Stored(t)
    /\ p.pc = "insert" => p.path = p.req.cwd \/ p.path \in Trees
    /\ p.pc = "compensate" => p.path \in Trees

IInv ==
    /\ TypeOK
    /\ TableInv(leases)
    /\ \A c \in Clients : Knows(proc[c], leases)

\* No row disappears and no terminal row becomes active.
Grows(t, u) ==
    \A i \in Stored(t) : /\ i \in Stored(u)
                         /\ t[i].status # "active" => u[i].status # "active"

\* A quiet statement preserves the table invariants.
LEMMA QuietKeeps ==
    ASSUME NEW t \in Tables, NEW u \in Tables, Quiet(t, u), TableInv(t)
    PROVE  TableInv(u) /\ Grows(t, u)
  <1>1. Stored(u) = Stored(t)
    BY DEF Quiet, Stored
  <1>2. Active(u) \subseteq Active(t)
    BY DEF Quiet, Active
  <1>3. Scoped(u) = Scoped(t) /\ Unscoped(u) = Unscoped(t)
    BY <1>1 DEF Quiet, Scoped, Unscoped, Stored
  <1>4. Active(t) \subseteq Stored(t)
    BY ActiveStored
  <1>5. Prefix(u)
    BY <1>1 DEF TableInv, Prefix
  <1>6. PathUnique(u)
    BY <1>2, <1>4 DEF TableInv, PathUnique, Quiet, Stored
  <1>7. ScopesSplit(u)
    BY <1>3 DEF TableInv, ScopesSplit, Quiet, Scoped, Unscoped, Stored
  <1>8. NoReason(u)
    BY <1>2 DEF TableInv, NoReason, Quiet, Active
  <1>9. Grows(t, u)
    BY <1>1 DEF Grows, Quiet, Stored
  <1> QED
    BY <1>5, <1>6, <1>7, <1>8, <1>9 DEF TableInv

\* So does an insert the index and the collision check admit.
LEMMA InsertKeeps ==
    ASSUME NEW t \in Tables, TableInv(t), NEW i \in LeaseIds, NextId(t, i),
           NEW row \in Lease, CanInsert(t, row), row.reason = "null",
           row.scope # NoScope => ~UnscopedCollision(t, row.issue)
    PROVE  TableInv(Insert(t, i, row)) /\ Grows(t, Insert(t, i, row))
  <1> DEFINE u == Insert(t, i, row)
  <1>1. \A j \in LeaseIds : u[j] = IF j = i THEN row ELSE t[j]
    BY DEF Insert, Tables
  <1>2. row # NoLease
    BY DEF Lease, NoLease, Terminal
  <1>3. i \notin Stored(t) /\ t[i] = NoLease
    BY DEF NextId, Stored
  <1> HIDE DEF u
  <1>4. Stored(u) = Stored(t) \cup {i}
    BY <1>1, <1>2 DEF Stored
  <1>5. Active(u) \subseteq Active(t) \cup {i} /\ i \notin Active(t)
    BY <1>1, <1>3 DEF Active, NoLease
  <1>6. LeaseIds \subseteq Int
    BY DEF LeaseIds
  <1>7. Prefix(u)
    BY <1>4, <1>6 DEF TableInv, Prefix, NextId, Stored
  <1>8. PathUnique(u)
    <2>1. \A j \in Active(t) : j \in LeaseIds /\ t[j].path # row.path
      BY DEF CanInsert, ActiveOnPath, Active
    <2> QED
      BY <1>1, <1>5, <2>1 DEF TableInv, PathUnique
  <1>9. ScopesSplit(u)
    <2> SUFFICES ASSUME NEW a \in Unscoped(u), NEW b \in Scoped(u), a < b
                 PROVE  u[a].issue # u[b].issue
      BY DEF ScopesSplit
    <2>1. a \in Stored(u) /\ b \in Stored(u) /\ a \in LeaseIds /\ b \in LeaseIds
      BY DEF Unscoped, Scoped, Stored
    <2>2. CASE a = i
      <3>1. b # i /\ b \in Stored(t)
        BY <1>4, <1>6, <2>1, <2>2
      <3>2. i \in Stored(t)
        BY <2>1, <2>2, <3>1 DEF TableInv, Prefix
      <3> QED
        BY <1>3, <3>2
    <2>3. CASE a # i /\ b = i
      <3>1. a \in Unscoped(t) /\ u[a] = t[a] /\ u[b] = row
        BY <1>1, <1>4, <2>1, <2>3 DEF Unscoped
      <3>2. row.scope # NoScope
        BY <3>1 DEF Scoped
      <3> QED
        BY <3>1, <3>2 DEF UnscopedCollision
    <2>4. CASE a # i /\ b # i
      BY <1>1, <1>4, <2>1, <2>4 DEF Unscoped, Scoped, TableInv, ScopesSplit
    <2> QED
      BY <2>2, <2>3, <2>4
  <1>10. NoReason(u)
    BY <1>1, <1>5 DEF TableInv, NoReason, Active
  <1>11. Grows(t, u)
    BY <1>1, <1>3, <1>4 DEF Grows, Stored
  <1> QED
    BY <1>7, <1>8, <1>9, <1>10, <1>11 DEF TableInv, u

\* What the program counter says about the rest of a process.
LEMMA ProcShape ==
    ASSUME NEW p \in Procs
    PROVE  /\ p.pc \in {"check", "find", "lookup", "add"} =>
                  p \in [pc : {"check", "find", "lookup", "add"}, req : Requests]
           /\ p.pc \in {"insert", "compensate"} =>
                  p \in [pc : {"insert", "compensate"}, req : Requests, path : Paths]
           /\ p.pc \in {"refresh", "justify"} => p.lease \in LeaseIds
           /\ p.pc = "update" =>
                  p \in [pc : {"update"}, lease : LeaseIds, to : Terminal,
                         forced : BOOLEAN]
           /\ p.pc = "recover" => p.now \in Times
  BY DEF Procs, Idle

\* A process that enters p knows what p needs; the others keep what they knew.
LEMMA Advance ==
    ASSUME IInv, leases' \in Tables, TableInv(leases'), Grows(leases, leases'),
           dirs' \subseteq Paths, branches' \subseteq Trees, lost' \subseteq Trees,
           clock' \in Times,
           NEW c \in Clients, NEW p \in Procs, Enter(c, p), Knows(p, leases')
    PROVE  IInv'
  <1>1. proc' \in [Clients -> Procs]
    BY DEF IInv, TypeOK, Enter
  <1>2. ASSUME NEW d \in Clients PROVE Knows(proc'[d], leases')
    <2>1. CASE d = c
      BY <2>1 DEF IInv, TypeOK, Enter
    <2>2. CASE d # c
      <3>1. proc'[d] = proc[d] /\ Knows(proc[d], leases)
        BY <2>2 DEF IInv, TypeOK, Enter
      <3>2. Knows(proc[d], leases')
        BY <3>1 DEF Knows, Grows
      <3> QED
        BY <3>1, <3>2
    <2> QED
      BY <2>1, <2>2
  <1> QED
    BY <1>1, <1>2 DEF IInv, TypeOK

\* A step that only reads the table.
LEMMA ReadOnly == ASSUME IInv PROVE Grows(leases, leases)
  BY DEF Grows

\* The steps of acquire.
LEMMA AcquireKeeps ==
    ASSUME IInv, NEW c \in Clients, Acquire(c)
    PROVE  IInv' /\ Grows(leases, leases')
  <1> DEFINE p == proc[c]
  <1>0. p \in Procs /\ Knows(p, leases)
    BY DEF IInv, TypeOK
  <1>1. Idle \in Procs /\ \A t : Knows(Idle, t)
    BY DEF Procs, Idle, Knows
  <1>2. /\ leases \in Tables /\ TableInv(leases) /\ Grows(leases, leases)
        /\ dirs \subseteq Paths /\ branches \subseteq Trees /\ lost \subseteq Trees
        /\ clock \in Times
    BY ReadOnly DEF IInv, TypeOK
  <1> USE DEF Done
  <1>3. CASE AcquireStart(c)
    <2>1. PICK req \in Requests :
             Enter(c, [pc |-> IF req.scope = NoScope THEN "find" ELSE "check",
                       req |-> req])
      BY <1>3 DEF AcquireStart
    <2> DEFINE q == [pc |-> IF req.scope = NoScope THEN "find" ELSE "check",
                     req |-> req]
    <2>2. q \in Procs /\ Knows(q, leases)
      BY DEF Procs, Knows
    <2> HIDE DEF q
    <2>3. Enter(c, q)
      BY <2>1 DEF q
    <2> QED
      BY <1>2, <1>3, <2>2, <2>3, Advance DEF AcquireStart
  <1>4. CASE AcquireCheck(c)
    <2> DEFINE q == [p EXCEPT !.pc = "find"]
    <2>1. q \in Procs /\ Knows(q, leases)
      BY <1>0, <1>4, ProcShape DEF AcquireCheck, Procs, Knows
    <2>2. Enter(c, Idle) \/ Enter(c, q)
      BY <1>4 DEF AcquireCheck
    <2> HIDE DEF q
    <2> QED
      BY <1>1, <1>2, <1>4, <2>1, <2>2, Advance DEF AcquireCheck
  <1>5. CASE AcquireFound(c)
    <2>1. PICK i \in Active(leases) : Enter(c, [pc |-> "refresh", lease |-> i])
      BY <1>5 DEF AcquireFound, ActiveForTriple
    <2> DEFINE q == [pc |-> "refresh", lease |-> i]
    <2>2. q \in Procs /\ Knows(q, leases)
      BY <1>2, ActiveStored DEF Procs, Knows, Active
    <2> HIDE DEF q
    <2>3. Enter(c, q)
      BY <2>1 DEF q
    <2> QED
      BY <1>2, <1>5, <2>2, <2>3, Advance DEF AcquireFound
  <1>6. CASE AcquireMissed(c)
    <2>1. PICK next \in {"lookup", "add"} : Enter(c, [p EXCEPT !.pc = next])
      BY <1>6 DEF AcquireMissed
    <2> DEFINE q == [p EXCEPT !.pc = next]
    <2>2. q \in Procs /\ Knows(q, leases)
      BY <1>0, <1>6, ProcShape DEF AcquireMissed, Procs, Knows
    <2> HIDE DEF q
    <2>3. Enter(c, q)
      BY <2>1 DEF q
    <2> QED
      BY <1>2, <1>6, <2>2, <2>3, Advance DEF AcquireMissed
  <1>7. CASE AcquireRefresh(c)
    <2>1. p.lease \in Stored(leases)
      BY <1>0, <1>7 DEF AcquireRefresh, Knows
    <2>2. leases' \in Tables /\ TableInv(leases') /\ Grows(leases, leases')
      BY <1>2, <1>7, <2>1, RefreshTable, QuietKeeps DEF AcquireRefresh
    <2> QED
      BY <1>1, <1>2, <1>7, <2>2, Advance DEF AcquireRefresh
  <1>8. CASE AcquireLookup(c)
    <2> DEFINE q == [p EXCEPT !.pc = "add"]
               r == [pc |-> "insert", req |-> p.req, path |-> p.req.cwd]
    <2>1. q \in Procs /\ Knows(q, leases)
      BY <1>0, <1>8, ProcShape DEF AcquireLookup, Procs, Knows
    <2>2. r \in Procs /\ Knows(r, leases)
      BY <1>0, <1>8, ProcShape DEF AcquireLookup, Procs, Knows, Requests
    <2>3. Enter(c, Idle) \/ Enter(c, q) \/ Enter(c, r)
      BY <1>8 DEF AcquireLookup
    <2> HIDE DEF q, r
    <2> QED
      BY <1>1, <1>2, <1>8, <2>1, <2>2, <2>3, Advance DEF AcquireLookup
  <1>9. CASE AcquireAdd(c)
    <2>1. CASE Enter(c, Idle) /\ UNCHANGED <<dirs, branches>>
      BY <1>1, <1>2, <1>9, <2>1, Advance DEF AcquireAdd
    <2>2. ASSUME NEW t \in Trees, dirs' = dirs \cup {t}, branches' = branches \cup {t},
                 Enter(c, [pc |-> "insert", req |-> p.req, path |-> t])
          PROVE  IInv' /\ Grows(leases, leases')
      <3> DEFINE q == [pc |-> "insert", req |-> p.req, path |-> t]
      <3>1. q \in Procs /\ Knows(q, leases)
        BY <1>0, <1>9, ProcShape DEF AcquireAdd, Procs, Knows, Trees
      <3>2. dirs' \subseteq Paths /\ branches' \subseteq Trees
        BY <1>2, <2>2 DEF Trees
      <3> HIDE DEF q
      <3>3. Enter(c, q)
        BY <2>2 DEF q
      <3> QED
        BY <1>2, <1>9, <3>1, <3>2, <3>3, Advance DEF AcquireAdd
    <2> QED
      BY <1>9, <2>1, <2>2 DEF AcquireAdd
  <1>10. CASE AcquireInsert(c)
    <2> DEFINE row == NewRow(p.req, p.path, clock)
    <2>1. p.req \in Requests /\ p.path \in Paths
      BY <1>0, <1>10, ProcShape DEF AcquireInsert
    <2>2. /\ row \in Lease /\ row.reason = "null"
          /\ row.scope = p.req.scope /\ row.issue = p.req.issue
      BY <1>2, <2>1 DEF NewRow, Lease, Requests, Reasons
    <2>3. /\ row.scope # NoScope => ~UnscopedCollision(leases, row.issue)
          /\ CanInsert(leases, row)
          /\ \E i \in LeaseIds : /\ NextId(leases, i)
                                 /\ leases' = Insert(leases, i, row)
      BY <1>10, <2>2 DEF AcquireInsert
    <2> HIDE DEF row
    <2>4. leases' \in Tables /\ TableInv(leases') /\ Grows(leases, leases')
      BY <1>2, <2>2, <2>3, InsertTable, InsertKeeps
    <2> QED
      BY <1>1, <1>2, <1>10, <2>4, Advance DEF AcquireInsert
  <1>11. CASE AcquireRefused(c)
    <2>1. CASE p.path = p.req.cwd
      BY <1>1, <1>2, <1>11, <2>1, Advance DEF AcquireRefused
    <2>2. CASE p.path # p.req.cwd
      <3> DEFINE q == [p EXCEPT !.pc = "compensate"]
      <3>1. q \in Procs /\ Knows(q, leases)
        BY <1>0, <1>11, <2>2, ProcShape DEF AcquireRefused, Procs, Knows
      <3>2. Enter(c, q)
        BY <1>11, <2>2 DEF AcquireRefused
      <3> HIDE DEF q
      <3> QED
        BY <1>2, <1>11, <3>1, <3>2, Advance DEF AcquireRefused
    <2> QED
      BY <2>1, <2>2
  <1>12. CASE AcquireCompensate(c)
    <2>1. dirs' \subseteq Paths /\ lost' \subseteq Trees
      BY <1>0, <1>2, <1>12 DEF AcquireCompensate, Knows
    <2> QED
      BY <1>1, <1>2, <1>12, <2>1, Advance DEF AcquireCompensate
  <1> QED
    BY <1>3, <1>4, <1>5, <1>6, <1>7, <1>8, <1>9, <1>10, <1>11, <1>12 DEF Acquire

\* An ownership or retention proof is a set of members.
LEMMA MemberTyped ==
    ASSUME NEW t \in Tables, NEW i \in Stored(t)
    PROVE  Member(t, i) \in Members
  BY StoredIsLease DEF Stored, Member, Members, Lease

\* The steps of release, heartbeat, close, stale recovery and absent release.
LEMMA TransitionKeeps ==
    ASSUME IInv, NEW c \in Clients, Transition(c)
    PROVE  IInv' /\ Grows(leases, leases')
  <1> DEFINE p == proc[c]
  <1>0. p \in Procs /\ Knows(p, leases)
    BY DEF IInv, TypeOK
  <1>1. Idle \in Procs /\ \A t : Knows(Idle, t)
    BY DEF Procs, Idle, Knows
  <1>2. /\ leases \in Tables /\ TableInv(leases) /\ Grows(leases, leases)
        /\ dirs \subseteq Paths /\ branches \subseteq Trees /\ lost \subseteq Trees
        /\ clock \in Times
    BY ReadOnly DEF IInv, TypeOK
  <1>3. ASSUME UNCHANGED proc PROVE Enter(c, p)
    BY <1>3 DEF IInv, TypeOK, Enter
  <1> USE DEF Done
  <1>4. CASE ReleaseLoad(c)
    <2>1. PICK i \in Active(leases), to \in Terminal, forced \in BOOLEAN :
             Enter(c, [pc |-> "update", lease |-> i, to |-> to, forced |-> forced])
      BY <1>4 DEF ReleaseLoad
    <2> DEFINE q == [pc |-> "update", lease |-> i, to |-> to, forced |-> forced]
    <2>2. q \in Procs /\ Knows(q, leases)
      BY <1>2, ActiveStored DEF Procs, Knows, Active
    <2> HIDE DEF q
    <2>3. Enter(c, q)
      BY <2>1 DEF q
    <2> QED
      BY <1>2, <1>4, <2>2, <2>3, Advance DEF ReleaseLoad
  <1>5. CASE ReleaseUpdate(c)
    <2> DEFINE q == [pc |-> "justify", lease |-> p.lease]
    <2>1. p.lease \in Stored(leases) /\ p.to \in Terminal
      BY <1>0, <1>5, ProcShape DEF ReleaseUpdate, Knows
    <2>2. /\ leases' \in Tables /\ Quiet(leases, leases')
          /\ leases'[p.lease].status = p.to
      BY <1>2, <1>5, <2>1, UpdateTable DEF ReleaseUpdate
    <2>3. TableInv(leases') /\ Grows(leases, leases')
      BY <1>2, <2>2, QuietKeeps
    <2>4. q \in Procs /\ Knows(q, leases')
      BY <2>1, <2>2, <2>3 DEF Procs, Knows, Grows, Terminal, Stored
    <2>5. Enter(c, q) \/ Enter(c, Idle)
      BY <1>5 DEF ReleaseUpdate
    <2> HIDE DEF q
    <2> QED
      BY <1>1, <1>2, <1>5, <2>2, <2>3, <2>4, <2>5, Advance DEF ReleaseUpdate
  <1>6. CASE ReleaseJustify(c)
    <2>1. p.lease \in Stored(leases) /\ leases[p.lease].status # "active"
      BY <1>0, <1>6 DEF ReleaseJustify, Knows
    <2>2. "forced" \in Reasons
      BY DEF Reasons
    <2>3. leases' \in Tables /\ TableInv(leases') /\ Grows(leases, leases')
      BY <1>2, <1>6, <2>1, <2>2, RecordTable, QuietKeeps DEF ReleaseJustify
    <2> QED
      BY <1>1, <1>2, <1>6, <2>3, Advance DEF ReleaseJustify
  <1>7. CASE Heartbeat(c)
    <2>1. leases' \in Tables /\ TableInv(leases') /\ Grows(leases, leases')
      BY <1>2, <1>7, HeartbeatTable, QuietKeeps DEF Heartbeat
    <2>2. Knows(p, leases')
      BY <1>0, <1>7 DEF Heartbeat, Knows
    <2> QED
      BY <1>0, <1>2, <1>3, <1>7, <2>1, <2>2, Advance DEF Heartbeat
  <1>8. CASE RetainForIssue(c)
    <2>1. leases' \in Tables /\ TableInv(leases') /\ Grows(leases, leases')
      BY <1>2, <1>8, RetainTable, QuietKeeps DEF RetainForIssue
    <2>2. Knows(p, leases')
      BY <1>0, <1>8 DEF RetainForIssue, Knows
    <2> QED
      BY <1>0, <1>2, <1>3, <1>8, <2>1, <2>2, Advance DEF RetainForIssue
  <1>9. CASE RetainScopeRead(c)
    <2>1. PICK scope \in Scopes :
             Enter(c, [pc |-> "retain", scope |-> scope,
                       ids |-> {i \in Active(leases) : leases[i].scope = scope},
                       approved |-> RetentionProof(leases, scope.number)])
      BY <1>9 DEF RetainScopeRead
    <2> DEFINE ids      == {i \in Active(leases) : leases[i].scope = scope}
               approved == RetentionProof(leases, scope.number)
               q        == [pc |-> "retain", scope |-> scope, ids |-> ids,
                            approved |-> approved]
    <2>2. ids \in SUBSET LeaseIds /\ approved \in SUBSET Members
      BY <1>2, MemberTyped DEF Active, RetentionProof
    <2> HIDE DEF ids, approved
    <2>3. q \in Procs /\ Knows(q, leases)
      BY <2>2 DEF Procs, Knows
    <2>4. Enter(c, q)
      BY <2>1 DEF ids, approved
    <2> HIDE DEF q
    <2> QED
      BY <1>2, <1>9, <2>3, <2>4, Advance DEF RetainScopeRead
  <1>10. CASE RetainScopeWrite(c)
    <2>1. leases' \in Tables /\ TableInv(leases') /\ Grows(leases, leases')
      BY <1>2, <1>10, RetainTable, QuietKeeps DEF RetainScopeWrite
    <2> QED
      BY <1>1, <1>2, <1>10, <2>1, Advance DEF RetainScopeWrite
  <1>11. CASE RecoverStart(c)
    <2>1. PICK selected \in Projects \cup {NoScope} :
             Enter(c, [pc |-> "recover", before |-> clock - StaleAfter,
                       selected |-> selected, now |-> clock])
      BY <1>11 DEF RecoverStart
    <2> DEFINE q == [pc |-> "recover", before |-> clock - StaleAfter,
                     selected |-> selected, now |-> clock]
    <2>2. clock - StaleAfter \in Int
      BY <1>2, LeasesAssumption DEF Times
    <2>3. q \in Procs /\ Knows(q, leases)
      BY <1>2, <2>2 DEF Procs, Knows
    <2> HIDE DEF q
    <2>4. Enter(c, q)
      BY <2>1 DEF q
    <2> QED
      BY <1>2, <1>11, <2>3, <2>4, Advance DEF RecoverStart
  <1>12. CASE RecoverWrite(c)
    <2>1. p.now \in Times
      BY <1>0, <1>12, ProcShape DEF RecoverWrite
    <2>2. leases' \in Tables /\ TableInv(leases') /\ Grows(leases, leases')
      BY <1>2, <1>12, <2>1, RecoverTable, QuietKeeps DEF RecoverWrite
    <2> QED
      BY <1>1, <1>2, <1>12, <2>2, Advance DEF RecoverWrite
  <1>13. CASE AbsentScan(c)
    <2>1. PICK path \in Paths \ dirs :
             LET targets == {i \in GroupOf(leases, path) :
                                leases[i].status # "released"}
             IN  Enter(c, [pc |-> "absent", path |-> path, targets |-> targets,
                           approved |-> OwnershipProof(leases, path)])
      BY <1>13 DEF AbsentScan
    <2> DEFINE targets  == {i \in GroupOf(leases, path) :
                               leases[i].status # "released"}
               approved == OwnershipProof(leases, path)
               q        == [pc |-> "absent", path |-> path, targets |-> targets,
                            approved |-> approved]
    <2>2. /\ targets \subseteq Stored(leases) /\ targets \in SUBSET LeaseIds
          /\ approved \in SUBSET Members
      BY <1>2, MemberTyped DEF GroupOf, Stored, OwnershipProof
    <2>3. Enter(c, q)
      BY <2>1
    <2> HIDE DEF targets, approved
    <2>4. q \in Procs /\ Knows(q, leases)
      BY <2>2 DEF Procs, Knows
    <2> HIDE DEF q
    <2> QED
      BY <1>2, <1>13, <2>3, <2>4, Advance DEF AbsentScan
  <1>14. CASE AbsentWrite(c)
    <2>1. p.targets \subseteq Stored(leases)
      BY <1>0, <1>14 DEF AbsentWrite, Knows
    <2>2. leases' \in Tables /\ TableInv(leases') /\ Grows(leases, leases')
      BY <1>2, <1>14, <2>1, AbsentTable, QuietKeeps DEF AbsentWrite
    <2> QED
      BY <1>1, <1>2, <1>14, <2>2, Advance DEF AbsentWrite
  <1> QED
    BY <1>4, <1>5, <1>6, <1>7, <1>8, <1>9, <1>10, <1>11, <1>12, <1>13, <1>14
    DEF Transition

\* A process that is killed, the directories and the clock.
LEMMA EnvironmentKeeps ==
    ASSUME IInv,
           \/ \E c \in Clients : Kill(c)
           \/ RemoveTree \/ RestoreTree \/ Tick \/ UNCHANGED vars
    PROVE  IInv' /\ Grows(leases, leases')
  <1>1. /\ leases \in Tables /\ TableInv(leases) /\ Grows(leases, leases)
        /\ dirs \subseteq Paths /\ branches \subseteq Trees /\ lost \subseteq Trees
        /\ clock \in Times
    BY ReadOnly DEF IInv, TypeOK
  <1>2. ASSUME NEW c \in Clients, Kill(c) PROVE IInv' /\ Grows(leases, leases')
    <2>1. proc[c] \in Procs /\ Knows(proc[c], leases)
      BY DEF IInv, TypeOK
    <2>2. Idle \in Procs /\ Knows(Idle, leases)
      BY DEF Procs, Idle, Knows
    <2>3. lost' \subseteq Trees
      BY <1>1, <1>2, <2>1 DEF Kill, Knows
    <2> QED
      BY <1>1, <1>2, <2>2, <2>3, Advance DEF Kill, Done
  <1>3. ASSUME leases' = leases, proc' = proc, dirs' \subseteq Paths,
               branches' = branches, lost' = lost, clock' \in Times
        PROVE  IInv' /\ Grows(leases, leases')
    BY <1>1, <1>3 DEF IInv, TypeOK
  <1>4. CASE RemoveTree
    BY <1>1, <1>3, <1>4 DEF RemoveTree
  <1>5. CASE RestoreTree
    BY <1>1, <1>3, <1>5 DEF RestoreTree, Trees
  <1>6. CASE Tick
    <2>1. clock' \in Times
      BY <1>1, <1>6, LeaseStoreAssumption DEF Tick, Times
    <2> QED
      BY <1>1, <1>3, <1>6, <2>1 DEF Tick
  <1>7. CASE UNCHANGED vars
    BY <1>1, <1>3, <1>7 DEF vars
  <1> QED
    BY <1>2, <1>4, <1>5, <1>6, <1>7

\* The invariant holds at the start.
LEMMA InitKeeps == Init => IInv
  <1> SUFFICES ASSUME Init PROVE IInv
    OBVIOUS
  <1>1. TypeOK
    <2>1. 0 \in Times
      BY LeaseStoreAssumption DEF Times
    <2> QED
      BY <2>1, EmptyIsTable, LeasesAssumption DEF Init, TypeOK, Procs
  <1>2. Stored(leases) = {} /\ Active(leases) = {}
    BY DEF Init, EmptyTable, Stored, Active, NoLease
  <1>3. TableInv(leases)
    BY <1>2 DEF TableInv, Prefix, PathUnique, ScopesSplit, NoReason, Scoped, Unscoped
  <1>4. \A c \in Clients : Knows(proc[c], leases)
    BY DEF Init, Idle, Knows
  <1> QED
    BY <1>1, <1>3, <1>4 DEF IInv

\* Every step preserves it, and no step brings a terminal row back.
LEMMA StepKeeps == IInv /\ [Next]_vars => IInv' /\ Grows(leases, leases')
  BY AcquireKeeps, TransitionKeeps, EnvironmentKeeps DEF Next

\* Every behaviour of the commands keeps the inductive invariant.
THEOREM Inductive == Spec => []IInv
  <1>1. IInv /\ [Next]_vars => IInv'
    BY StepKeeps
  <1> QED
    BY InitKeeps, <1>1, PTL DEF Spec

\* The commands only build rows, processes and directories of their types:
\* an update by lease id never writes an entry that was not inserted.
THEOREM TypeCorrect == Spec => []TypeOK
  <1>1. IInv => TypeOK
    BY DEF IInv
  <1> QED
    BY Inductive, <1>1, PTL

\* However many processes acquire, release, close, recover and are killed, a
\* checkout path has at most one active lease (the partial unique index and
\* the guarded transitions of leases.rs).
THEOREM OneActiveLeasePerPath == Spec => []ActivePathUnique
  <1>1. IInv => ActivePathUnique
    BY DEF IInv, TableInv, PathUnique, ActivePathUnique
  <1> QED
    BY Inductive, <1>1, PTL

\* A scoped row is never younger than an unscoped row with its number: the
\* collision check repeated in insert_lease_scoped's transaction suffices.
THEOREM ScopedNeverOverUnscoped == Spec => []NoScopedOverUnscoped
  <1>1. IInv => NoScopedOverUnscoped
    BY DEF IInv, TableInv, ScopesSplit, NoScopedOverUnscoped
  <1> QED
    BY Inductive, <1>1, PTL

\* No active row carries a release reason: release_lease_inner justifies only
\* rows it has made terminal, and nothing revives them in between.
THEOREM ReasonsAreTerminal == Spec => []ActiveHasNoReason
  <1>1. IInv => ActiveHasNoReason
    BY DEF IInv, TableInv, NoReason, ActiveHasNoReason
  <1> QED
    BY Inductive, <1>1, PTL

\* retained and released are final for every interleaving of the statements
\* that name a row by its id alone.
THEOREM TerminalStays == Spec => TerminalIsFinal
  <1> DEFINE Final == \A i \in Stored(leases) :
                         leases[i].status \in Terminal =>
                             leases'[i].status \in Terminal
  <1>1. IInv /\ IInv' /\ [Next]_vars => [Final]_vars
    <2> SUFFICES ASSUME IInv, IInv', [Next]_vars, NEW i \in Stored(leases),
                        leases[i].status \in Terminal
                 PROVE  leases'[i].status \in Terminal
      OBVIOUS
    <2>1. Grows(leases, leases')
      BY StepKeeps
    <2>2. i \in LeaseIds /\ i \in Stored(leases') /\ leases'[i].status # "active"
      BY <2>1 DEF Grows, Terminal, Stored
    <2>3. leases'[i] \in Lease
      BY <2>2, StoredIsLease DEF IInv, TypeOK
    <2> QED
      BY <2>2, <2>3 DEF Lease
  <1> QED
    BY Inductive, <1>1, PTL DEF Spec, TerminalIsFinal

-----------------------------------------------------------------------------
(* Evidence and trees.                                                       *)

\* The commands of a process that runs an acquire.
Asking == {"check", "find", "lookup", "add", "insert", "compensate"}

\* What an acquire was asked for: a scope names the issue of its request, the
\* working directory is the main checkout or a tree whose branch exists, and an
\* acquire compensates only for a tree that is not its working directory.
Asked(p, made) ==
    p.pc \in Asking =>
        /\ p.req.scope # NoScope => p.req.scope.number = p.req.issue
        /\ p.req.cwd \in made \cup {Main}
        /\ p.pc = "compensate" => p.path # p.req.cwd

\* What a command that decides before it writes still has on its side when it
\* writes, whatever happened in between.
Evidence(p, t, now) ==
    /\ p.pc = "recover" => p.before <= now - StaleAfter
    /\ p.pc = "retain" =>
          /\ \A i \in p.ids : i \in Stored(t) /\ t[i].scope = p.scope
          /\ \A m \in p.approved :
                m.status = "active" /\ m.scope = p.scope => m.lease \in p.ids
    /\ p.pc = "absent" =>
          /\ \A i \in p.targets : t[i].path = p.path
          /\ \A m \in p.approved : m.directory = p.path => m.status # "active"

\* A scoped row carries the number of its scope.
Numbered(t) == \A i \in Scoped(t) : t[i].scope.number = t[i].issue

\* The acquire p made the tree itself and still answers for it.
Made(p, tree) ==
    p.pc \in {"insert", "compensate"} /\ p.path = tree /\ p.path # p.req.cwd

\* Every tree has its branch, and is recorded, in the hands of its maker, or
\* lost.  TreesAccounted alone is not inductive: an acquire that was started
\* inside somebody else's tree looks like its holder and drops it when refused.
TreeInv ==
    /\ dirs \subseteq branches \cup {Main}
    /\ \A tree \in dirs \ {Main} :
          \/ GroupOf(leases, tree) # {}
          \/ tree \in lost
          \/ \E c \in Clients : Made(proc[c], tree)

MemoryInv ==
    \A c \in Clients : /\ Asked(proc[c], branches)
                       /\ Evidence(proc[c], leases, clock)

EInv == IInv /\ Numbered(leases) /\ MemoryInv /\ TreeInv

\* From t to u rows keep their issue, path and scope.
Fixed(t, u) ==
    \A i \in Stored(t) : /\ i \in Stored(u)
                         /\ u[i].issue = t[i].issue
                         /\ u[i].path = t[i].path
                         /\ u[i].scope = t[i].scope

\* No row gets a reason but that of a forced release.
Plain(t, u) == \A i \in Stored(t) : u[i].reason \in {t[i].reason, "forced"}

\* The statements that give a reason of their own.
Reasoned ==
    \E c \in Clients : \/ RetainForIssue(c) \/ RetainScopeWrite(c)
                       \/ RecoverWrite(c)   \/ AbsentWrite(c)

\* A quiet statement leaves issues, paths and scopes alone.
LEMMA QuietFixed ==
    ASSUME NEW t \in Tables, NEW u \in Tables, Quiet(t, u), Numbered(t)
    PROVE  Fixed(t, u) /\ Numbered(u)
  <1>1. Stored(u) = Stored(t)
    BY DEF Quiet, Stored
  <1>2. Fixed(t, u)
    BY <1>1 DEF Fixed, Quiet, Stored
  <1>3. Numbered(u)
    BY <1>1, <1>2 DEF Fixed, Numbered, Scoped
  <1> QED
    BY <1>2, <1>3

\* Updating one stored row leaves the other rows alone.
LEMMA RowPlain ==
    ASSUME NEW t \in Tables, NEW i \in Stored(t)
    PROVE  /\ \A now : Plain(t, RefreshHeartbeat(t, i, now))
           /\ \A to, now : Plain(t, UpdateStatus(t, i, to, now))
           /\ \A s, now : Plain(t, HeartbeatActive(t, i, s, now))
           /\ Plain(t, RecordReason(t, i, "forced"))
  <1>1. \A j \in Stored(t) : j \in LeaseIds /\ t[j] \in Lease
    BY StoredIsLease DEF Stored
  <1>2. ASSUME NEW now PROVE Plain(t, RefreshHeartbeat(t, i, now))
    BY <1>1 DEF Plain, RefreshHeartbeat, Tables, Lease
  <1>3. ASSUME NEW to, NEW now PROVE Plain(t, UpdateStatus(t, i, to, now))
    BY <1>1 DEF Plain, UpdateStatus, Tables, Lease
  <1>4. ASSUME NEW s, NEW now PROVE Plain(t, HeartbeatActive(t, i, s, now))
    BY <1>2 DEF Plain, HeartbeatActive
  <1>5. Plain(t, RecordReason(t, i, "forced"))
    BY <1>1 DEF Plain, RecordReason, Tables, Lease
  <1> QED
    BY <1>2, <1>3, <1>4, <1>5

\* What every step does to the rows, and which steps give reasons.
LEMMA StepWrites ==
    ASSUME EInv, [Next]_vars
    PROVE  /\ Fixed(leases, leases') /\ Numbered(leases')
           /\ Plain(leases, leases') \/ Reasoned
           /\ branches \subseteq branches' /\ clock <= clock' /\ clock' \in Int
  <1>1. /\ IInv /\ leases \in Tables /\ Numbered(leases) /\ clock \in Times
        /\ clock \in Int
    BY DEF EInv, IInv, TypeOK, Times
  <1>2. ASSUME leases' = leases
        PROVE  Fixed(leases, leases') /\ Numbered(leases') /\ Plain(leases, leases')
    BY <1>1, <1>2 DEF Fixed, Plain
  <1>3. branches \subseteq branches' /\ clock <= clock' /\ clock' \in Int
    <2>1. ASSUME NEW c \in Clients, Acquire(c)
          PROVE  branches \subseteq branches' /\ clock' = clock
      <3>1. CASE AcquireAdd(c)
        BY <3>1 DEF AcquireAdd
      <3>2. CASE ~AcquireAdd(c)
        BY <2>1, <3>2 DEF Acquire, AcquireStart, AcquireCheck, AcquireFound,
           AcquireMissed, AcquireRefresh, AcquireLookup, AcquireInsert, AcquireRefused,
           AcquireCompensate
      <3> QED
        BY <3>1, <3>2
    <2>2. ASSUME NEW c \in Clients, Transition(c)
          PROVE  branches' = branches /\ clock' = clock
      BY <2>2 DEF Transition, ReleaseLoad, ReleaseUpdate, ReleaseJustify, Heartbeat,
         RetainForIssue, RetainScopeRead, RetainScopeWrite, RecoverStart, RecoverWrite,
         AbsentScan, AbsentWrite
    <2>3. ASSUME \/ \E c \in Clients : Kill(c)
                 \/ RemoveTree \/ RestoreTree \/ UNCHANGED vars
          PROVE  branches' = branches /\ clock' = clock
      BY <2>3 DEF Kill, RemoveTree, RestoreTree, vars
    <2>4. ASSUME Tick PROVE branches' = branches /\ clock' = clock + 1
      BY <2>4 DEF Tick
    <2> QED
      BY <1>1, <2>1, <2>2, <2>3, <2>4 DEF Next
  <1>4. IInv' /\ leases' \in Tables
    BY <1>1, StepKeeps DEF IInv, TypeOK
  <1>5. ASSUME Quiet(leases, leases') PROVE Fixed(leases, leases') /\ Numbered(leases')
    BY <1>1, <1>4, <1>5, QuietFixed
  <1>6. ASSUME NEW c \in Clients, AcquireInsert(c)
        PROVE  Fixed(leases, leases') /\ Numbered(leases') /\ Plain(leases, leases')
    <2> DEFINE row == NewRow(proc[c].req, proc[c].path, clock)
    <2>1. PICK i \in LeaseIds : NextId(leases, i) /\ leases' = Insert(leases, i, row)
      BY <1>6 DEF AcquireInsert
    <2>2. \A j \in LeaseIds : leases'[j] = IF j = i THEN row ELSE leases[j]
      BY <1>1, <2>1 DEF Insert, Tables
    <2>3. i \notin Stored(leases)
      BY <2>1 DEF NextId, Stored
    <2>4. \A j \in Stored(leases) : j \in LeaseIds /\ leases'[j] = leases[j]
      BY <2>2, <2>3 DEF Stored
    <2>5. Fixed(leases, leases') /\ Plain(leases, leases')
      BY <2>4 DEF Fixed, Plain, Stored
    <2>6. row.scope # NoScope => row.scope.number = row.issue
      <3>1. Asked(proc[c], branches) /\ proc[c].pc = "insert"
        BY <1>6 DEF EInv, MemoryInv, AcquireInsert
      <3> QED
        BY <3>1 DEF Asked, Asking, NewRow
    <2> HIDE DEF row
    <2>7. Numbered(leases')
      BY <1>1, <2>2, <2>6 DEF Numbered, Scoped, Stored
    <2> QED
      BY <2>5, <2>7
  <1>7. ASSUME NEW c \in Clients, Acquire(c) PROVE
          Fixed(leases, leases') /\ Numbered(leases') /\ Plain(leases, leases')
    <2>1. CASE AcquireRefresh(c)
      <3>1. proc[c].lease \in Stored(leases)
        BY <1>1, <2>1 DEF IInv, Knows, AcquireRefresh
      <3>2. Quiet(leases, leases')
        BY <1>1, <2>1, <3>1, RefreshTable DEF AcquireRefresh
      <3>3. Plain(leases, leases')
        BY <1>1, <2>1, <3>1, RowPlain DEF AcquireRefresh
      <3> QED
        BY <1>5, <3>2, <3>3
    <2>2. CASE ~AcquireRefresh(c) /\ ~AcquireInsert(c)
      <3>1. leases' = leases
        BY <1>7, <2>2 DEF Acquire, AcquireStart, AcquireCheck, AcquireFound, AcquireMissed,
           AcquireLookup, AcquireAdd, AcquireRefused, AcquireCompensate
      <3> QED
        BY <1>2, <3>1
    <2> QED
      BY <1>6, <2>1, <2>2
  <1>8. ASSUME NEW c \in Clients, Transition(c) PROVE
          /\ Fixed(leases, leases') /\ Numbered(leases')
          /\ Plain(leases, leases') \/ Reasoned
    <2>1. CASE ReleaseUpdate(c)
      <3>1. proc[c].lease \in Stored(leases) /\ proc[c].to \in Terminal
        BY <1>1, <2>1, ProcShape DEF IInv, TypeOK, Knows, ReleaseUpdate
      <3>2. Quiet(leases, leases')
        BY <1>1, <2>1, <3>1, UpdateTable DEF ReleaseUpdate
      <3>3. Plain(leases, leases')
        BY <1>1, <2>1, <3>1, RowPlain DEF ReleaseUpdate
      <3> QED
        BY <1>5, <3>2, <3>3
    <2>2. CASE ReleaseJustify(c)
      <3>1. /\ proc[c].lease \in Stored(leases) /\ "forced" \in Reasons
            /\ leases[proc[c].lease].status # "active"
        BY <1>1, <2>2 DEF IInv, Knows, ReleaseJustify, Reasons
      <3>2. Quiet(leases, leases')
        BY <1>1, <2>2, <3>1, RecordTable DEF ReleaseJustify
      <3>3. Plain(leases, leases')
        BY <1>1, <2>2, <3>1, RowPlain DEF ReleaseJustify
      <3> QED
        BY <1>5, <3>2, <3>3
    <2>3. CASE Heartbeat(c)
      <3>1. PICK i \in Stored(leases), s \in Sessions :
               leases' = HeartbeatActive(leases, i, s, clock)
        BY <2>3 DEF Heartbeat
      <3>2. Quiet(leases, leases')
        BY <1>1, <3>1, HeartbeatTable
      <3>3. Plain(leases, leases')
        BY <1>1, <3>1, RowPlain
      <3> QED
        BY <1>5, <3>2, <3>3
    <2>4. CASE RetainForIssue(c)
      <3>1. Quiet(leases, leases')
        BY <1>1, <2>4, RetainTable DEF RetainForIssue
      <3> QED
        BY <1>5, <2>4, <3>1 DEF Reasoned
    <2>5. CASE RetainScopeWrite(c)
      <3>1. Quiet(leases, leases')
        BY <1>1, <2>5, RetainTable DEF RetainScopeWrite
      <3> QED
        BY <1>5, <2>5, <3>1 DEF Reasoned
    <2>6. CASE RecoverWrite(c)
      <3>1. proc[c].now \in Times
        BY <1>1, <2>6, ProcShape DEF IInv, TypeOK, RecoverWrite
      <3>2. Quiet(leases, leases')
        BY <1>1, <2>6, <3>1, RecoverTable DEF RecoverWrite
      <3> QED
        BY <1>5, <2>6, <3>2 DEF Reasoned
    <2>7. CASE AbsentWrite(c)
      <3>1. proc[c].targets \subseteq Stored(leases)
        BY <1>1, <2>7 DEF IInv, Knows, AbsentWrite
      <3>2. Quiet(leases, leases')
        BY <1>1, <2>7, <3>1, AbsentTable DEF AbsentWrite
      <3> QED
        BY <1>5, <2>7, <3>2 DEF Reasoned
    <2>8. CASE ReleaseLoad(c) \/ RetainScopeRead(c) \/ RecoverStart(c) \/ AbsentScan(c)
      <3>1. leases' = leases
        BY <2>8 DEF ReleaseLoad, RetainScopeRead, RecoverStart, AbsentScan
      <3> QED
        BY <1>2, <3>1
    <2> QED
      BY <1>8, <2>1, <2>2, <2>3, <2>4, <2>5, <2>6, <2>7, <2>8 DEF Transition
  <1>9. ASSUME \/ \E c \in Clients : Kill(c)
               \/ RemoveTree \/ RestoreTree \/ Tick \/ UNCHANGED vars
        PROVE  leases' = leases
    BY <1>9 DEF Kill, RemoveTree, RestoreTree, Tick, vars
  <1> QED
    BY <1>2, <1>3, <1>7, <1>8, <1>9 DEF Next

\* What a command remembers stays true through the steps of the others.
LEMMA MemoryKept ==
    ASSUME EInv, [Next]_vars, NEW d \in Clients
    PROVE  Asked(proc[d], branches') /\ Evidence(proc[d], leases', clock')
  <1> DEFINE p == proc[d]
  <1>1. /\ Fixed(leases, leases') /\ branches \subseteq branches'
        /\ clock <= clock' /\ clock' \in Int
    BY StepWrites
  <1>2. /\ Asked(p, branches) /\ Evidence(p, leases, clock) /\ Knows(p, leases)
        /\ p \in Procs /\ clock \in Int /\ StaleAfter \in Int
    BY LeasesAssumption DEF EInv, MemoryInv, IInv, TypeOK, Times
  <1> HIDE DEF p
  <1>3. Asked(p, branches')
    BY <1>1, <1>2 DEF Asked
  <1>4. ASSUME p.pc = "recover" PROVE p.before <= clock' - StaleAfter
    <2>1. p.before \in Int /\ p.before <= clock - StaleAfter
      BY <1>2, <1>4 DEF Evidence, Procs, Idle
    <2> QED
      BY <1>1, <1>2, <2>1
  <1>5. ASSUME p.pc = "retain", NEW i \in p.ids
        PROVE  i \in Stored(leases') /\ leases'[i].scope = p.scope
    BY <1>1, <1>2, <1>5 DEF Evidence, Fixed
  <1>6. ASSUME p.pc = "absent", NEW i \in p.targets PROVE leases'[i].path = p.path
    BY <1>1, <1>2, <1>6 DEF Evidence, Fixed, Knows
  <1>7. Evidence(p, leases', clock')
    BY <1>2, <1>4, <1>5, <1>6 DEF Evidence
  <1> QED
    BY <1>3, <1>7 DEF p

\* The step of a process that enters q: what it enters with, and what becomes
\* of the trees it made.
LEMMA Pass ==
    ASSUME EInv, [Next]_vars, NEW c \in Clients, NEW q, Enter(c, q),
           Asked(q, branches'), Evidence(q, leases', clock'), lost \subseteq lost',
           \A tree \in dirs' \ {Main} :
               /\ tree \notin dirs => tree \in branches' /\ Made(q, tree)
               /\ Made(proc[c], tree) => \/ Made(q, tree)
                                         \/ tree \in lost'
                                         \/ GroupOf(leases', tree) # {}
    PROVE  EInv'
  <1>1. /\ IInv /\ TreeInv /\ proc \in [Clients -> Procs]
        /\ Fixed(leases, leases') /\ Numbered(leases') /\ branches \subseteq branches'
    BY StepWrites DEF EInv, IInv, TypeOK
  <1>2. \A d \in Clients : proc'[d] = IF d = c THEN q ELSE proc[d]
    BY <1>1 DEF Enter
  <1>3. MemoryInv'
    <2> SUFFICES ASSUME NEW d \in Clients
                 PROVE  Asked(proc'[d], branches') /\ Evidence(proc'[d], leases', clock')
      BY DEF MemoryInv
    <2> QED
      BY <1>2, MemoryKept
  <1>4. dirs' \subseteq branches' \cup {Main}
    BY <1>1 DEF TreeInv
  <1>5. ASSUME NEW tree \in dirs' \ {Main}
        PROVE  \/ GroupOf(leases', tree) # {}
               \/ tree \in lost'
               \/ \E d \in Clients : Made(proc'[d], tree)
    <2>1. CASE tree \notin dirs
      BY <1>2, <2>1
    <2>2. CASE tree \in dirs /\ GroupOf(leases, tree) # {}
      BY <1>1, <2>2 DEF GroupOf, Fixed
    <2>3. CASE tree \in lost
      BY <2>3
    <2>4. CASE \E d \in Clients : Made(proc[d], tree)
      BY <1>2, <2>4
    <2> QED
      BY <1>1, <2>1, <2>2, <2>3, <2>4 DEF TreeInv
  <1>6. IInv'
    BY <1>1, StepKeeps
  <1> QED
    BY <1>1, <1>3, <1>4, <1>5, <1>6 DEF EInv, TreeInv

\* A step that leaves every process where it was and brings no tree back but a
\* recorded one.
LEMMA Still ==
    ASSUME EInv, [Next]_vars, UNCHANGED <<proc, lost>>,
           \A tree \in dirs' \ dirs : tree \in branches /\ GroupOf(leases, tree) # {}
    PROVE  EInv'
  <1>1. /\ IInv /\ TreeInv /\ Fixed(leases, leases') /\ Numbered(leases')
        /\ branches \subseteq branches'
    BY StepWrites DEF EInv
  <1>2. MemoryInv'
    BY MemoryKept DEF MemoryInv
  <1>3. dirs' \subseteq branches' \cup {Main}
    BY <1>1 DEF TreeInv
  <1>4. ASSUME NEW tree \in dirs' \ {Main}
        PROVE  \/ GroupOf(leases', tree) # {}
               \/ tree \in lost'
               \/ \E d \in Clients : Made(proc'[d], tree)
    <2>1. CASE GroupOf(leases, tree) # {}
      BY <1>1, <2>1 DEF GroupOf, Fixed
    <2>2. CASE tree \in dirs /\ GroupOf(leases, tree) = {}
      BY <1>1, <2>2 DEF TreeInv
    <2> QED
      BY <2>1, <2>2
  <1>5. IInv'
    BY <1>1, StepKeeps
  <1> QED
    BY <1>1, <1>2, <1>3, <1>4, <1>5 DEF EInv, TreeInv

\* An idle process remembers nothing and made nothing.
LEMMA IdleMemory ==
    /\ \A made : Asked(Idle, made)
    /\ \A t, now : Evidence(Idle, t, now)
    /\ \A tree : ~Made(Idle, tree)
  BY DEF Idle, Asked, Asking, Evidence, Made

\* The steps of acquire.
LEMMA AcquireEvidence ==
    ASSUME EInv, NEW c \in Clients, Acquire(c)
    PROVE  EInv'
  <1> DEFINE p == proc[c]
  <1>1. /\ p \in Procs /\ Asked(p, branches) /\ dirs \subseteq branches \cup {Main}
        /\ branches \subseteq Trees
    BY DEF EInv, IInv, TypeOK, MemoryInv, TreeInv
  <1>2. [Next]_vars
    BY DEF Next
  <1>3. ASSUME UNCHANGED <<dirs, lost>>, ~(p.pc \in {"insert", "compensate"}), Done(c)
        PROVE  EInv'
    BY <1>2, <1>3, Pass, IdleMemory DEF Done, Made
  <1>4. ASSUME UNCHANGED <<dirs, lost>>, p.pc \in Asking,
               ~(p.pc \in {"insert", "compensate"}),
               NEW q, Enter(c, q), q.pc \in {"find", "lookup", "add"}, q.req = p.req
        PROVE  EInv'
    <2>1. branches \subseteq branches'
      BY <1>2, StepWrites
    <2>2. Asked(q, branches') /\ Evidence(q, leases', clock')
      BY <1>1, <1>4, <2>1 DEF Asked, Asking, Evidence
    <2> QED
      BY <1>2, <1>4, <2>2, Pass DEF Made
  <1>5. CASE AcquireStart(c)
    <2>1. PICK req \in Requests :
             /\ req.cwd \in dirs
             /\ req.scope # NoScope => req.scope.number = req.issue
             /\ Enter(c, [pc |-> IF req.scope = NoScope THEN "find" ELSE "check",
                          req |-> req])
      BY <1>5 DEF AcquireStart
    <2> DEFINE q == [pc |-> IF req.scope = NoScope THEN "find" ELSE "check", req |-> req]
    <2>2. /\ UNCHANGED <<dirs, lost, branches>> /\ p.pc = "idle"
          /\ q.pc \in {"find", "check"} /\ q.req = req /\ Enter(c, q)
      BY <1>5, <2>1 DEF AcquireStart
    <2> HIDE DEF q
    <2>3. Asked(q, branches') /\ Evidence(q, leases', clock')
      BY <1>1, <2>1, <2>2 DEF Asked, Evidence
    <2> QED
      BY <1>2, <2>2, <2>3, Pass DEF Made
  <1>6. CASE AcquireCheck(c)
    <2>1. p.pc = "check" /\ UNCHANGED <<dirs, lost>>
      BY <1>6 DEF AcquireCheck
    <2>2. CASE Done(c)
      BY <1>3, <2>1, <2>2
    <2>3. CASE Enter(c, [p EXCEPT !.pc = "find"])
      <3>1. [p EXCEPT !.pc = "find"].pc = "find" /\ [p EXCEPT !.pc = "find"].req = p.req
        BY <1>1, <2>1, ProcShape
      <3> QED
        BY <1>4, <2>1, <2>3, <3>1 DEF Asking
    <2> QED
      BY <1>6, <2>2, <2>3 DEF AcquireCheck
  <1>7. CASE AcquireFound(c)
    <2>1. PICK i : Enter(c, [pc |-> "refresh", lease |-> i])
      BY <1>7 DEF AcquireFound
    <2> DEFINE q == [pc |-> "refresh", lease |-> i]
    <2>2. /\ UNCHANGED <<dirs, lost>> /\ p.pc = "find" /\ q.pc = "refresh" /\ Enter(c, q)
      BY <1>7, <2>1 DEF AcquireFound
    <2> HIDE DEF q
    <2>3. Asked(q, branches') /\ Evidence(q, leases', clock')
      BY <2>2 DEF Asked, Asking, Evidence
    <2> QED
      BY <1>2, <2>2, <2>3, Pass DEF Made
  <1>8. CASE AcquireMissed(c)
    <2>1. PICK next \in {"lookup", "add"} : Enter(c, [p EXCEPT !.pc = next])
      BY <1>8 DEF AcquireMissed
    <2>2. p.pc = "find" /\ UNCHANGED <<dirs, lost>>
      BY <1>8 DEF AcquireMissed
    <2>3. [p EXCEPT !.pc = next].pc = next /\ [p EXCEPT !.pc = next].req = p.req
      BY <1>1, <2>2, ProcShape
    <2> QED
      BY <1>4, <2>1, <2>2, <2>3 DEF Asking
  <1>9. CASE AcquireRefresh(c)
    BY <1>3, <1>9 DEF AcquireRefresh
  <1>10. CASE AcquireLookup(c)
    <2>1. p.pc = "lookup" /\ UNCHANGED <<dirs, lost, branches>>
      BY <1>10 DEF AcquireLookup
    <2>2. CASE Done(c)
      BY <1>3, <2>1, <2>2
    <2>3. CASE Enter(c, [p EXCEPT !.pc = "add"])
      <3>1. [p EXCEPT !.pc = "add"].pc = "add" /\ [p EXCEPT !.pc = "add"].req = p.req
        BY <1>1, <2>1, ProcShape
      <3> QED
        BY <1>4, <2>1, <2>3, <3>1 DEF Asking
    <2>4. CASE Enter(c, [pc |-> "insert", req |-> p.req, path |-> p.req.cwd])
      <3> DEFINE q == [pc |-> "insert", req |-> p.req, path |-> p.req.cwd]
      <3>1. q.pc = "insert" /\ q.req = p.req /\ Enter(c, q)
        BY <2>4
      <3> HIDE DEF q
      <3>2. Asked(q, branches') /\ Evidence(q, leases', clock')
        BY <1>1, <2>1, <3>1 DEF Asked, Asking, Evidence
      <3> QED
        BY <1>2, <2>1, <3>1, <3>2, Pass DEF Made
    <2> QED
      BY <1>10, <2>2, <2>3, <2>4 DEF AcquireLookup
  <1>11. CASE AcquireAdd(c)
    <2>1. p.pc = "add" /\ UNCHANGED lost
      BY <1>11 DEF AcquireAdd
    <2>2. CASE Done(c) /\ UNCHANGED dirs
      BY <1>3, <2>1, <2>2
    <2>3. ASSUME NEW tree \in Trees \ (dirs \cup branches), dirs' = dirs \cup {tree},
                 branches' = branches \cup {tree},
                 Enter(c, [pc |-> "insert", req |-> p.req, path |-> tree])
          PROVE  EInv'
      <3> DEFINE q == [pc |-> "insert", req |-> p.req, path |-> tree]
      <3>1. q.pc = "insert" /\ q.req = p.req /\ q.path = tree /\ Enter(c, q)
        BY <2>3
      <3> HIDE DEF q
      <3>2. tree # p.req.cwd
        BY <1>1, <2>1, <2>3 DEF Asked, Asking, Trees
      <3>3. Asked(q, branches') /\ Evidence(q, leases', clock')
        BY <1>1, <2>1, <2>3, <3>1 DEF Asked, Asking, Evidence
      <3>4. Made(q, tree) /\ \A other : ~Made(p, other)
        BY <2>1, <3>1, <3>2 DEF Made
      <3> QED
        BY <1>2, <2>1, <2>3, <3>1, <3>3, <3>4, Pass
    <2> QED
      BY <1>11, <2>2, <2>3 DEF AcquireAdd
  <1>12. CASE AcquireInsert(c)
    <2> DEFINE row == NewRow(p.req, p.path, clock)
    <2>1. PICK i \in LeaseIds : leases' = Insert(leases, i, row)
      BY <1>12 DEF AcquireInsert
    <2>2. leases'[i] = row /\ row.path = p.path /\ row # NoLease
      BY <2>1 DEF Insert, EInv, IInv, TypeOK, Tables, NewRow, NoLease
    <2>3. GroupOf(leases', p.path) # {}
      BY <2>2 DEF GroupOf, Stored
    <2>4. UNCHANGED <<dirs, lost>> /\ Enter(c, Idle)
      BY <1>12 DEF AcquireInsert, Done
    <2> QED
      BY <1>2, <2>3, <2>4, Pass, IdleMemory DEF Made
  <1>13. CASE AcquireRefused(c)
    <2>1. p.pc = "insert" /\ UNCHANGED <<dirs, lost, branches>>
      BY <1>13 DEF AcquireRefused
    <2>2. CASE p.path = p.req.cwd
      <3>1. Enter(c, Idle) /\ \A tree : ~Made(p, tree)
        BY <1>13, <2>2 DEF AcquireRefused, Done, Made
      <3> QED
        BY <1>2, <2>1, <3>1, Pass, IdleMemory
    <2>3. CASE p.path # p.req.cwd
      <3> DEFINE q == [p EXCEPT !.pc = "compensate"]
      <3>1. Enter(c, q)
        BY <1>13, <2>3 DEF AcquireRefused
      <3>2. q.pc = "compensate" /\ q.req = p.req /\ q.path = p.path
        BY <1>1, <2>1, ProcShape
      <3> HIDE DEF q
      <3>3. Asked(q, branches') /\ Evidence(q, leases', clock')
        BY <1>1, <2>1, <2>3, <3>2 DEF Asked, Asking, Evidence
      <3>4. \A tree : Made(p, tree) => Made(q, tree)
        BY <3>2 DEF Made
      <3> QED
        BY <1>2, <2>1, <3>1, <3>3, <3>4, Pass
    <2> QED
      BY <2>2, <2>3
  <1>14. CASE AcquireCompensate(c)
    <2>1. /\ \/ dirs' = dirs \ {p.path} /\ UNCHANGED lost
             \/ lost' = lost \cup {p.path} /\ UNCHANGED dirs
          /\ Enter(c, Idle)
      BY <1>14 DEF AcquireCompensate, Done
    <2>2. \A tree \in dirs' : Made(p, tree) => tree \in lost'
      BY <2>1 DEF Made
    <2> QED
      BY <1>2, <2>1, <2>2, Pass, IdleMemory
  <1> QED
    BY <1>5, <1>6, <1>7, <1>8, <1>9, <1>10, <1>11, <1>12, <1>13, <1>14 DEF Acquire

\* The steps of release, heartbeat, close, stale recovery and absent release.
LEMMA TransitionEvidence ==
    ASSUME EInv, NEW c \in Clients, Transition(c)
    PROVE  EInv'
  <1> DEFINE p == proc[c]
  <1>1. leases \in Tables /\ clock \in Int /\ StaleAfter \in Int
    BY LeasesAssumption DEF EInv, IInv, TypeOK, Times
  <1>2. [Next]_vars
    BY DEF Next
  <1>3. ASSUME UNCHANGED <<dirs, lost>>, ~(p.pc \in {"insert", "compensate"}),
               NEW q, Enter(c, q), ~(q.pc \in Asking), Evidence(q, leases', clock')
        PROVE  EInv'
    BY <1>2, <1>3, Pass DEF Made, Asked
  <1>4. ASSUME UNCHANGED <<dirs, lost>>, ~(p.pc \in {"insert", "compensate"}), Done(c)
        PROVE  EInv'
    BY <1>2, <1>4, Pass, IdleMemory DEF Made, Done
  <1>5. CASE ReleaseLoad(c)
    <2>1. PICK i, to, forced :
             Enter(c, [pc |-> "update", lease |-> i, to |-> to, forced |-> forced])
      BY <1>5 DEF ReleaseLoad
    <2> DEFINE q == [pc |-> "update", lease |-> i, to |-> to, forced |-> forced]
    <2>2. q.pc = "update" /\ Enter(c, q) /\ p.pc = "idle" /\ UNCHANGED <<dirs, lost>>
      BY <1>5, <2>1 DEF ReleaseLoad
    <2> HIDE DEF q
    <2> QED
      BY <1>3, <2>2 DEF Evidence, Asking
  <1>6. CASE ReleaseUpdate(c)
    <2> DEFINE q == [pc |-> "justify", lease |-> p.lease]
    <2>1. /\ q.pc = "justify" /\ p.pc = "update" /\ UNCHANGED <<dirs, lost>>
          /\ Enter(c, q) \/ Done(c)
      BY <1>6 DEF ReleaseUpdate
    <2> HIDE DEF q
    <2> QED
      BY <1>3, <1>4, <2>1 DEF Evidence, Asking
  <1>7. CASE ReleaseJustify(c)
    BY <1>4, <1>7 DEF ReleaseJustify
  <1>8. CASE Heartbeat(c) \/ RetainForIssue(c)
    BY <1>2, <1>8, Still DEF Heartbeat, RetainForIssue
  <1>9. CASE RetainScopeRead(c)
    <2>1. PICK scope \in Scopes :
             Enter(c, [pc |-> "retain", scope |-> scope,
                       ids |-> {i \in Active(leases) : leases[i].scope = scope},
                       approved |-> RetentionProof(leases, scope.number)])
      BY <1>9 DEF RetainScopeRead
    <2> DEFINE ids      == {i \in Active(leases) : leases[i].scope = scope}
               approved == RetentionProof(leases, scope.number)
               q        == [pc |-> "retain", scope |-> scope, ids |-> ids,
                            approved |-> approved]
    <2>2. /\ q.pc = "retain" /\ q.scope = scope /\ q.ids = ids /\ q.approved = approved
          /\ Enter(c, q)
      BY <2>1
    <2>3. p.pc = "idle" /\ UNCHANGED <<leases, dirs, lost>>
      BY <1>9 DEF RetainScopeRead
    <2>4. \A i \in ids : i \in Stored(leases) /\ leases[i].scope = scope
      BY <1>1, ActiveStored
    <2>5. ASSUME NEW m \in approved, m.status = "active", m.scope = scope
          PROVE  m.lease \in ids
      <3>1. PICK j \in Stored(leases) : m = Member(leases, j)
        BY <2>5 DEF RetentionProof
      <3>2. /\ m.lease = j /\ m.status = leases[j].status /\ m.scope = leases[j].scope
        BY <3>1 DEF Member
      <3> QED
        BY <2>5, <3>2 DEF Active, Stored
    <2> HIDE DEF ids, approved, q
    <2>6. Evidence(q, leases', clock')
      BY <2>2, <2>3, <2>4, <2>5 DEF Evidence
    <2> QED
      BY <1>3, <2>2, <2>3, <2>6 DEF Asking
  <1>10. CASE RetainScopeWrite(c)
    BY <1>4, <1>10 DEF RetainScopeWrite
  <1>11. CASE RecoverStart(c)
    <2>1. PICK selected : Enter(c, [pc |-> "recover", before |-> clock - StaleAfter,
                                    selected |-> selected, now |-> clock])
      BY <1>11 DEF RecoverStart
    <2> DEFINE q == [pc |-> "recover", before |-> clock - StaleAfter,
                     selected |-> selected, now |-> clock]
    <2>2. /\ q.pc = "recover" /\ q.before = clock - StaleAfter /\ Enter(c, q)
          /\ p.pc = "idle" /\ UNCHANGED <<dirs, lost, clock>>
      BY <1>11, <2>1 DEF RecoverStart
    <2> HIDE DEF q
    <2>3. Evidence(q, leases', clock')
      BY <1>1, <2>2 DEF Evidence
    <2> QED
      BY <1>3, <2>2, <2>3 DEF Asking
  <1>12. CASE RecoverWrite(c)
    BY <1>4, <1>12 DEF RecoverWrite
  <1>13. CASE AbsentScan(c)
    <2>1. PICK path \in Paths \ dirs :
             /\ GroupOf(leases, path) \cap Active(leases) = {}
             /\ Enter(c, [pc |-> "absent", path |-> path,
                          targets |-> {i \in GroupOf(leases, path) :
                                          leases[i].status # "released"},
                          approved |-> OwnershipProof(leases, path)])
      BY <1>13 DEF AbsentScan
    <2> DEFINE targets  == {i \in GroupOf(leases, path) : leases[i].status # "released"}
               approved == OwnershipProof(leases, path)
               q        == [pc |-> "absent", path |-> path, targets |-> targets,
                            approved |-> approved]
    <2>2. /\ q.pc = "absent" /\ q.path = path /\ q.targets = targets
          /\ q.approved = approved /\ Enter(c, q)
      BY <2>1
    <2>3. p.pc = "idle" /\ UNCHANGED <<leases, dirs, lost>>
      BY <1>13 DEF AbsentScan
    <2>4. \A i \in targets : leases[i].path = path
      BY DEF GroupOf
    <2>5. ASSUME NEW m \in approved, m.directory = path PROVE m.status # "active"
      <3>1. PICK j \in Stored(leases) : m = Member(leases, j)
        BY <2>5 DEF OwnershipProof
      <3>2. m.status = leases[j].status /\ m.directory = leases[j].path
        BY <3>1 DEF Member
      <3> QED
        BY <2>1, <2>5, <3>2 DEF Active, Stored, GroupOf
    <2> HIDE DEF targets, approved, q
    <2>6. Evidence(q, leases', clock')
      BY <2>2, <2>3, <2>4, <2>5 DEF Evidence
    <2> QED
      BY <1>3, <2>2, <2>3, <2>6 DEF Asking
  <1>14. CASE AbsentWrite(c)
    BY <1>4, <1>14 DEF AbsentWrite
  <1> QED
    BY <1>5, <1>6, <1>7, <1>8, <1>9, <1>10, <1>11, <1>12, <1>13, <1>14 DEF Transition

\* A killed process, the trees that come and go, and the clock.
LEMMA EnvironmentEvidence ==
    ASSUME EInv,
           \/ \E c \in Clients : Kill(c)
           \/ RemoveTree \/ RestoreTree \/ Tick \/ UNCHANGED vars
    PROVE  EInv'
  <1>1. [Next]_vars
    BY DEF Next
  <1>2. ASSUME NEW c \in Clients, Kill(c) PROVE EInv'
    <2>1. /\ UNCHANGED <<dirs, branches>> /\ Enter(c, Idle)
          /\ lost \subseteq lost' /\ \A tree : Made(proc[c], tree) => tree \in lost'
      BY <1>2 DEF Kill, Done, Made
    <2> QED
      BY <1>1, <2>1, Pass, IdleMemory
  <1>3. CASE RemoveTree
    BY <1>1, <1>3, Still DEF RemoveTree
  <1>4. CASE RestoreTree
    BY <1>1, <1>4, Still DEF RestoreTree
  <1>5. CASE Tick \/ UNCHANGED vars
    BY <1>1, <1>5, Still DEF Tick, vars
  <1> QED
    BY <1>2, <1>3, <1>4, <1>5

\* Nothing is recorded, made or remembered at the start.
LEMMA InitEvidence == Init => EInv
  <1> SUFFICES ASSUME Init PROVE EInv
    OBVIOUS
  <1>1. Stored(leases) = {}
    BY DEF Init, EmptyTable, Stored, NoLease
  <1>2. Numbered(leases) /\ TreeInv
    BY <1>1 DEF Init, Numbered, Scoped, TreeInv
  <1>3. MemoryInv
    BY IdleMemory DEF Init, MemoryInv
  <1> QED
    BY <1>2, <1>3, InitKeeps DEF EInv

\* Every behaviour keeps what the commands remember and where the trees are.
THEOREM EvidenceInductive == Spec => []EInv
  <1>1. EInv /\ [Next]_vars => EInv'
    BY AcquireEvidence, TransitionEvidence, EnvironmentEvidence DEF Next
  <1> QED
    BY InitEvidence, <1>1, PTL DEF Spec

\* No worktree directory is forgotten: whatever fails or is killed in
\* acquire_new_worktree, a tree on disk has its row, its maker or its loss.
THEOREM NoTreeForgotten == Spec => []TreesAccounted
  <1>1. EInv => TreesAccounted
    BY DEF EInv, TreeInv, Made, TreesAccounted
  <1> QED
    BY EvidenceInductive, <1>1, PTL

\* What the shared UPDATE leaves in a stored row.
LEMMA FlipRow ==
    ASSUME NEW t \in Tables, NEW ids, NEW to, NEW now, NEW why, NEW i \in Stored(t)
    PROVE  /\ i \in ids => /\ Flip(t, ids, to, now, why)[i].reason = why
                           /\ Flip(t, ids, to, now, why)[i].status = to
           /\ i \notin ids => Flip(t, ids, to, now, why)[i] = t[i]
  <1>1. i \in LeaseIds /\ t[i] \in Lease
    BY StoredIsLease DEF Stored
  <1> QED
    BY <1>1 DEF Flip, Lease

\* The one statement that can give a stored row a reason it did not have,
\* with the rows that statement names.
LEMMA ReasonGiven ==
    ASSUME EInv, [Next]_vars, NEW i \in Stored(leases),
           leases'[i].reason # leases[i].reason, leases'[i].reason # "forced"
    PROVE  \E c \in Clients :
             \/ /\ RetainForIssue(c) /\ leases'[i].reason = "closed"
                /\ \E issue \in Issues :
                      /\ leases' = RetainIssue(leases, issue, clock)
                      /\ i \in Active(leases) \cap Unscoped(leases)
                      /\ leases[i].issue = issue
             \/ /\ RetainScopeWrite(c) /\ leases'[i].reason = "closed"
                /\ leases' = Flip(leases, proc[c].ids \cap Active(leases),
                                  "retained", clock, "closed")
                /\ RetentionProof(leases, proc[c].scope.number) = proc[c].approved
                /\ i \in proc[c].ids
             \/ /\ RecoverWrite(c) /\ leases'[i].reason = "stale"
                /\ i \in Active(leases) /\ leases[i].heartbeat < proc[c].before
             \/ /\ AbsentWrite(c) /\ leases'[i].reason = "absent"
                /\ OwnershipProof(leases, proc[c].path) = proc[c].approved
                /\ proc[c].path \notin dirs
                /\ i \in proc[c].targets
  <1>1. leases \in Tables
    BY DEF EInv, IInv, TypeOK
  <1>2. PICK c \in Clients : \/ RetainForIssue(c) \/ RetainScopeWrite(c)
                             \/ RecoverWrite(c)   \/ AbsentWrite(c)
    BY StepWrites DEF Plain, Reasoned
  <1>3. CASE RetainForIssue(c)
    <2>1. PICK issue \in Issues : leases' = RetainIssue(leases, issue, clock)
      BY <1>3 DEF RetainForIssue
    <2> DEFINE mine == {k \in Active(leases) \cap Unscoped(leases) : leases[k].issue = issue}
    <2>2. leases' = Flip(leases, mine, "retained", clock, "closed")
      BY <2>1 DEF RetainIssue
    <2>3. i \in mine /\ leases'[i].reason = "closed"
      <3> HIDE DEF mine
      <3> QED
        BY <1>1, <2>2, FlipRow
    <2> QED
      BY <1>3, <2>1, <2>3
  <1>4. CASE RetainScopeWrite(c)
    <2> DEFINE p == proc[c]
               mine == p.ids \cap Active(leases)
    <2>1. /\ leases' = Flip(leases, mine, "retained", clock, "closed")
          /\ RetentionProof(leases, p.scope.number) = p.approved
      BY <1>4 DEF RetainScopeWrite, RetainScopeIds
    <2>2. i \in mine /\ leases'[i].reason = "closed"
      <3> HIDE DEF mine
      <3> QED
        BY <1>1, <2>1, FlipRow
    <2> QED
      BY <1>4, <2>1, <2>2
  <1>5. CASE RecoverWrite(c)
    <2> DEFINE p == proc[c]
    <2>1. PICK answer \in StaleAnswers(leases, p.before) :
             leases' = RecoverStale(leases, answer, p.selected, p.now)
      BY <1>5 DEF RecoverWrite
    <2> DEFINE mine == {k \in answer : RecoveryAllows(leases, k, p.selected)}
    <2>2. leases' = Flip(leases, mine, "retained", p.now, "stale")
      BY <2>1 DEF RecoverStale
    <2>3. i \in mine /\ leases'[i].reason = "stale"
      <3> HIDE DEF mine
      <3> QED
        BY <1>1, <2>2, FlipRow
    <2>4. i \in Active(leases) /\ leases[i].heartbeat < p.before
      BY <2>1, <2>3 DEF StaleAnswers
    <2> QED
      BY <1>5, <2>3, <2>4
  <1>6. CASE AbsentWrite(c)
    <2> DEFINE p == proc[c]
    <2>1. /\ leases' = Flip(leases, p.targets, "released", clock, "absent")
          /\ OwnershipProof(leases, p.path) = p.approved
          /\ p.path \notin dirs
      BY <1>6 DEF AbsentWrite, ReleaseAbsent
    <2>2. i \in p.targets /\ leases'[i].reason = "absent"
      BY <1>1, <2>1, FlipRow
    <2> QED
      BY <1>6, <2>1, <2>2
  <1> QED
    BY <1>2, <1>3, <1>4, <1>5, <1>6

\* prune --release-stale never takes a lease whose heartbeat is inside the
\* window, however late after its start the recovery's transaction runs.
THEOREM FreshIsSafe == Spec => FreshNeverRecovered
  <1> DEFINE Safe == \A i \in Active(leases) :
                        leases'[i].reason = "stale" =>
                            clock - leases[i].heartbeat > StaleAfter
  <1>1. EInv /\ [Next]_vars => [Safe]_vars
    <2> SUFFICES ASSUME EInv, [Next]_vars, NEW i \in Active(leases),
                        leases'[i].reason = "stale"
                 PROVE  clock - leases[i].heartbeat > StaleAfter
      OBVIOUS
    <2>1. /\ leases \in Tables /\ clock \in Int /\ StaleAfter \in Int
          /\ proc \in [Clients -> Procs] /\ leases[i].reason = "null"
      BY LeasesAssumption DEF EInv, IInv, TypeOK, Times, TableInv, NoReason
    <2>2. i \in Stored(leases) /\ leases[i].heartbeat \in Int
      BY <2>1, ActiveStored, StoredIsLease DEF Active, Lease, Times
    <2>3. PICK c \in Clients : RecoverWrite(c) /\ leases[i].heartbeat < proc[c].before
      BY <2>1, <2>2, ReasonGiven
    <2>4. proc[c].before \in Int /\ proc[c].before <= clock - StaleAfter
      <3>1. proc[c].pc = "recover" /\ proc[c] \in Procs /\ Evidence(proc[c], leases, clock)
        BY <2>1, <2>3 DEF RecoverWrite, EInv, MemoryInv
      <3> QED
        BY <3>1 DEF Evidence, Procs, Idle
    <2> QED
      BY <2>1, <2>2, <2>3, <2>4
  <1> QED
    BY EvidenceInductive, <1>1, PTL DEF Spec, FreshNeverRecovered

\* A close that retains a lease leaves no active lease of its issue or scope,
\* although the scoped close reads its rows before it writes.
THEOREM CloseIsComplete == Spec => CloseLeavesNoneActive
  <1> DEFINE Complete == \A i \in Active(leases) :
                            leases'[i].reason = "closed" =>
                                \A j \in Active(leases)' :
                                    \/ leases'[j].scope # leases[i].scope
                                    \/ leases'[j].issue # leases[i].issue
  <1>1. EInv /\ [Next]_vars => [Complete]_vars
    <2> SUFFICES ASSUME EInv, [Next]_vars, NEW i \in Active(leases),
                        leases'[i].reason = "closed", NEW j \in Active(leases'),
                        leases'[j].scope = leases[i].scope,
                        leases'[j].issue = leases[i].issue
                 PROVE  FALSE
      OBVIOUS
    <2>1. leases \in Tables /\ leases[i].reason = "null" /\ i \in Stored(leases)
      BY ActiveStored DEF EInv, IInv, TypeOK, TableInv, NoReason
    <2>2. ASSUME NEW ids, NEW to, to # "active", NEW now, NEW why,
                 leases' = Flip(leases, ids, to, now, why)
          PROVE  j \notin ids /\ leases'[j] = leases[j] /\ j \in Active(leases)
      <3>1. j \in LeaseIds /\ leases'[j].status = "active"
        BY DEF Active
      <3>2. CASE j \in Stored(leases)
        BY <2>1, <2>2, <3>1, <3>2, FlipRow DEF Active
      <3>3. CASE j \notin Stored(leases)
        BY <2>1, <2>2, <3>1, <3>3 DEF Flip, Stored, NoLease, Active
      <3> QED
        BY <3>2, <3>3
    <2>3. PICK c \in Clients :
             \/ \E issue \in Issues : /\ leases' = RetainIssue(leases, issue, clock)
                                      /\ i \in Unscoped(leases) /\ leases[i].issue = issue
             \/ /\ RetainScopeWrite(c)
                /\ leases' = Flip(leases, proc[c].ids \cap Active(leases),
                                  "retained", clock, "closed")
                /\ RetentionProof(leases, proc[c].scope.number) = proc[c].approved
                /\ i \in proc[c].ids
      BY <2>1, ReasonGiven
    <2>4. ASSUME NEW issue \in Issues, leases' = RetainIssue(leases, issue, clock),
                 i \in Unscoped(leases), leases[i].issue = issue
          PROVE  FALSE
      <3> DEFINE mine == {k \in Active(leases) \cap Unscoped(leases) : leases[k].issue = issue}
      <3>1. leases' = Flip(leases, mine, "retained", clock, "closed")
        BY <2>4 DEF RetainIssue
      <3>2. j \notin mine /\ leases'[j] = leases[j] /\ j \in Active(leases)
        <4> HIDE DEF mine
        <4> QED
          BY <2>2, <3>1
      <3>3. j \in Unscoped(leases)
        BY <2>1, <2>4, <3>2, ActiveStored DEF Unscoped
      <3> QED
        BY <2>4, <3>2, <3>3
    <2>5. CASE /\ RetainScopeWrite(c)
               /\ leases' = Flip(leases, proc[c].ids \cap Active(leases),
                                 "retained", clock, "closed")
               /\ RetentionProof(leases, proc[c].scope.number) = proc[c].approved
               /\ i \in proc[c].ids
      <3> DEFINE p == proc[c]
                 m == Member(leases, j)
      <3>1. j \notin p.ids /\ leases'[j] = leases[j] /\ j \in Active(leases)
        BY <2>2, <2>5
      <3>2. /\ leases[i].scope = p.scope
            /\ \A k \in p.approved :
                  k.status = "active" /\ k.scope = p.scope => k.lease \in p.ids
            /\ p.scope \in Scopes
        <4>1. p.pc = "retain" /\ Evidence(p, leases, clock) /\ p \in Procs
          BY <2>5 DEF RetainScopeWrite, EInv, MemoryInv, IInv, TypeOK
        <4> QED
          BY <2>5, <4>1 DEF Evidence, Procs, Idle
      <3>3. j \in Scoped(leases) /\ leases[j].issue = p.scope.number
        <4>1. j \in Scoped(leases)
          BY <2>1, <3>1, <3>2, ActiveStored, LeaseStoreAssumption DEF Scoped
        <4> QED
          BY <3>1, <3>2, <4>1 DEF EInv, Numbered
      <3>4. m \in RetentionProof(leases, p.scope.number)
        BY <2>1, <3>1, <3>3, ActiveStored DEF RetentionProof
      <3>5. m.lease = j /\ m.status = "active" /\ m.scope = p.scope
        BY <3>1, <3>2 DEF Member, Active
      <3> HIDE DEF m
      <3> QED
        BY <2>5, <3>1, <3>2, <3>4, <3>5
    <2> QED
      BY <2>3, <2>4, <2>5
  <1> QED
    BY EvidenceInductive, <1>1, PTL DEF Spec, CloseLeavesNoneActive

\* release_absent_leases_proven writes a row off only while its directory is
\* gone and no active lease names it.
THEOREM AbsenceIsProven == Spec => AbsentIsProven
  <1> DEFINE Proven == \A i \in Stored(leases) :
                          leases'[i].reason = "absent" /\ leases[i].reason # "absent" =>
                              /\ leases[i].path \notin dirs
                              /\ ActiveOnPath(leases, leases[i].path) = {}
  <1>1. EInv /\ [Next]_vars => [Proven]_vars
    <2> SUFFICES ASSUME EInv, [Next]_vars, NEW i \in Stored(leases),
                        leases'[i].reason = "absent", leases[i].reason # "absent"
                 PROVE  /\ leases[i].path \notin dirs
                        /\ ActiveOnPath(leases, leases[i].path) = {}
      OBVIOUS
    <2>1. PICK c \in Clients :
             /\ AbsentWrite(c) /\ OwnershipProof(leases, proc[c].path) = proc[c].approved
             /\ proc[c].path \notin dirs /\ i \in proc[c].targets
      BY ReasonGiven
    <2> DEFINE p == proc[c]
    <2>2. /\ leases[i].path = p.path /\ leases \in Tables
          /\ \A m \in p.approved : m.directory = p.path => m.status # "active"
      BY <2>1 DEF AbsentWrite, EInv, MemoryInv, Evidence, IInv, TypeOK
    <2>3. ASSUME NEW j \in ActiveOnPath(leases, p.path) PROVE FALSE
      <3> DEFINE m == Member(leases, j)
      <3>1. j \in Active(leases) /\ leases[j].path = p.path
        BY <2>3 DEF ActiveOnPath
      <3>2. j \in GroupOf(leases, p.path)
        BY <2>2, <3>1, ActiveStored DEF GroupOf
      <3>3. m \in OwnershipProof(leases, p.path)
        BY <3>2 DEF OwnershipProof, GroupOf
      <3>4. m.directory = p.path /\ m.status = "active"
        BY <3>1 DEF Member, Active
      <3> HIDE DEF m
      <3> QED
        BY <2>1, <2>2, <3>3, <3>4
    <2> QED
      BY <2>1, <2>2, <2>3
  <1> QED
    BY EvidenceInductive, <1>1, PTL DEF Spec, AbsentIsProven
=============================================================================

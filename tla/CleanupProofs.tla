--------------------------- MODULE CleanupProofs ---------------------------
(***************************************************************************)
(* Theorems about Cleanup, for any number of passes, directories, issues   *)
(* and sessions, whatever the rest of the world does between two steps.    *)
(*                                                                         *)
(* RemovalEvidenceFresh speaks of the moment git removes a directory; the  *)
(* evidence was read many steps before.  The invariant says what each read *)
(* still proves: everything that forbids the removal and was there when    *)
(* the pass looked would have stopped it, so it appeared since, and then   *)
(* it is in the pass's record of late facts.                               *)
(***************************************************************************)
EXTENDS Cleanup, TLAPS

Fields == {"pc", "phase", "mode", "dir", "issue", "closer", "scope", "legacy",
           "project", "pinned", "ids", "cache", "issues", "roots", "hosted",
           "probe", "accepted", "pending", "budget"}

\* Past the git guard; past the closure guard too; moving sessions out.
Judged  == {"family", "locate", "list", "running", "lineage", "remove"}
Guarded == {"active", "closure"} \cup Judged
Asking  == {"move", "check", "request", "observe"}
Moving  == Asking \cup {"wait", "poll", "vacant", "homes", "settled"}

\* The sessions whose relatives a pass may move.
Kin(q) == q.roots \cup ({q.closer} \ {NoSession})

\* What pass q knows of table t and of the directories d stays true: rows are
\* never deleted or moved, and directories only disappear.
Sane(q, t, d) ==
    /\ DOMAIN q = Fields
    /\ q.roots \subseteq RootsOn(t, q.dir)
    /\ q.mode = "prune" => q.ids \subseteq GroupOf(t, q.dir)
    /\ q.pc = "flip" => q.mode = "prune" /\ q.dir \notin d
    /\ q.pinned => q.pc \in {"recover", "rows"} /\ q.mode \in {"prune", "preview"}
    /\ q.pc \in Guarded => q.dir # Main
    /\ q.pc \in {"again", "confirm", "retain", "load"} =>
           q.mode \notin {"prune", "preview"}
    /\ q.pc \in Moving => q.mode \in {"prune", "close"} /\ q.phase # "cleared"
    /\ q.pc \in Asking => \A s \in q.hosted : Related(s, Kin(q))
    /\ q.pc \in {"check", "request"} => \A s \in q.probe : Related(s, Kin(q))
    /\ q.pc = "remove" => q.phase = "cleared" \/ q.mode = "report"

\* The rows on the directory that pass q has not judged are late.
RowsClear(q, t, l) ==
    /\ \A i \in ActiveOnPath(t, q.dir) :
          t[i].session = q.closer \/ <<"lease", i>> \in l
    /\ \A i \in GroupOf(t, q.dir) :
          t[i].issue \in q.issues \/ <<"issue", t[i].issue>> \in l

\* So are the issues that were closed when it asked,
IssuesClear(q, o, l) ==
    \A n \in q.issues \cap o :
        (n = q.issue /\ q.mode # "prune") \/ <<"issue", n>> \in l

\* and the sessions in the directory outside a set it knows of.
SessionsClear(q, known, pl, l) ==
    \A s \in OpenCode :
        pl[s] = q.dir => s \in known \/ <<"session", s>> \in l

Clear(q, t, o, pl, l) ==
    q.phase = "cleared" =>
        /\ q.pc \in {"git"} \cup Guarded => RowsClear(q, t, l)
        /\ q.pc \in Judged => IssuesClear(q, o, l)
        /\ q.pc \in {"running", "lineage"} => SessionsClear(q, q.hosted, pl, l)
        /\ q.pc = "remove" /\ (q.mode = "prune" \/ q.roots # {}) =>
               SessionsClear(q, {}, pl, l)

CInv ==
    /\ leases \in Tables
    /\ dirs \subseteq Paths
    /\ DOMAIN place = OpenCode
    /\ DOMAIN pass = Passes
    /\ DOMAIN late = Passes
    /\ \A p \in Passes : /\ Sane(pass[p], leases, dirs)
                         /\ Clear(pass[p], leases, open, place, late[p])

-----------------------------------------------------------------------------
(* What a pass relies on in the statements on the lease table.             *)

\* From t to u no row appears, disappears or changes owner, and none becomes
\* active.
Quiet(t, u) ==
    \A i \in LeaseIds :
        /\ (t[i] = NoLease) <=> (u[i] = NoLease)
        /\ t[i] # NoLease => /\ u[i].issue = t[i].issue
                             /\ u[i].session = t[i].session
                             /\ u[i].path = t[i].path
        /\ u[i].status = "active" => t[i].status = "active"

LEMMA SameTable == ASSUME NEW t \in Tables PROVE Quiet(t, t)
  BY DEF Quiet

\* Only rows that exist are named by id.
LEMMA ActiveStored == ASSUME NEW t \in Tables PROVE Active(t) \subseteq Stored(t)
  BY DEF Active, Stored, NoLease

LEMMA StoredIsLease ==
    ASSUME NEW t \in Tables, NEW i \in Stored(t)
    PROVE  i \in LeaseIds /\ t[i] \in Lease
  BY DEF Tables, Stored, Lease, NoLease, Terminal

\* Rows that end stay the rows of their owners.
LEMMA EndedRows ==
    ASSUME NEW t \in Tables, NEW u \in Tables,
           \A i \in LeaseIds :
              \/ u[i] = t[i]
              \/ /\ t[i] \in Lease /\ u[i] \in Lease /\ u[i].status # "active"
                 /\ u[i].issue = t[i].issue /\ u[i].session = t[i].session
                 /\ u[i].path = t[i].path
    PROVE  Quiet(t, u)
  <1>1. ASSUME NEW i \in LeaseIds
        PROVE  /\ (t[i] = NoLease) <=> (u[i] = NoLease)
               /\ t[i] # NoLease => /\ u[i].issue = t[i].issue
                                    /\ u[i].session = t[i].session
                                    /\ u[i].path = t[i].path
               /\ u[i].status = "active" => t[i].status = "active"
    <2>1. t[i] \in Lease /\ u[i] \in Lease => t[i] # NoLease /\ u[i] # NoLease
      BY DEF Lease, NoLease, Terminal
    <2> QED
      BY <2>1
  <1> QED
    BY <1>1 DEF Quiet

LEMMA FlipTable ==
    ASSUME NEW t \in Tables, NEW ids, ids \subseteq Stored(t),
           NEW to \in Terminal, NEW now \in Times, NEW why \in Reasons
    PROVE  /\ Flip(t, ids, to, now, why) \in Tables
           /\ Quiet(t, Flip(t, ids, to, now, why))
  <1> DEFINE u == Flip(t, ids, to, now, why)
  <1>1. ASSUME NEW i \in LeaseIds
        PROVE  u[i] = IF i \in ids
                      THEN [t[i] EXCEPT !.status = to, !.heartbeat = now, !.reason = why]
                      ELSE t[i]
    BY DEF Flip
  <1>2. ASSUME NEW i \in LeaseIds, i \in ids
        PROVE  /\ t[i] \in Lease /\ u[i] \in Lease
               /\ u[i].status # "active"
               /\ u[i].issue = t[i].issue /\ u[i].session = t[i].session
               /\ u[i].path = t[i].path
    <2>1. t[i] \in Lease
      BY <1>2, StoredIsLease
    <2>2. to # "active"
      BY DEF Terminal
    <2> QED
      BY <1>1, <1>2, <2>1, <2>2 DEF Lease
  <1>3. u \in Tables
    <2>1. \A i \in LeaseIds : u[i] \in Lease \cup {NoLease}
      BY <1>1, <1>2 DEF Tables
    <2> QED
      BY <2>1 DEF Flip, Tables
  <1>4. \A i \in LeaseIds : i \notin ids => u[i] = t[i]
    BY <1>1
  <1> HIDE DEF u
  <1>5. Quiet(t, u)
    BY <1>2, <1>3, <1>4, EndedRows
  <1> QED
    BY <1>3, <1>5 DEF u

LEMMA UpdateTable ==
    ASSUME NEW t \in Tables, NEW i \in Stored(t), NEW to \in Terminal, NEW now \in Times
    PROVE  /\ UpdateStatus(t, i, to, now) \in Tables
           /\ Quiet(t, UpdateStatus(t, i, to, now))
           /\ UpdateStatus(t, i, to, now)[i].status = to
  <1> DEFINE u   == UpdateStatus(t, i, to, now)
             row == [[t[i] EXCEPT !.status = to] EXCEPT !.heartbeat = now]
  <1>1. t[i] \in Lease /\ i \in LeaseIds
    BY StoredIsLease
  <1>2. /\ row \in Lease /\ row.status = to /\ to # "active"
        /\ row.issue = t[i].issue /\ row.session = t[i].session /\ row.path = t[i].path
    BY <1>1 DEF Lease, Terminal
  <1>3. u = [t EXCEPT ![i] = row]
    BY <1>1 DEF UpdateStatus, Tables
  <1> HIDE DEF u, row
  <1>4. /\ u \in Tables /\ u[i] = row
        /\ \A j \in LeaseIds : j # i => u[j] = t[j]
    BY <1>1, <1>2, <1>3 DEF Tables
  <1>5. Quiet(t, u)
    BY <1>1, <1>2, <1>4, EndedRows
  <1> QED
    BY <1>2, <1>4, <1>5 DEF u

\* The retentions behind a close, and the recovery of stale rows.
LEMMA RetainTable ==
    ASSUME NEW t \in Tables, NEW issue, NEW scope, NEW ids, NEW approved, NEW now \in Times
    PROVE  /\ RetainIssue(t, issue, now) \in Tables
           /\ Quiet(t, RetainIssue(t, issue, now))
           /\ RetainScopeIds(t, scope, ids, approved, now) \in Tables
           /\ Quiet(t, RetainScopeIds(t, scope, ids, approved, now))
  <1>1. \A s \in SUBSET Active(t) : s \subseteq Stored(t)
    BY ActiveStored
  <1>2. "retained" \in Terminal /\ "closed" \in Reasons
    BY DEF Terminal, Reasons
  <1>3. \E s \in SUBSET Active(t) : RetainIssue(t, issue, now) = Flip(t, s, "retained", now, "closed")
    BY DEF RetainIssue
  <1>4. \/ RetainScopeIds(t, scope, ids, approved, now) = t
        \/ \E s \in SUBSET Active(t) :
              RetainScopeIds(t, scope, ids, approved, now) = Flip(t, s, "retained", now, "closed")
    BY DEF RetainScopeIds
  <1> QED
    BY <1>1, <1>2, <1>3, <1>4, FlipTable, SameTable

LEMMA RecoverTable ==
    ASSUME NEW t \in Tables, NEW before, NEW answer \in StaleAnswers(t, before),
           NEW selected, NEW now \in Times
    PROVE  /\ RecoverStale(t, answer, selected, now) \in Tables
           /\ Quiet(t, RecoverStale(t, answer, selected, now))
  <1> DEFINE ids == {i \in answer : RecoveryAllows(t, i, selected)}
  <1>1. ids \subseteq Stored(t)
    BY ActiveStored DEF StaleAnswers
  <1>2. "retained" \in Terminal /\ "stale" \in Reasons
    BY DEF Terminal, Reasons
  <1>3. RecoverStale(t, answer, selected, now) = Flip(t, ids, "retained", now, "stale")
    BY DEF RecoverStale
  <1> HIDE DEF ids
  <1> QED
    BY <1>1, <1>2, <1>3, FlipTable

LEMMA EmptyIsTable == EmptyTable \in Tables
  BY DEF EmptyTable, Tables

LEMMA InsertTable ==
    ASSUME NEW t \in Tables, NEW i \in LeaseIds, NEW row \in Lease
    PROVE  Insert(t, i, row) \in Tables
  BY DEF Insert, Tables

(***************************************************************************)
(* What the steps of others do to a pass.                                  *)
(***************************************************************************)

\* Rows keep what they say of their directory; nothing new is said unless the
\* late facts l have it.
Grows(t, u) ==
    \A i \in LeaseIds :
        t[i] # NoLease => /\ u[i] # NoLease
                          /\ u[i].issue = t[i].issue
                          /\ u[i].session = t[i].session
                          /\ u[i].path = t[i].path
Announced(t, u, l) ==
    \A i \in LeaseIds :
        /\ u[i].status = "active" /\ t[i].status # "active" => <<"lease", i>> \in l
        /\ u[i] # NoLease /\ t[i] = NoLease => <<"issue", u[i].issue>> \in l

\* Whatever can forbid a removal and appears is recorded.
Recorded(t, u, o, n, pl, pm, l, m) ==
    /\ l \subseteq m
    /\ Announced(t, u, m)
    /\ \A x \in n \ o : <<"issue", x>> \in m
    /\ \A s \in OpenCode : pm[s] = pl[s] \/ pm[s] = Main \/ <<"session", s>> \in m

LEMMA QuietGrows ==
    ASSUME NEW t \in Tables, NEW u \in Tables, Quiet(t, u), NEW l
    PROVE  Grows(t, u) /\ Announced(t, u, l)
  BY DEF Quiet, Grows, Announced

\* A pass does not lose what it knows when the rows grow and directories go.
LEMMA SaneLasts ==
    ASSUME NEW q, NEW t \in Tables, NEW u \in Tables, NEW d, NEW e,
           Sane(q, t, d), Grows(t, u), e \subseteq d
    PROVE  Sane(q, u, e)
  <1>1. GroupOf(t, q.dir) \subseteq GroupOf(u, q.dir)
    BY DEF GroupOf, Stored, Grows
  <1>2. RootsOn(t, q.dir) \subseteq RootsOn(u, q.dir)
    <2> SUFFICES ASSUME NEW i \in GroupOf(t, q.dir)
                 PROVE  i \in GroupOf(u, q.dir) /\ u[i].session = t[i].session
      BY DEF RootsOn
    <2> QED
      BY <1>1 DEF GroupOf, Stored, Grows
  <1> QED
    BY <1>1, <1>2 DEF Sane

\* What appears in the eyes of a pass past the clearance is late.
LEMMA ClearLasts ==
    ASSUME NEW q, NEW t \in Tables, NEW u \in Tables, NEW o, NEW n, NEW pl, NEW pm,
           NEW l, NEW m, NEW d, Sane(q, t, d), Grows(t, u),
           Clear(q, t, o, pl, l),
           q.phase = "cleared" => Recorded(t, u, o, n, pl, pm, l, m)
    PROVE  Clear(q, u, n, pm, m)
  <1> SUFFICES ASSUME q.phase = "cleared"
               PROVE  Clear(q, u, n, pm, m)
    BY DEF Clear
  <1>1. Recorded(t, u, o, n, pl, pm, l, m)
    OBVIOUS
  <1>2. RowsClear(q, t, l) => RowsClear(q, u, m)
    <2> HAVE RowsClear(q, t, l)
    <2>1. ASSUME NEW i \in ActiveOnPath(u, q.dir)
          PROVE  u[i].session = q.closer \/ <<"lease", i>> \in m
      <3>1. i \in LeaseIds /\ u[i].status = "active" /\ u[i].path = q.dir
        BY DEF ActiveOnPath, Active
      <3>2. CASE t[i].status = "active"
        <4>1. t[i] # NoLease
          BY <3>2 DEF NoLease
        <4>2. i \in ActiveOnPath(t, q.dir)
          BY <3>1, <3>2, <4>1 DEF ActiveOnPath, Active, Grows
        <4> QED
          BY <1>1, <3>1, <4>1, <4>2 DEF RowsClear, Recorded, Grows
      <3>3. CASE t[i].status # "active"
        BY <1>1, <3>1, <3>3 DEF Recorded, Announced
      <3> QED
        BY <3>2, <3>3
    <2>2. ASSUME NEW i \in GroupOf(u, q.dir)
          PROVE  u[i].issue \in q.issues \/ <<"issue", u[i].issue>> \in m
      <3>1. i \in LeaseIds /\ u[i] # NoLease /\ u[i].path = q.dir
        BY DEF GroupOf, Stored
      <3>2. CASE t[i] = NoLease
        BY <1>1, <3>1, <3>2 DEF Recorded, Announced
      <3>3. CASE t[i] # NoLease
        <4>1. i \in GroupOf(t, q.dir) /\ u[i].issue = t[i].issue
          BY <3>1, <3>3 DEF GroupOf, Stored, Grows
        <4> QED
          BY <1>1, <4>1 DEF RowsClear, Recorded
      <3> QED
        BY <3>2, <3>3
    <2> QED
      BY <2>1, <2>2 DEF RowsClear
  <1>3. IssuesClear(q, o, l) => IssuesClear(q, n, m)
    BY <1>1 DEF IssuesClear, Recorded
  <1>4. ASSUME q.dir # Main, NEW known, SessionsClear(q, known, pl, l)
        PROVE  SessionsClear(q, known, pm, m)
    BY <1>1, <1>4 DEF SessionsClear, Recorded
  <1>5. q.pc \in Guarded => q.dir # Main
    BY DEF Sane
  <1>6. q.pc \in {"running", "lineage"} => SessionsClear(q, q.hosted, pm, m)
    BY <1>4, <1>5 DEF Clear, Guarded, Judged
  <1>7. q.pc = "remove" /\ (q.mode = "prune" \/ q.roots # {}) =>
           SessionsClear(q, {}, pm, m)
    BY <1>4, <1>5 DEF Clear, Guarded, Judged
  <1> QED
    BY <1>2, <1>3, <1>6, <1>7 DEF Clear

\* A pass step changes the table quietly, so it announces nothing.
LEMMA PassMoves ==
    ASSUME CInv, NEW p \in Passes, NEW w, pass' = [pass EXCEPT ![p] = w],
           leases' \in Tables, Quiet(leases, leases'), dirs' \subseteq dirs,
           open' \subseteq open, place' = place, DOMAIN late' = Passes,
           \A o \in Passes \ {p} : late'[o] = late[o],
           Sane(w, leases', dirs'), Clear(w, leases', open', place', late'[p])
    PROVE  CInv'
  <1>1. ASSUME NEW o \in Passes
        PROVE  /\ Sane(pass'[o], leases', dirs')
               /\ Clear(pass'[o], leases', open', place', late'[o])
    <2>1. CASE o = p
      BY <2>1 DEF CInv
    <2>2. CASE o # p
      <3>1. pass'[o] = pass[o] /\ late'[o] = late[o]
        BY <2>2 DEF CInv
      <3>2. Sane(pass[o], leases, dirs) /\ Clear(pass[o], leases, open, place, late[o])
        BY DEF CInv
      <3>3. leases \in Tables
        BY DEF CInv
      <3>4. Grows(leases, leases') /\ Announced(leases, leases', late[o])
        BY <3>3, QuietGrows
      <3>5. Sane(pass[o], leases', dirs')
        BY <3>2, <3>3, <3>4, SaneLasts
      <3>6. Recorded(leases, leases', open, open', place, place', late[o], late[o])
        BY <3>4 DEF Recorded
      <3>7. Clear(pass[o], leases', open', place', late[o])
        BY <3>2, <3>3, <3>4, <3>6, ClearLasts
      <3> QED
        BY <3>1, <3>5, <3>7
    <2> QED
      BY <2>1, <2>2
  <1>2. DOMAIN pass' = Passes /\ DOMAIN place' = OpenCode
    BY DEF CInv
  <1> QED
    BY <1>1, <1>2 DEF CInv

\* Most steps only read.
LEMMA PassReads ==
    ASSUME CInv, NEW p \in Passes, NEW w, Enter(p, w), UNCHANGED world,
           Sane(w, leases, dirs), Clear(w, leases, open, place, late[p])
    PROVE  CInv'
  <1>1. leases \in Tables /\ DOMAIN late = Passes
    BY DEF CInv
  <1>2. Quiet(leases, leases)
    BY <1>1, SameTable
  <1>3. /\ leases' = leases /\ dirs' = dirs /\ open' = open /\ place' = place
        /\ late' = late
    BY DEF world
  <1> QED
    BY <1>1, <1>2, <1>3, PassMoves DEF Enter

(***************************************************************************)
(* What a pass's own reads do to it.                                       *)
(***************************************************************************)

\* All that the invariant looks at, apart from the step, the phase and the
\* family assessment.
Alike(q, w) ==
    /\ DOMAIN w = Fields
    /\ w.mode = q.mode /\ w.dir = q.dir /\ w.issue = q.issue
    /\ w.closer = q.closer /\ w.pinned = q.pinned /\ w.ids = q.ids
    /\ w.issues = q.issues /\ w.roots = q.roots

LEMMA GotoEnters == ASSUME NEW p, NEW pc, Goto(p, pc)
                    PROVE  Enter(p, [pass[p] EXCEPT !.pc = pc])
  BY DEF Goto, Enter

LEMMA GotoAlike ==
    ASSUME NEW q, NEW pc, DOMAIN q = Fields
    PROVE  LET w == [q EXCEPT !.pc = pc]
           IN  /\ Alike(q, w) /\ w.pc = pc /\ w.phase = q.phase
               /\ w.hosted = q.hosted /\ w.probe = q.probe
  BY DEF Alike, Fields

\* A pass that is over claims nothing.
LEMMA IdleClaims ==
    ASSUME NEW t, NEW d, NEW o, NEW pl, NEW l
    PROVE  Sane(Idle, t, d) /\ Clear(Idle, t, o, pl, l)
  <1>1. DOMAIN Idle = Fields
    BY DEF Idle, Fresh, Fields
  <1>2. /\ Idle.pc = "idle" /\ Idle.phase = "scan" /\ Idle.roots = {}
        /\ Idle.ids = {} /\ Idle.pinned = FALSE
    BY DEF Idle, Fresh
  <1>3. Sane(Idle, t, d)
    BY <1>1, <1>2 DEF Sane, Guarded, Judged, Moving, Asking
  <1>4. Clear(Idle, t, o, pl, l)
    BY <1>2 DEF Clear
  <1> QED
    BY <1>3, <1>4

\* What a pass knows when the assessment lets it go on.
LEMMA ReleasedKnows ==
    ASSUME NEW q, NEW t, NEW d, NEW o, NEW pl, NEW l, Sane(q, t, d), ~q.pinned,
           q.phase = "cleared" =>
               /\ q.dir # Main
               /\ RowsClear(q, t, l)
               /\ IssuesClear(q, o, l)
               /\ q.mode = "prune" \/ q.roots # {} => SessionsClear(q, {}, pl, l),
           q.mode = "report" => q.dir # Main
    PROVE  Sane(Released(q), t, d) /\ Clear(Released(q), t, o, pl, l)
  <1>0. DOMAIN q = Fields
    BY DEF Sane
  <1> DEFINE gone == [q EXCEPT !.pc = "remove"]
             back == [q EXCEPT !.pc = "rows", !.phase = "moved"]
             look == [q EXCEPT !.pc = "inspect"]
  <1>1. Alike(q, gone) /\ gone.pc = "remove" /\ gone.phase = q.phase
    BY <1>0 DEF Alike, Fields
  <1>2. Alike(q, back) /\ back.pc = "rows" /\ back.phase = "moved"
    BY <1>0 DEF Alike, Fields
  <1>3. Alike(q, look) /\ look.pc = "inspect" /\ look.phase = q.phase
    BY <1>0 DEF Alike, Fields
  <1>4. ASSUME q.phase = "cleared" \/ q.mode = "report"
        PROVE  Sane(gone, t, d) /\ Clear(gone, t, o, pl, l)
    <2>1. q.dir # Main
      BY <1>4
    <2>2. Sane(gone, t, d)
      BY <1>1, <1>4, <2>1 DEF Sane, Alike, Kin, Guarded, Judged, Moving, Asking
    <2>3. q.phase = "cleared" => RowsClear(gone, t, l) /\ IssuesClear(gone, o, l)
      BY <1>1 DEF Alike, RowsClear, IssuesClear
    <2>4. q.phase = "cleared" /\ (gone.mode = "prune" \/ gone.roots # {}) =>
             SessionsClear(gone, {}, pl, l)
      BY <1>1 DEF Alike, SessionsClear
    <2> QED
      BY <1>1, <2>2, <2>3, <2>4 DEF Clear
  <1>5. Sane(back, t, d) /\ Clear(back, t, o, pl, l)
    BY <1>2 DEF Sane, Clear, Alike, Guarded, Judged, Moving, Asking
  <1>6. ASSUME q.phase # "cleared"
        PROVE  Sane(look, t, d) /\ Clear(look, t, o, pl, l)
    BY <1>3, <1>6 DEF Sane, Clear, Alike, Guarded, Judged, Moving, Asking
  <1>7. CASE Verify(q) \/ q.mode = "report"
    BY <1>4, <1>7 DEF Verify, Released
  <1>8. CASE ~Verify(q) /\ q.mode \in {"prune", "close"}
    BY <1>5, <1>8 DEF Released
  <1>9. CASE ~Verify(q) /\ q.mode = "sync"
    <2>1. Released(q) = look
      BY <1>9 DEF Released
    <2> QED
      BY <1>6, <1>9, <2>1 DEF Verify
  <1>10. CASE ~Verify(q) /\ q.mode \notin {"prune", "close", "sync", "report"}
    <2>1. Released(q) = Idle
      BY <1>10 DEF Released
    <2> QED
      BY <2>1, IdleClaims
  <1> QED
    BY <1>7, <1>8, <1>9, <1>10

\* Reading the rows: RowsAllow is evidence about all of them.
LEMMA RowsRead ==
    ASSUME NEW q, NEW t \in Tables, NEW d, NEW o, NEW pl, NEW l, DOMAIN q = Fields,
           RowsAllow(t, q),
           q.pinned => q.mode \in {"prune", "preview"},
           q.mode = "prune" => q.phase = "scan" \/ q.ids \subseteq GroupOf(t, q.dir)
    PROVE  Sane(WithRows(t, q), t, d) /\ Clear(WithRows(t, q), t, o, pl, l)
  <1> DEFINE w == WithRows(t, q)
  <1>1. /\ DOMAIN w = Fields /\ w.pc = "git" /\ w.phase = q.phase
        /\ w.mode = q.mode /\ w.dir = q.dir /\ w.closer = q.closer
        /\ w.pinned = q.pinned /\ w.issues = IssuesOn(t, q.dir)
        /\ w.roots = RootsOn(t, q.dir)
        /\ w.ids = IF q.phase = "scan" THEN GroupOf(t, q.dir) ELSE q.ids
    BY DEF WithRows, Fields
  <1>2. ~q.pinned
    BY DEF RowsAllow
  <1>3. Sane(w, t, d)
    BY <1>1, <1>2 DEF Sane, Guarded, Judged, Moving, Asking
  <1>4. \A i \in ActiveOnPath(t, w.dir) : t[i].session = w.closer
    BY <1>1 DEF RowsAllow
  <1>5. \A i \in GroupOf(t, w.dir) : t[i].issue \in w.issues
    BY <1>1 DEF IssuesOn
  <1>6. Clear(w, t, o, pl, l)
    BY <1>1, <1>4, <1>5 DEF Clear, RowsClear, Judged
  <1> QED
    BY <1>3, <1>6

LEMMA PassKnows ==
    ASSUME CInv, NEW p \in Passes
    PROVE  /\ leases \in Tables
           /\ Sane(pass[p], leases, dirs)
           /\ Clear(pass[p], leases, open, place, late[p])
           /\ DOMAIN pass[p] = Fields
  BY DEF CInv, Sane

LEMMA KeepSafe == ASSUME CInv, NEW p \in Passes, Keep(p), UNCHANGED world
                  PROVE  CInv'
  BY IdleClaims, PassReads DEF Keep

(***************************************************************************)
(* The steps, one lemma for each group of them.                            *)
(***************************************************************************)

LEMMA StartSafe == ASSUME CInv, NEW p \in Passes, Start(p) PROVE CInv'
  <1>0. leases \in Tables /\ DOMAIN late = Passes
    BY DEF CInv
  <1>1. ASSUME PruneStart(p) PROVE CInv'
    <2>1. PICK mode \in Modes \cap {"prune", "preview"}, d \in Paths,
               legacy \in BOOLEAN, project \in Projects :
             LET q == [Fresh(mode, d, Idle.issue, NoSession, NoScope, legacy, project)
                          EXCEPT !.pinned = ActiveOnPath(leases, d) # {},
                                 !.budget = PollBudget]
             IN  \/ RowsAllow(leases, q) /\ Enter(p, WithRows(leases, q))
                 \/ Enter(p, [q EXCEPT !.pc = "recover"])
      BY <1>1, ZenonT(30) DEF PruneStart
    <2> DEFINE q == [Fresh(mode, d, Idle.issue, NoSession, NoScope, legacy, project)
                        EXCEPT !.pinned = ActiveOnPath(leases, d) # {},
                               !.budget = PollBudget]
               w == [q EXCEPT !.pc = "recover"]
    <2>2. /\ DOMAIN q = Fields /\ q.phase = "scan" /\ q.mode = mode
          /\ q.ids = {} /\ q.roots = {}
      BY DEF Fresh, Fields
    <2>3. UNCHANGED world
      BY <1>1 DEF PruneStart
    <2>4. ASSUME RowsAllow(leases, q), Enter(p, WithRows(leases, q)) PROVE CInv'
      <3> HIDE DEF q
      <3>1. /\ Sane(WithRows(leases, q), leases, dirs)
            /\ Clear(WithRows(leases, q), leases, open, place, late[p])
        BY <1>0, <2>2, <2>4, RowsRead
      <3> QED
        BY <2>3, <2>4, <3>1, PassReads
    <2>5. ASSUME Enter(p, w) PROVE CInv'
      <3>1. /\ DOMAIN w = Fields /\ w.pc = "recover" /\ w.phase = "scan"
            /\ w.mode = mode /\ w.ids = {} /\ w.roots = {}
        BY <2>2 DEF Fields
      <3>2. Sane(w, leases, dirs)
        BY <3>1 DEF Sane, Guarded, Judged, Moving, Asking
      <3>3. Clear(w, leases, open, place, late[p])
        BY <3>1 DEF Clear
      <3> QED
        BY <2>3, <2>5, <3>2, <3>3, PassReads
    <2> QED
      BY <2>1, <2>4, <2>5
  <1>2. ASSUME CloseStart(p) PROVE CInv'
    <2>1. PICK issue \in Issues, closer \in Sessions \cup {NoSession},
               scope \in Scopes \cup {NoScope} :
             /\ open' = open \ {issue}
             /\ Enter(p, [Fresh("close", Main, issue, closer, scope, FALSE, NoScope)
                             EXCEPT !.pc = "retain"])
      BY <1>2 DEF CloseStart
    <2> DEFINE w == [Fresh("close", Main, issue, closer, scope, FALSE, NoScope)
                        EXCEPT !.pc = "retain"]
    <2>2. /\ DOMAIN w = Fields /\ w.pc = "retain" /\ w.phase = "scan"
          /\ w.mode = "close" /\ w.pinned = FALSE /\ w.roots = {}
      BY DEF Fresh, Fields
    <2>3. Sane(w, leases, dirs)
      BY <2>2 DEF Sane, Guarded, Judged, Moving, Asking
    <2>4. Clear(w, leases, open', place, late[p])
      BY <2>2 DEF Clear
    <2>5. /\ leases' = leases /\ dirs' = dirs /\ place' = place /\ late' = late
          /\ open' \subseteq open
      BY <1>2, <2>1 DEF CloseStart, disk, host
    <2>6. Quiet(leases, leases)
      BY <1>0, SameTable
    <2> HIDE DEF w
    <2> QED
      BY <1>0, <2>1, <2>3, <2>4, <2>5, <2>6, PassMoves DEF Enter, w
  <1>3. ASSUME SyncStart(p) PROVE CInv'
    <2>1. PICK mode \in Modes \cap {"sync", "report"}, issue \in Issues,
               scope \in Scopes \cup {NoScope} :
             Enter(p, [Fresh(mode, Main, issue, NoSession, scope, FALSE, NoScope)
                          EXCEPT !.pc = IF scope = NoScope THEN "retain" ELSE "again"])
      BY <1>3 DEF SyncStart
    <2> DEFINE w == [Fresh(mode, Main, issue, NoSession, scope, FALSE, NoScope)
                        EXCEPT !.pc = IF scope = NoScope THEN "retain" ELSE "again"]
    <2>2. /\ DOMAIN w = Fields /\ w.pc \in {"retain", "again"} /\ w.phase = "scan"
          /\ w.mode = mode /\ w.pinned = FALSE /\ w.roots = {}
      BY DEF Fresh, Fields
    <2>3. Sane(w, leases, dirs)
      BY <2>2 DEF Sane, Guarded, Judged, Moving, Asking
    <2>4. Clear(w, leases, open, place, late[p])
      BY <2>2 DEF Clear
    <2>5. UNCHANGED world
      BY <1>3 DEF SyncStart
    <2> QED
      BY <2>1, <2>3, <2>4, <2>5, PassReads
  <1> QED
    BY <1>1, <1>2, <1>3 DEF Start

\* The steps before the scan, with what they write into the table.
LEMMA LedgerStepSafe ==
    ASSUME CInv, NEW p \in Passes,
           PruneRecover(p) \/ SyncAgain(p) \/ SyncConfirm(p) \/ RetainClosed(p)
    PROVE  CInv'
  <1> DEFINE q == pass[p]
  <1>0. /\ leases \in Tables /\ DOMAIN late = Passes
        /\ Sane(q, leases, dirs) /\ DOMAIN q = Fields
    BY PassKnows DEF CInv
  <1>M. MaxClock \in Times
    BY LeaseStoreAssumption DEF Times
  <1>1. ASSUME NEW pc \in {"rows", "load", "retain"}, Goto(p, pc),
               pc # "rows" => q.mode \notin {"prune", "preview"} /\ ~q.pinned,
               q.pinned => q.mode \in {"prune", "preview"},
               leases' \in Tables, Quiet(leases, leases'),
               dirs' = dirs, open' = open, place' = place, late' = late
        PROVE  CInv'
    <2> DEFINE w == [q EXCEPT !.pc = pc]
    <2>1. Alike(q, w) /\ w.pc = pc
      BY <1>0, GotoAlike
    <2>2. Grows(leases, leases')
      BY <1>0, <1>1, QuietGrows
    <2>3. Sane(q, leases', dirs')
      BY <1>0, <1>1, <2>2, SaneLasts
    <2>4. Sane(w, leases', dirs')
      BY <1>1, <2>1, <2>3 DEF Sane, Alike, Guarded, Judged, Moving, Asking
    <2>5. Clear(w, leases', open', place', late'[p])
      BY <1>1, <2>1 DEF Clear, Guarded, Judged
    <2>6. pass' = [pass EXCEPT ![p] = w]
      BY <1>1, GotoEnters DEF Enter
    <2> HIDE DEF w
    <2> QED
      BY <1>0, <1>1, <2>4, <2>5, <2>6, PassMoves
  <1>2. ASSUME PruneRecover(p) PROVE CInv'
    <2>1. PICK answer \in StaleAnswers(leases, MaxClock + 1) :
             \E selected : leases' = RecoverStale(leases, answer, selected, MaxClock)
      BY <1>2 DEF PruneRecover
    <2>2. leases' \in Tables /\ Quiet(leases, leases')
      BY <1>0, <1>M, <2>1, RecoverTable
    <2>3. q.mode = "prune"
      BY <1>2 DEF PruneRecover
    <2> QED
      BY <1>1, <1>2, <2>2, <2>3 DEF PruneRecover, disk, host
  <1>3. ASSUME SyncAgain(p) PROVE CInv'
    <2> DEFINE w == IF q.mode = "report" THEN [q EXCEPT !.pc = "load"]
                    ELSE [q EXCEPT !.pc = "confirm",
                                   !.issues = ScopeIssues(leases, q.scope),
                                   !.ids = ScopeActive(leases, q.scope)]
    <2>1. /\ DOMAIN w = Fields /\ w.pc \in {"load", "confirm"} /\ w.phase = q.phase
          /\ w.mode = q.mode /\ w.dir = q.dir /\ w.roots = q.roots
          /\ w.pinned = q.pinned
      BY <1>0 DEF Fields
    <2>2. q.pc = "again"
      BY <1>3 DEF SyncAgain, At
    <2>3. Sane(w, leases, dirs)
      BY <1>0, <2>1, <2>2 DEF Sane, Guarded, Judged, Moving, Asking
    <2>4. Clear(w, leases, open, place, late[p])
      BY <2>1 DEF Clear, Guarded, Judged
    <2>5. Enter(p, w) /\ UNCHANGED world
      BY <1>3 DEF SyncAgain
    <2> QED
      BY <2>3, <2>4, <2>5, PassReads
  <1>4. ASSUME SyncConfirm(p) PROVE CInv'
    <2>1. q.mode \notin {"prune", "preview"} /\ ~q.pinned
      BY <1>0, <1>4 DEF SyncConfirm, At, Sane
    <2>2. Quiet(leases, leases)
      BY <1>0, SameTable
    <2> QED
      BY <1>0, <1>1, <1>4, <2>1, <2>2 DEF SyncConfirm, world
  <1>5. ASSUME RetainClosed(p) PROVE CInv'
    <2>1. q.mode \notin {"prune", "preview"} /\ ~q.pinned
      BY <1>0, <1>5 DEF RetainClosed, At, Sane
    <2>2. \/ leases' = leases
          \/ leases' = RetainIssue(leases, q.issue, MaxClock)
          \/ leases' = RetainScopeIds(leases, q.scope, ScopeActive(leases, q.scope),
                           RetentionProof(leases, q.scope.number), MaxClock)
      BY <1>5 DEF RetainClosed
    <2>3. leases' \in Tables /\ Quiet(leases, leases')
      BY <1>0, <1>M, <2>2, SameTable, RetainTable
    <2> QED
      BY <1>1, <1>5, <2>1, <2>3 DEF RetainClosed, disk, host
  <1> QED
    BY <1>2, <1>3, <1>4, <1>5

\* The guards.
LEMMA GuardSafe ==
    ASSUME CInv, NEW p \in Passes,
           \/ LoadCandidate(p) \/ ReadRows(p) \/ ReadGit(p) \/ ReadActive(p)
           \/ ReadClosure(p)
    PROVE  CInv'
  <1> DEFINE q == pass[p]
  <1>0. /\ leases \in Tables /\ Sane(q, leases, dirs) /\ DOMAIN q = Fields
        /\ Clear(q, leases, open, place, late[p])
    BY PassKnows
  <1>1. ASSUME LoadCandidate(p) PROVE CInv'
    <2>1. PICK i \in Stored(leases) :
             LET v == [q EXCEPT !.dir = leases[i].path]
             IN  RowsAllow(leases, v) /\ Enter(p, WithRows(leases, v))
      BY <1>1, Zenon DEF LoadCandidate
    <2> DEFINE v == [q EXCEPT !.dir = leases[i].path]
    <2>2. DOMAIN v = Fields /\ v.mode = q.mode /\ v.pinned = q.pinned
      BY <1>0 DEF Fields
    <2>3. q.mode \notin {"prune", "preview"} /\ ~q.pinned
      BY <1>0, <1>1 DEF LoadCandidate, At, Sane
    <2>4. UNCHANGED world
      BY <1>1 DEF LoadCandidate
    <2>5. RowsAllow(leases, v) /\ Enter(p, WithRows(leases, v))
      BY <2>1
    <2> HIDE DEF v
    <2>6. /\ Sane(WithRows(leases, v), leases, dirs)
          /\ Clear(WithRows(leases, v), leases, open, place, late[p])
      BY <1>0, <2>2, <2>3, <2>5, RowsRead
    <2> QED
      BY <2>4, <2>5, <2>6, PassReads
  <1>2. ASSUME ReadRows(p) PROVE CInv'
    <2>1. RowsAllow(leases, q) /\ Enter(p, WithRows(leases, q)) /\ UNCHANGED world
      BY <1>2 DEF ReadRows
    <2>2. /\ q.pinned => q.mode \in {"prune", "preview"}
          /\ q.mode = "prune" => q.ids \subseteq GroupOf(leases, q.dir)
      BY <1>0 DEF Sane
    <2>3. /\ Sane(WithRows(leases, q), leases, dirs)
          /\ Clear(WithRows(leases, q), leases, open, place, late[p])
      BY <1>0, <2>1, <2>2, RowsRead
    <2> QED
      BY <2>1, <2>3, PassReads
  <1>3. ASSUME ReadGit(p) PROVE CInv'
    <2> DEFINE w == [q EXCEPT
                   !.cache = IF q.phase = "scan" THEN content[q.dir] ELSE q.cache,
                   !.pc = IF q.mode \in {"prune", "preview"}
                          THEN "active" ELSE "closure"]
    <2>1. Alike(q, w) /\ w.pc \in {"active", "closure"} /\ w.phase = q.phase
      BY <1>0 DEF Alike, Fields
    <2>2. q.pc = "git" /\ q.dir # Main /\ Enter(p, w) /\ UNCHANGED world
      BY <1>3 DEF ReadGit, At
    <2>3. Sane(w, leases, dirs)
      BY <1>0, <2>1, <2>2 DEF Sane, Alike, Guarded, Judged, Moving, Asking
    <2>4. Clear(w, leases, open, place, late[p])
      BY <1>0, <2>1, <2>2 DEF Clear, RowsClear, Alike, Guarded, Judged
    <2> QED
      BY <2>2, <2>3, <2>4, PassReads
  <1>4. ASSUME ReadActive(p) PROVE CInv'
    <2> DEFINE w == [q EXCEPT !.pc = "closure"]
    <2>1. Alike(q, w) /\ w.pc = "closure" /\ w.phase = q.phase
      BY <1>0, GotoAlike
    <2>2. q.pc = "active" /\ Enter(p, w) /\ UNCHANGED world
      BY <1>4, GotoEnters DEF ReadActive, At
    <2>3. Sane(w, leases, dirs)
      BY <1>0, <2>1, <2>2 DEF Sane, Alike, Guarded, Judged, Moving, Asking
    <2>4. Clear(w, leases, open, place, late[p])
      BY <1>0, <2>1, <2>2 DEF Clear, RowsClear, Alike, Guarded, Judged
    <2> QED
      BY <2>2, <2>3, <2>4, PassReads
  <1>5. ASSUME ReadClosure(p) PROVE CInv'
    <2>1. q.pc = "closure" /\ UNCHANGED world
      BY <1>5 DEF ReadClosure, At
    <2>2. \A n \in q.issues \cap open : n = q.issue /\ q.mode # "prune"
      BY <1>5 DEF ReadClosure
    <2>3. \/ q.phase = "moved" /\ Goto(p, "inspect")
          \/ Enter(p, [q EXCEPT !.pc = "rows", !.phase = "recheck"])
          \/ Goto(p, "family")
      BY <1>5 DEF ReadClosure
    <2>4. ~q.pinned /\ q.dir # Main
      BY <1>0, <2>1 DEF Sane, Guarded
    <2>5. ASSUME q.phase = "moved", Goto(p, "inspect") PROVE CInv'
      <3> DEFINE w == [q EXCEPT !.pc = "inspect"]
      <3>1. Alike(q, w) /\ w.pc = "inspect" /\ w.phase = q.phase
        BY <1>0, GotoAlike
      <3>2. Sane(w, leases, dirs)
        BY <1>0, <2>4, <3>1 DEF Sane, Alike, Guarded, Judged, Moving, Asking
      <3>3. Clear(w, leases, open, place, late[p])
        BY <2>5, <3>1 DEF Clear
      <3> QED
        BY <2>1, <2>5, <3>2, <3>3, GotoEnters, PassReads
    <2>6. ASSUME Enter(p, [q EXCEPT !.pc = "rows", !.phase = "recheck"]) PROVE CInv'
      <3> DEFINE w == [q EXCEPT !.pc = "rows", !.phase = "recheck"]
      <3>1. Alike(q, w) /\ w.pc = "rows" /\ w.phase = "recheck"
        BY <1>0 DEF Alike, Fields
      <3>2. Sane(w, leases, dirs)
        BY <1>0, <2>4, <3>1 DEF Sane, Alike, Guarded, Judged, Moving, Asking
      <3>3. Clear(w, leases, open, place, late[p])
        BY <3>1 DEF Clear
      <3> QED
        BY <2>1, <2>6, <3>2, <3>3, PassReads
    <2>7. ASSUME Goto(p, "family") PROVE CInv'
      <3> DEFINE w == [q EXCEPT !.pc = "family"]
      <3>1. Alike(q, w) /\ w.pc = "family" /\ w.phase = q.phase
        BY <1>0, GotoAlike
      <3>2. Sane(w, leases, dirs)
        BY <1>0, <2>4, <3>1 DEF Sane, Alike, Guarded, Judged, Moving, Asking
      <3>3. IssuesClear(w, open, late[p])
        BY <2>2, <3>1 DEF IssuesClear, Alike
      <3>4. Clear(w, leases, open, place, late[p])
        BY <1>0, <2>1, <3>1, <3>3 DEF Clear, RowsClear, Alike, Guarded, Judged
      <3> QED
        BY <2>1, <2>7, <3>2, <3>4, GotoEnters, PassReads
    <2> QED
      BY <2>3, <2>5, <2>6, <2>7
  <1> QED
    BY <1>1, <1>2, <1>3, <1>4, <1>5

\* A family is kin, and kin have the same relatives or more.
LEMMA FamilyKin ==
    ASSUME NEW q, NEW s, Related(s, Family(q))
    PROVE  Related(s, Kin(q))
  <1>1. Family(q) \subseteq Kin(q)
    BY CleanupAssumption DEF Family, CloseRoot, Kin
  <1> QED
    BY <1>1 DEF Related

\* The family assessment.
LEMMA AssessSafe == ASSUME CInv, NEW p \in Passes, Assess(p) PROVE CInv'
  <1> DEFINE q == pass[p]
  <1>0. /\ leases \in Tables /\ Sane(q, leases, dirs) /\ DOMAIN q = Fields
        /\ Clear(q, leases, open, place, late[p])
    BY PassKnows
  <1>1. ASSUME q.pc \in Judged
        PROVE  /\ ~q.pinned /\ q.dir # Main
               /\ q.phase = "cleared" => /\ RowsClear(q, leases, late[p])
                                         /\ IssuesClear(q, open, late[p])
    BY <1>0, <1>1 DEF Sane, Clear, Guarded, Judged
  <1>2. UNCHANGED world
    BY DEF Assess, FamilyStart, LocateRoot, ListOccupants, ReadRunning, ProveLineage
  \* A step inside the assessment keeps the rows and the issues clear.
  <1>3. ASSUME NEW w, Alike(q, w), w.phase = q.phase, q.pc \in Judged,
               w.pc \in {"locate", "list", "running", "lineage"}, Enter(p, w),
               q.phase = "cleared" /\ w.pc \in {"running", "lineage"} =>
                   SessionsClear(w, w.hosted, place, late[p])
        PROVE  CInv'
    <2>1. Sane(w, leases, dirs)
      BY <1>0, <1>1, <1>3 DEF Sane, Alike, Guarded, Judged, Moving, Asking
    <2>2. Clear(w, leases, open, place, late[p])
      BY <1>1, <1>3 DEF Clear, RowsClear, IssuesClear, Alike, Guarded, Judged
    <2> QED
      BY <1>2, <1>3, <2>1, <2>2, PassReads
  <1>4. ASSUME FamilyStart(p) PROVE CInv'
    <2>1. q.pc \in Judged /\ q.pc = "family"
      BY <1>4 DEF FamilyStart, At, Judged
    <2> DEFINE w == [q EXCEPT !.pc = "locate", !.probe = Family(q), !.hosted = {}]
    <2>2. CASE q.roots = {} /\ q.mode \notin {"prune", "preview"}
      <3>1. Enter(p, Released(q))
        BY <1>4, <2>2 DEF FamilyStart
      <3>2. /\ Sane(Released(q), leases, dirs)
            /\ Clear(Released(q), leases, open, place, late[p])
        BY <1>0, <1>1, <2>1, <2>2, ReleasedKnows
      <3> QED
        BY <1>2, <3>1, <3>2, PassReads
    <2>3. CASE ~(q.roots = {} /\ q.mode \notin {"prune", "preview"})
      <3>1. Enter(p, w)
        BY <1>4, <2>3 DEF FamilyStart
      <3>2. Alike(q, w) /\ w.pc = "locate" /\ w.phase = q.phase
        BY <1>0 DEF Alike, Fields
      <3> QED
        BY <1>3, <2>1, <3>1, <3>2
    <2> QED
      BY <2>2, <2>3
  <1>5. ASSUME LocateRoot(p) PROVE CInv'
    <2>1. q.pc \in Judged
      BY <1>5 DEF LocateRoot, At, Judged
    <2>2. ASSUME Goto(p, "list") PROVE CInv'
      <3> DEFINE w == [q EXCEPT !.pc = "list"]
      <3>1. Alike(q, w) /\ w.pc = "list" /\ w.phase = q.phase
        BY <1>0, GotoAlike
      <3> QED
        BY <1>3, <2>1, <2>2, <3>1, GotoEnters
    <2>3. ASSUME NEW s \in q.probe,
                 Enter(p, [q EXCEPT
                     !.probe = @ \ {s},
                     !.hosted = IF place[s] = q.dir THEN @ \cup {s} ELSE @])
          PROVE  CInv'
      <3> DEFINE w == [q EXCEPT
                     !.probe = @ \ {s},
                     !.hosted = IF place[s] = q.dir THEN @ \cup {s} ELSE @]
      <3>1. Alike(q, w) /\ w.pc = q.pc /\ w.phase = q.phase
        BY <1>0 DEF Alike, Fields
      <3>2. w.pc = "locate"
        BY <1>5, <3>1 DEF LocateRoot, At
      <3> QED
        BY <1>3, <2>1, <2>3, <3>1, <3>2
    <2> QED
      BY <1>5, <2>2, <2>3 DEF LocateRoot
  <1>6. ASSUME ListOccupants(p) PROVE CInv'
    <2> DEFINE occupants == {s \in OpenCode : place[s] = q.dir}
               w == [q EXCEPT !.hosted = @ \cup occupants,
                              !.pc = IF q.mode = "sync" /\ ~Verify(q)
                                     THEN "lineage" ELSE "running"]
    <2>1. q.pc \in Judged /\ Enter(p, w)
      BY <1>6 DEF ListOccupants, At, Judged
    <2>2. /\ Alike(q, w) /\ w.pc \in {"lineage", "running"} /\ w.phase = q.phase
          /\ w.hosted = q.hosted \cup occupants
      BY <1>0 DEF Alike, Fields
    <2>3. SessionsClear(w, w.hosted, place, late[p])
      BY <2>2 DEF SessionsClear, Alike
    <2> QED
      BY <1>3, <2>1, <2>2, <2>3
  <1>7. ASSUME ReadRunning(p) PROVE CInv'
    <2> DEFINE w == [q EXCEPT !.pc = "lineage"]
    <2>1. q.pc = "running" /\ q.pc \in Judged /\ Enter(p, w)
      BY <1>7, GotoEnters DEF ReadRunning, At, Judged
    <2>2. /\ Alike(q, w) /\ w.pc = "lineage" /\ w.phase = q.phase
          /\ w.hosted = q.hosted
      BY <1>0, GotoAlike
    <2>3. q.phase = "cleared" => SessionsClear(w, w.hosted, place, late[p])
      BY <1>0, <2>1, <2>2 DEF Clear, SessionsClear, Alike
    <2> QED
      BY <1>3, <2>1, <2>2, <2>3
  <1>8. ASSUME ProveLineage(p) PROVE CInv'
    <2>1. q.pc = "lineage" /\ q.pc \in Judged
      BY <1>8 DEF ProveLineage, At, Judged
    <2>2. ASSUME q.hosted = {}, Enter(p, Released(q)) PROVE CInv'
      <3>1. q.phase = "cleared" => SessionsClear(q, {}, place, late[p])
        BY <1>0, <2>1, <2>2 DEF Clear
      <3>2. /\ Sane(Released(q), leases, dirs)
            /\ Clear(Released(q), leases, open, place, late[p])
        BY <1>0, <1>1, <2>1, <3>1, ReleasedKnows
      <3> QED
        BY <1>2, <2>2, <3>2, PassReads
    <2>3. ASSUME ~Verify(q), q.mode \in {"prune", "close"},
                 \A s \in q.hosted : Related(s, Family(q)),
                 Enter(p, [q EXCEPT !.pc = "move"])
          PROVE  CInv'
      <3> DEFINE w == [q EXCEPT !.pc = "move"]
      <3>1. Alike(q, w) /\ w.pc = "move" /\ w.phase = q.phase /\ w.hosted = q.hosted
        BY <1>0, GotoAlike
      <3>2. \A s \in w.hosted : Related(s, Kin(q))
        BY <2>3, <3>1, FamilyKin
      <3>3. Kin(w) = Kin(q)
        BY <3>1 DEF Kin, Alike
      <3>4. Sane(w, leases, dirs)
        BY <1>0, <1>1, <2>1, <2>3, <3>1, <3>2, <3>3
           DEF Sane, Alike, Verify, Guarded, Judged, Moving, Asking
      <3>5. Clear(w, leases, open, place, late[p])
        BY <2>3, <3>1 DEF Clear, Verify
      <3> QED
        BY <1>2, <2>3, <3>4, <3>5, PassReads
    <2> QED
      BY <1>8, <2>2, <2>3 DEF ProveLineage
  <1> QED
    BY <1>4, <1>5, <1>6, <1>7, <1>8 DEF Assess

\* The moves.  They happen before the clearance, and only kin are asked.
LEMMA ReleaseFamilySafe ==
    ASSUME CInv, NEW p \in Passes, ReleaseFamily(p) PROVE CInv'
  <1> DEFINE q == pass[p]
  <1>0. /\ leases \in Tables /\ Sane(q, leases, dirs) /\ DOMAIN q = Fields
        /\ DOMAIN late = Passes /\ Quiet(leases, leases)
    BY PassKnows, SameTable DEF CInv
  <1>1. q.pc \in Moving
    BY DEF ReleaseFamily, MoveNext, CheckIdle, RequestMove, ObserveMove, AwaitPending,
           PollPending, ProveVacant, ProveHome, ProveSettled, At, Moving, Asking
  <1>2. q.mode \in {"prune", "close"} /\ q.phase # "cleared" /\ ~q.pinned
    BY <1>0, <1>1 DEF Sane, Moving, Asking
  <1>3. /\ leases' = leases /\ dirs' = dirs /\ open' = open /\ place' = place
        /\ late' = late
    BY DEF ReleaseFamily, MoveNext, CheckIdle, RequestMove, ObserveMove, AwaitPending,
           PollPending, ProveVacant, ProveHome, ProveSettled, world, disk
  <1>4. ASSUME NEW w, Alike(q, w), w.phase = q.phase, w.pc \in Moving, Enter(p, w),
               w.pc \in Asking => \A s \in w.hosted : Related(s, Kin(q)),
               w.pc \in {"check", "request"} => \A s \in w.probe : Related(s, Kin(q))
        PROVE  CInv'
    <2>1. Kin(w) = Kin(q)
      BY <1>4 DEF Kin, Alike
    <2>2. Sane(w, leases, dirs)
      BY <1>0, <1>2, <1>4, <2>1 DEF Sane, Alike, Guarded, Judged, Moving, Asking
    <2>3. Clear(w, leases, open, place, late[p])
      BY <1>2, <1>4 DEF Clear
    <2> QED
      BY <1>0, <1>3, <1>4, <2>2, <2>3, PassMoves DEF Enter
  <1>5. ASSUME NEW pc \in Moving, Goto(p, pc),
               pc \in Asking => pc = "request" /\ q.pc = "check"
        PROVE  CInv'
    <2> DEFINE w == [q EXCEPT !.pc = pc]
    <2>1. /\ Alike(q, w) /\ w.pc = pc /\ w.phase = q.phase
          /\ w.hosted = q.hosted /\ w.probe = q.probe
      BY <1>0, GotoAlike
    <2>2. w.pc \in Asking => /\ \A s \in w.hosted : Related(s, Kin(q))
                             /\ \A s \in w.probe : Related(s, Kin(q))
      BY <1>0, <1>5, <2>1 DEF Sane, Asking
    <2>3. Enter(p, w)
      BY <1>5, GotoEnters
    <2> HIDE DEF w
    <2> QED
      BY <1>4, <1>5, <2>1, <2>2, <2>3 DEF Asking
  <1>6. ASSUME MoveNext(p) PROVE CInv'
    <2>1. \A s \in q.hosted : Related(s, Kin(q))
      BY <1>0, <1>6 DEF MoveNext, At, Sane, Asking
    <2>2. ASSUME NEW s \in q.hosted, Enter(p, [q EXCEPT !.hosted = @ \ {s}])
          PROVE  CInv'
      <3> DEFINE w == [q EXCEPT !.hosted = @ \ {s}]
      <3>1. /\ Alike(q, w) /\ w.pc = q.pc /\ w.phase = q.phase
            /\ w.hosted = q.hosted \ {s}
        BY <1>0 DEF Alike, Fields
      <3>2. w.pc = "move"
        BY <1>6, <3>1 DEF MoveNext, At
      <3> HIDE DEF w
      <3> QED
        BY <1>4, <2>1, <2>2, <3>1, <3>2 DEF w, Moving, Asking
    <2>3. ASSUME NEW s \in q.hosted,
                 Enter(p, [q EXCEPT !.hosted = @ \ {s}, !.probe = {s}, !.pc = "check"])
          PROVE  CInv'
      <3> DEFINE w == [q EXCEPT !.hosted = @ \ {s}, !.probe = {s}, !.pc = "check"]
      <3>1. /\ Alike(q, w) /\ w.pc = "check" /\ w.phase = q.phase
            /\ w.hosted = q.hosted \ {s} /\ w.probe = {s}
        BY <1>0 DEF Alike, Fields
      <3>2. Enter(p, w)
        BY <2>3
      <3> HIDE DEF w
      <3> QED
        BY <1>4, <2>1, <3>1, <3>2 DEF Moving, Asking
    <2> QED
      BY <1>5, <1>6, <2>2, <2>3 DEF MoveNext, Moving, Asking
  <1>7. ASSUME CheckIdle(p) PROVE CInv'
    BY <1>5, <1>7 DEF CheckIdle, At, Moving, Asking
  <1>8. ASSUME RequestMove(p) PROVE CInv'
    <2> DEFINE w == [q EXCEPT !.accepted = @ \cup q.probe, !.pc = "observe"]
    <2>1. Alike(q, w) /\ w.pc = "observe" /\ w.phase = q.phase /\ w.hosted = q.hosted
      BY <1>0 DEF Alike, Fields
    <2>2. Enter(p, w) /\ q.pc = "request"
      BY <1>8 DEF RequestMove, At
    <2>3. \A s \in q.hosted : Related(s, Kin(q))
      BY <1>0, <2>2 DEF Sane, Asking
    <2> HIDE DEF w
    <2> QED
      BY <1>4, <2>1, <2>2, <2>3 DEF Moving, Asking
  <1>9. ASSUME ObserveMove(p) PROVE CInv'
    <2>1. PICK s \in q.probe :
             Enter(p, [q EXCEPT !.pending = IF place[s] = Main THEN @ ELSE @ \cup {s},
                                !.probe = {}, !.pc = "move"])
      BY <1>9 DEF ObserveMove
    <2> DEFINE w == [q EXCEPT !.pending = IF place[s] = Main THEN @ ELSE @ \cup {s},
                              !.probe = {}, !.pc = "move"]
    <2>2. Alike(q, w) /\ w.pc = "move" /\ w.phase = q.phase /\ w.hosted = q.hosted
      BY <1>0 DEF Alike, Fields
    <2>3. \A x \in q.hosted : Related(x, Kin(q))
      BY <1>0, <1>9 DEF ObserveMove, At, Sane, Asking
    <2>4. Enter(p, w)
      BY <2>1
    <2> HIDE DEF w
    <2> QED
      BY <1>4, <2>2, <2>3, <2>4 DEF Moving, Asking
  <1>10. ASSUME AwaitPending(p) PROVE CInv'
    <2> DEFINE w == [q EXCEPT !.budget = @ - 1, !.probe = q.pending, !.pc = "poll"]
    <2>1. Alike(q, w) /\ w.pc = "poll" /\ w.phase = q.phase
      BY <1>0 DEF Alike, Fields
    <2>2. Enter(p, w)
      BY <1>10 DEF AwaitPending
    <2> HIDE DEF w
    <2> QED
      BY <1>4, <2>1, <2>2 DEF Moving, Asking
  <1>11. ASSUME PollPending(p) PROVE CInv'
    <2>1. ASSUME NEW s \in q.probe,
                 Enter(p, [q EXCEPT
                     !.probe = @ \ {s},
                     !.pending = IF place[s] = Main THEN @ \ {s} ELSE @])
          PROVE  CInv'
      <3> DEFINE w == [q EXCEPT
                     !.probe = @ \ {s},
                     !.pending = IF place[s] = Main THEN @ \ {s} ELSE @]
      <3>1. Alike(q, w) /\ w.pc = q.pc /\ w.phase = q.phase
        BY <1>0 DEF Alike, Fields
      <3>2. w.pc = "poll"
        BY <1>11, <3>1 DEF PollPending, At
      <3>3. Enter(p, w)
        BY <2>1
      <3> HIDE DEF w
      <3> QED
        BY <1>4, <3>1, <3>2, <3>3 DEF Moving, Asking
    <2> QED
      BY <1>5, <1>11, <2>1 DEF PollPending, Moving, Asking
  <1>12. ASSUME ProveVacant(p) PROVE CInv'
    <2> DEFINE w == [q EXCEPT !.probe = Family(q), !.pc = "homes"]
    <2>1. Alike(q, w) /\ w.pc = "homes" /\ w.phase = q.phase
      BY <1>0 DEF Alike, Fields
    <2>2. Enter(p, w)
      BY <1>12 DEF ProveVacant
    <2> HIDE DEF w
    <2> QED
      BY <1>4, <2>1, <2>2 DEF Moving, Asking
  <1>13. ASSUME ProveHome(p) PROVE CInv'
    <2>1. ASSUME NEW s \in q.probe, Enter(p, [q EXCEPT !.probe = @ \ {s}])
          PROVE  CInv'
      <3> DEFINE w == [q EXCEPT !.probe = @ \ {s}]
      <3>1. Alike(q, w) /\ w.pc = q.pc /\ w.phase = q.phase
        BY <1>0 DEF Alike, Fields
      <3>2. w.pc = "homes"
        BY <1>13, <3>1 DEF ProveHome, At
      <3>3. Enter(p, w)
        BY <2>1
      <3> HIDE DEF w
      <3> QED
        BY <1>4, <3>1, <3>2, <3>3 DEF Moving, Asking
    <2> QED
      BY <1>5, <1>13, <2>1 DEF ProveHome, Moving, Asking
  <1>14. ASSUME ProveSettled(p) PROVE CInv'
    <2> DEFINE v == [q EXCEPT !.accepted = {}]
    <2>1. /\ Alike(q, v) /\ v.pc = q.pc /\ v.phase = q.phase
          /\ v.hosted = q.hosted /\ v.probe = q.probe
      BY <1>0 DEF Alike, Fields
    <2>2. q.pc = "settled" /\ Enter(p, Released(v))
      BY <1>14 DEF ProveSettled, At
    <2>3. Sane(v, leases, dirs)
      BY <1>0, <2>1 DEF Sane, Alike, Kin
    <2>4. ~v.pinned /\ v.phase # "cleared" /\ v.mode # "report"
      BY <1>2, <2>1 DEF Alike
    <2> HIDE DEF v
    <2>5. /\ Sane(Released(v), leases, dirs)
          /\ Clear(Released(v), leases, open, place, late[p])
      BY <2>3, <2>4, ReleasedKnows
    <2> QED
      BY <1>0, <1>3, <2>2, <2>5, PassMoves DEF Enter
  <1> QED
    BY <1>6, <1>7, <1>8, <1>9, <1>10, <1>11, <1>12, <1>13, <1>14 DEF ReleaseFamily

\* The clearance, the removal and the release of the rows.
LEMMA RemoveSafe == ASSUME CInv, NEW p \in Passes, Remove(p) PROVE CInv'
  <1> DEFINE q == pass[p]
  <1>0. /\ leases \in Tables /\ Sane(q, leases, dirs) /\ DOMAIN q = Fields
        /\ DOMAIN late = Passes /\ Quiet(leases, leases) /\ MaxClock \in Times
    BY PassKnows, SameTable, LeaseStoreAssumption DEF CInv, Times
  <1>1. ASSUME InspectCache(p) PROVE CInv'
    <2> DEFINE w == [q EXCEPT !.pc = "clear"]
    <2>1. Alike(q, w) /\ w.pc = "clear" /\ w.phase = q.phase
      BY <1>0, GotoAlike
    <2>2. q.pc = "inspect" /\ Enter(p, w) /\ UNCHANGED world
      BY <1>1, GotoEnters DEF InspectCache, At
    <2>3. Sane(w, leases, dirs)
      BY <1>0, <2>1, <2>2 DEF Sane, Alike, Guarded, Judged, Moving, Asking
    <2>4. Clear(w, leases, open, place, late[p])
      BY <2>1 DEF Clear, Guarded, Judged
    <2> QED
      BY <2>2, <2>3, <2>4, PassReads
  <1>2. ASSUME ClearCache(p) PROVE CInv'
    <2> DEFINE w == [q EXCEPT !.pc = "rows", !.phase = "cleared"]
    <2>1. Alike(q, w) /\ w.pc = "rows" /\ w.phase = "cleared"
      BY <1>0 DEF Alike, Fields
    <2>2. q.pc = "clear"
      BY <1>2 DEF ClearCache, At
    <2>3. Sane(w, leases, dirs)
      BY <1>0, <2>1, <2>2 DEF Sane, Alike, Guarded, Judged, Moving, Asking
    <2>4. Clear(w, leases, open, place, late'[p])
      BY <2>1 DEF Clear, Guarded, Judged
    <2>5. Enter(p, w) \/ Enter(p, Idle)
      BY <1>2 DEF ClearCache, Keep
    <2>6. /\ leases' = leases /\ dirs' = dirs /\ open' = open /\ place' = place
          /\ late' = [late EXCEPT ![p] = {}]
      BY <1>2 DEF ClearCache, host
    <2>7. DOMAIN late' = Passes /\ \A o \in Passes \ {p} : late'[o] = late[o]
      BY <1>0, <2>6
    <2>8. Sane(Idle, leases, dirs) /\ Clear(Idle, leases, open, place, late'[p])
      BY IdleClaims
    <2> HIDE DEF w
    <2> QED
      BY <1>0, <2>3, <2>4, <2>5, <2>6, <2>7, <2>8, PassMoves DEF Enter
  <1>3. ASSUME RemoveWorktree(p) PROVE CInv'
    <2> DEFINE w == [q EXCEPT !.pc = "flip"]
    <2>1. Alike(q, w) /\ w.pc = "flip" /\ w.phase = q.phase
      BY <1>0, GotoAlike
    <2>2. q.pc = "remove" /\ dirs' = dirs \ {q.dir}
      BY <1>3 DEF RemoveWorktree, At
    <2>3. /\ leases' = leases /\ open' = open /\ place' = place /\ late' = late
      BY <1>3 DEF RemoveWorktree, host
    <2>4. q.mode = "prune" => Sane(w, leases, dirs')
      BY <1>0, <2>1, <2>2 DEF Sane, Alike, Guarded, Judged, Moving, Asking
    <2>5. Clear(w, leases, open, place, late[p])
      BY <2>1 DEF Clear, Guarded, Judged
    <2>6. Sane(Idle, leases, dirs') /\ Clear(Idle, leases, open, place, late[p])
      BY IdleClaims
    <2>7. \/ q.mode = "prune" /\ Enter(p, w)
          \/ Enter(p, Idle)
      BY <1>3, GotoEnters DEF RemoveWorktree, Keep
    <2> HIDE DEF w
    <2> QED
      BY <1>0, <2>2, <2>3, <2>4, <2>5, <2>6, <2>7, PassMoves DEF Enter
  <1>4. ASSUME FlipRow(p) PROVE CInv'
    <2>1. /\ dirs' = dirs /\ open' = open /\ place' = place /\ late' = late
          /\ q.pc = "flip"
      BY <1>4 DEF FlipRow, disk, host, At
    <2>2. ASSUME Keep(p), UNCHANGED leases PROVE CInv'
      <3>1. Sane(Idle, leases, dirs) /\ Clear(Idle, leases, open, place, late[p])
        BY IdleClaims
      <3> QED
        BY <1>0, <2>1, <2>2, <3>1, PassMoves DEF Keep, Enter
    <2>3. ASSUME NEW i \in q.ids,
                 leases' = UpdateStatus(leases, i, "released", MaxClock),
                 Enter(p, [q EXCEPT !.ids = @ \ {i}])
          PROVE  CInv'
      <3> DEFINE w == [q EXCEPT !.ids = @ \ {i}]
      <3>1. /\ DOMAIN w = Fields /\ w.pc = "flip" /\ w.mode = q.mode /\ w.dir = q.dir
            /\ w.roots = q.roots /\ w.pinned = q.pinned /\ w.ids = q.ids \ {i}
        BY <1>0, <2>1 DEF Fields
      <3>2. i \in Stored(leases)
        BY <1>0, <2>1 DEF Sane, GroupOf
      <3>3. leases' \in Tables /\ Quiet(leases, leases')
        BY <1>0, <2>3, <3>2, UpdateTable DEF Terminal
      <3>4. Sane(q, leases', dirs')
        BY <1>0, <2>1, <3>3, QuietGrows, SaneLasts
      <3>5. Sane(w, leases', dirs')
        BY <2>1, <3>1, <3>4 DEF Sane, Guarded, Judged, Moving, Asking
      <3>6. Clear(w, leases', open', place', late'[p])
        BY <3>1 DEF Clear, Guarded, Judged
      <3>7. pass' = [pass EXCEPT ![p] = w]
        BY <2>3 DEF Enter
      <3> HIDE DEF w
      <3> QED
        BY <1>0, <2>1, <3>3, <3>5, <3>6, <3>7, PassMoves
    <2> QED
      BY <1>4, <2>2, <2>3 DEF FlipRow
  <1> QED
    BY <1>1, <1>2, <1>3, <1>4 DEF Remove

\* What the rest of the world does is recorded for the passes it may concern.
LEMMA WorldMoves ==
    ASSUME CInv, pass' = pass, leases' \in Tables, Grows(leases, leases'),
           dirs' = dirs, DOMAIN place' = OpenCode, DOMAIN late' = Passes,
           \A p \in Passes : pass[p].phase = "cleared" =>
               Recorded(leases, leases', open, open', place, place', late[p], late'[p])
    PROVE  CInv'
  <1>1. ASSUME NEW p \in Passes
        PROVE  /\ Sane(pass[p], leases', dirs')
               /\ Clear(pass[p], leases', open', place', late'[p])
    <2>1. /\ leases \in Tables /\ Sane(pass[p], leases, dirs)
          /\ Clear(pass[p], leases, open, place, late[p])
      BY PassKnows
    <2>2. Sane(pass[p], leases', dirs')
      BY <2>1, SaneLasts
    <2>3. Clear(pass[p], leases', open', place', late'[p])
      BY <2>1, ClearLasts
    <2> QED
      BY <2>2, <2>3
  <1> QED
    BY <1>1 DEF CInv

\* Appears does record.
LEMMA AppearsRecords ==
    ASSUME NEW facts, Appears(facts)
    PROVE  /\ DOMAIN late' = Passes
           /\ \A p \in Passes : pass[p].phase = "cleared" =>
                  late'[p] = late[p] \cup facts
  BY DEF Appears

LEMMA WorldSafe == ASSUME CInv, World PROVE CInv'
  <1>0. /\ leases \in Tables /\ DOMAIN late = Passes /\ DOMAIN place = OpenCode
        /\ Quiet(leases, leases) /\ MaxClock \in Times
    BY SameTable, LeaseStoreAssumption DEF CInv, Times
  \* A quiet step that only closes issues needs no record.
  <1>1. ASSUME pass' = pass, leases' \in Tables, Quiet(leases, leases'), dirs' = dirs,
               late' = late, open' \subseteq open, DOMAIN place' = OpenCode,
               \A s \in OpenCode : place'[s] = place[s] \/ place'[s] = Main
        PROVE  CInv'
    <2>1. Grows(leases, leases')
      BY <1>0, <1>1, QuietGrows
    <2>2. ASSUME NEW p \in Passes
          PROVE  Recorded(leases, leases', open, open', place, place', late[p], late'[p])
      <3>1. Announced(leases, leases', late'[p])
        BY <1>0, <1>1, QuietGrows
      <3> QED
        BY <1>1, <3>1 DEF Recorded
    <2> QED
      BY <1>0, <1>1, <2>1, <2>2, WorldMoves
  <1>2. ASSUME LeaseTaken PROVE CInv'
    <2>1. PICK i \in LeaseIds, issue \in Issues, session \in Sessions, d \in dirs,
               scope \in Scopes \cup {NoScope} :
             LET row == [issue |-> issue, session |-> session, path |-> d,
                         scope |-> scope, status |-> "active",
                         heartbeat |-> MaxClock, reason |-> "null"]
             IN  /\ NextId(leases, i)
                 /\ leases' = Insert(leases, i, row)
                 /\ Appears({<<"lease", i>>, <<"issue", issue>>})
      BY <1>2 DEF LeaseTaken
    <2> DEFINE row == [issue |-> issue, session |-> session, path |-> d,
                       scope |-> scope, status |-> "active",
                       heartbeat |-> MaxClock, reason |-> "null"]
               facts == {<<"lease", i>>, <<"issue", issue>>}
    <2>2. leases[i] = NoLease /\ leases' = [leases EXCEPT ![i] = row]
      BY <2>1 DEF NextId, Insert
    <2>3. d \in Paths
      BY DEF CInv
    <2>4. row \in Lease
      BY <1>0, <2>3 DEF Lease, Reasons
    <2>5. leases' \in Tables
      BY <1>0, <2>1, <2>4, InsertTable
    <2>6. DOMAIN leases = LeaseIds /\ row.issue = issue /\ row # NoLease
      BY <1>0, <2>4 DEF Tables, Lease, NoLease, Terminal
    <2> HIDE DEF row
    <2>7. Grows(leases, leases')
      BY <2>2, <2>6 DEF Grows
    <2>8. /\ pass' = pass /\ dirs' = dirs /\ open' = open /\ place' = place
      BY <1>2 DEF LeaseTaken, disk, host
    <2>9. ASSUME NEW p \in Passes, pass[p].phase = "cleared"
          PROVE  Recorded(leases, leases', open, open', place, place', late[p], late'[p])
      <3>1. late'[p] = late[p] \cup facts
        BY <2>1, <2>9, AppearsRecords
      <3>2. Announced(leases, leases', late'[p])
        BY <2>2, <2>6, <3>1 DEF Announced
      <3> QED
        BY <2>8, <3>1, <3>2 DEF Recorded
    <2>10. DOMAIN late' = Passes
      BY <2>1, AppearsRecords
    <2> QED
      BY <1>0, <2>5, <2>7, <2>8, <2>9, <2>10, WorldMoves
  <1>3. ASSUME LeaseEnds PROVE CInv'
    <2>1. PICK i \in Active(leases) :
             leases' = UpdateStatus(leases, i, "retained", MaxClock)
      BY <1>3 DEF LeaseEnds
    <2>2. i \in Stored(leases)
      BY <1>0, ActiveStored
    <2>3. leases' \in Tables /\ Quiet(leases, leases')
      BY <1>0, <2>1, <2>2, UpdateTable DEF Terminal
    <2> QED
      BY <1>0, <1>1, <1>3, <2>3 DEF LeaseEnds, disk, host
  <1>4. ASSUME IssueCloses PROVE CInv'
    BY <1>0, <1>1, <1>4 DEF IssueCloses, disk, host
  <1>5. ASSUME IssueReopens PROVE CInv'
    <2>1. PICK issue \in Issues :
             open' = open \cup {issue} /\ Appears({<<"issue", issue>>})
      BY <1>5 DEF IssueReopens
    <2>2. /\ pass' = pass /\ dirs' = dirs /\ leases' = leases /\ place' = place
      BY <1>5 DEF IssueReopens, disk, host
    <2>3. ASSUME NEW p \in Passes, pass[p].phase = "cleared"
          PROVE  Recorded(leases, leases', open, open', place, place', late[p], late'[p])
      <3>1. late'[p] = late[p] \cup {<<"issue", issue>>}
        BY <2>1, <2>3, AppearsRecords
      <3>2. Announced(leases, leases', late'[p])
        BY <1>0, <2>2, QuietGrows
      <3> QED
        BY <2>1, <2>2, <3>1, <3>2 DEF Recorded
    <2>4. Grows(leases, leases') /\ DOMAIN late' = Passes
      BY <1>0, <2>1, <2>2, QuietGrows, AppearsRecords
    <2> QED
      BY <1>0, <2>2, <2>3, <2>4, WorldMoves
  <1>6. ASSUME FilesChange PROVE CInv'
    BY <1>0, <1>1, <1>6 DEF FilesChange, host
  <1>7. ASSUME SessionMoves PROVE CInv'
    <2>1. PICK s \in OpenCode, d \in dirs :
             place' = [place EXCEPT ![s] = d] /\ Appears({<<"session", s>>})
      BY <1>7 DEF SessionMoves
    <2>2. /\ pass' = pass /\ dirs' = dirs /\ leases' = leases /\ open' = open
      BY <1>7 DEF SessionMoves, disk
    <2>3. ASSUME NEW p \in Passes, pass[p].phase = "cleared"
          PROVE  Recorded(leases, leases', open, open', place, place', late[p], late'[p])
      <3>1. late'[p] = late[p] \cup {<<"session", s>>}
        BY <2>1, <2>3, AppearsRecords
      <3>2. Announced(leases, leases', late'[p])
        BY <1>0, <2>2, QuietGrows
      <3> QED
        BY <1>0, <2>1, <2>2, <3>1, <3>2 DEF Recorded
    <2>4. Grows(leases, leases') /\ DOMAIN late' = Passes /\ DOMAIN place' = OpenCode
      BY <1>0, <2>1, <2>2, QuietGrows, AppearsRecords
    <2> QED
      BY <1>0, <2>2, <2>3, <2>4, WorldMoves
  <1>8. ASSUME SessionRuns PROVE CInv'
    BY <1>0, <1>1, <1>8 DEF SessionRuns, disk
  <1>9. ASSUME MoveDelivered PROVE CInv'
    <2>1. PICK s \in inflight : place' = [place EXCEPT ![s] = Main]
      BY <1>9 DEF MoveDelivered
    <2>2. /\ DOMAIN place' = OpenCode
          /\ \A x \in OpenCode : place'[x] = place[x] \/ place'[x] = Main
      BY <1>0, <2>1
    <2> QED
      BY <1>0, <1>1, <1>9, <2>2 DEF MoveDelivered, disk
  <1> QED
    BY <1>2, <1>3, <1>4, <1>5, <1>6, <1>7, <1>8, <1>9 DEF World

(***************************************************************************)
(* The theorems.                                                           *)
(***************************************************************************)

LEMMA InitSafe == Init => CInv
  <1> SUFFICES ASSUME Init PROVE CInv
    OBVIOUS
  <1>1. leases \in Tables
    BY EmptyIsTable DEF Init
  <1>2. ASSUME NEW p \in Passes
        PROVE  /\ Sane(pass[p], leases, dirs)
               /\ Clear(pass[p], leases, open, place, late[p])
    BY IdleClaims DEF Init
  <1> QED
    BY <1>1, <1>2 DEF Init, CInv

LEMMA StepSafe == CInv /\ [Next]_vars => CInv'
  <1> SUFFICES ASSUME CInv, [Next]_vars PROVE CInv'
    OBVIOUS
  <1>1. CASE UNCHANGED vars
    BY <1>1 DEF vars, CInv
  <1>2. ASSUME NEW p \in Passes, PassStep(p) PROVE CInv'
    <2>1. CASE Guards(p)
      BY <2>1, LedgerStepSafe, GuardSafe DEF Guards
    <2>2. CASE PassKeeps(p)
      BY <2>2, KeepSafe DEF PassKeeps
    <2> QED
      BY <1>2, <2>1, <2>2, AssessSafe, ReleaseFamilySafe, RemoveSafe DEF PassStep
  <1> QED
    BY <1>1, <1>2, StartSafe, WorldSafe DEF Next

\* Every behaviour keeps what the passes know true and what they have not
\* seen recorded as late.
THEOREM EvidenceKept == Spec => []CInv
  BY InitSafe, StepSafe, PTL DEF Spec

\* git worktree remove never runs over a lease, an open issue or a hosted
\* session that was there when the guards ran after the cache clearance.
THEOREM RemovalIsFresh == Spec => RemovalEvidenceFresh
  <1>1. ASSUME CInv, NEW p \in Passes, RemovedBy(p), pass[p].mode # "report"
        PROVE  Blockers(p) \subseteq late[p]
    <2> DEFINE q == pass[p]
    <2>1. q.pc = "remove"
      BY <1>1 DEF RemovedBy, At
    <2>2. /\ Sane(q, leases, dirs) /\ Clear(q, leases, open, place, late[p])
          /\ leases \in Tables /\ DOMAIN place = OpenCode
      BY <1>1, PassKnows DEF CInv
    <2>3. q.phase = "cleared"
      BY <1>1, <2>1, <2>2 DEF Sane
    <2>4. /\ RowsClear(q, leases, late[p]) /\ IssuesClear(q, open, late[p])
          /\ q.mode = "prune" \/ q.roots # {} => SessionsClear(q, {}, place, late[p])
      BY <2>1, <2>2, <2>3 DEF Clear, Guarded, Judged
    <2>5. \A i \in ActiveOnPath(leases, q.dir) :
             leases[i].session # q.closer => <<"lease", i>> \in late[p]
      BY <2>4 DEF RowsClear
    <2>6. \A n \in IssuesOn(leases, q.dir) \cap open :
             <<"issue", n>> \in late[p] \/ (n = q.issue /\ q.mode # "prune")
      <3> TAKE n \in IssuesOn(leases, q.dir) \cap open
      <3>1. PICK i \in GroupOf(leases, q.dir) : n = leases[i].issue
        BY DEF IssuesOn
      <3>2. n \in q.issues \/ <<"issue", n>> \in late[p]
        BY <2>4, <3>1 DEF RowsClear
      <3> QED
        BY <2>4, <3>2 DEF IssuesClear
    <2>7. \A s \in DOMAIN place :
             place[s] = q.dir /\ (q.mode = "prune" \/ q.roots # {}) =>
                 <<"session", s>> \in late[p]
      BY <2>2, <2>4 DEF SessionsClear
    <2> QED
      BY <2>5, <2>6, <2>7 DEF Blockers
  <1>2. CInv => [\A p \in Passes : RemovedBy(p) /\ pass[p].mode # "report" =>
                                      Blockers(p) \subseteq late[p]]_vars
    BY <1>1
  <1> QED
    BY EvidenceKept, <1>2, PTL DEF RemovalEvidenceFresh

\* prune never removes a directory that was active when it started, not even
\* when its own --release-stale ended the lease.
THEOREM PinnedStays == Spec => PinnedNotRemoved
  <1>1. CInv => [\A p \in Passes : RemovedBy(p) => ~pass[p].pinned]_vars
    <2> SUFFICES ASSUME CInv, NEW p \in Passes, RemovedBy(p) PROVE ~pass[p].pinned
      OBVIOUS
    <2>1. Sane(pass[p], leases, dirs) /\ pass[p].pc = "remove"
      BY PassKnows DEF RemovedBy, At
    <2> QED
      BY <2>1 DEF Sane
  <1> QED
    BY EvidenceKept, <1>1, PTL DEF PinnedNotRemoved

\* Only sessions that descend from a session with a lease on the directory,
\* or from the closing one, are asked to move.
THEOREM OnlyKinMoves == Spec => OnlyFamilyMoved
  <1>1. ASSUME CInv, Next, NEW s \in inflight' \ inflight
        PROVE  \E p \in Passes :
                  /\ pass[p].mode \in {"prune", "close"}
                  /\ Related(s, RootsOn(leases, pass[p].dir)
                                \cup ({pass[p].closer} \ {NoSession}))
    <2>1. PICK p \in Passes : RequestMove(p)
      <3>1. ASSUME World PROVE FALSE
        BY <1>1, <3>1 DEF World, LeaseTaken, LeaseEnds, IssueCloses, IssueReopens,
              FilesChange, SessionMoves, SessionRuns, MoveDelivered, host
      <3>2. ASSUME NEW p \in Passes, Start(p) \/ Guards(p) \/ Assess(p) \/ Remove(p)
                                     \/ PassKeeps(p)
            PROVE  FALSE
        BY <1>1, <3>2 DEF Start, PruneStart, CloseStart, SyncStart, Guards,
              PruneRecover, SyncAgain, SyncConfirm, RetainClosed, LoadCandidate,
              ReadRows, ReadGit, ReadActive, ReadClosure, Assess, FamilyStart,
              LocateRoot, ListOccupants, ReadRunning, ProveLineage, Remove,
              InspectCache, ClearCache, RemoveWorktree, FlipRow, PassKeeps, world, host
      <3>3. ASSUME NEW p \in Passes, ReleaseFamily(p) PROVE RequestMove(p)
        BY <1>1, <3>3 DEF ReleaseFamily, MoveNext, CheckIdle, ObserveMove,
              AwaitPending, PollPending, ProveVacant, ProveHome, ProveSettled, world
      <3> QED
        BY <1>1, <3>1, <3>2, <3>3 DEF Next, PassStep
    <2> DEFINE q == pass[p]
    <2>2. s \in q.probe /\ q.pc = "request"
      BY <1>1, <2>1 DEF RequestMove, At
    <2>3. Sane(q, leases, dirs)
      BY <1>1, PassKnows
    <2>4. q.mode \in {"prune", "close"} /\ Related(s, Kin(q))
      BY <2>2, <2>3 DEF Sane, Moving, Asking
    <2>5. Kin(q) \subseteq RootsOn(leases, q.dir) \cup ({q.closer} \ {NoSession})
      BY <2>3 DEF Sane, Kin
    <2> QED
      BY <2>4, <2>5 DEF Related
  <1>2. CInv /\ [Next]_vars =>
           [\A s \in inflight' \ inflight :
               \E p \in Passes :
                  /\ pass[p].mode \in {"prune", "close"}
                  /\ Related(s, RootsOn(leases, pass[p].dir)
                                \cup ({pass[p].closer} \ {NoSession}))]_vars
    BY <1>1 DEF vars
  <1> QED
    BY EvidenceKept, <1>2, PTL DEF Spec, OnlyFamilyMoved

\* The rows of a directory are released only once it is gone.
THEOREM RowsOutliveTrees == Spec => ReleasedAfterRemoval
  <1> DEFINE Late(i) == leases'[i].status = "released" /\ leases[i].status # "released"
                           => leases[i].path \notin dirs
  <1>1. ASSUME CInv, Next, NEW i \in LeaseIds, leases'[i].status = "released",
               leases[i].status # "released"
        PROVE  leases[i].path \notin dirs
    <2>0. leases \in Tables /\ leases' # leases
      BY <1>1 DEF CInv
    <2>1. ASSUME NEW ids, NEW now, NEW why, leases' = Flip(leases, ids, "retained", now, why)
          PROVE  FALSE
      <3>1. leases'[i] = leases[i] \/
            leases'[i] = [leases[i] EXCEPT !.status = "retained", !.heartbeat = now,
                                           !.reason = why]
        BY <2>1 DEF Flip
      <3>2. leases[i] \in Lease \cup {NoLease}
        BY <2>0 DEF Tables
      <3> QED
        BY <1>1, <3>1, <3>2 DEF Lease, NoLease
    <2>2. ASSUME NEW p \in Passes, PruneRecover(p) PROVE FALSE
      BY <2>1, <2>2 DEF PruneRecover, RecoverStale
    <2>3. ASSUME NEW p \in Passes, RetainClosed(p) PROVE FALSE
      BY <2>0, <2>1, <2>3 DEF RetainClosed, RetainIssue, RetainScopeIds
    <2>4. ASSUME LeaseTaken PROVE FALSE
      <3>1. PICK j \in LeaseIds : \E row :
               row.status = "active" /\ leases' = [leases EXCEPT ![j] = row]
        BY <2>4 DEF LeaseTaken, Insert
      <3> QED
        BY <1>1, <2>0, <3>1 DEF Tables
    <2>5. ASSUME LeaseEnds PROVE FALSE
      <3>1. PICK j \in Active(leases) :
               leases' = UpdateStatus(leases, j, "retained", MaxClock)
        BY <2>5 DEF LeaseEnds
      <3>2. j \in Stored(leases) /\ MaxClock \in Times
        BY <2>0, ActiveStored, LeaseStoreAssumption DEF Times
      <3>3. leases'[j].status = "retained"
        BY <2>0, <3>1, <3>2, UpdateTable DEF Terminal
      <3>4. i # j => leases'[i] = leases[i]
        BY <3>1, <2>0 DEF UpdateStatus, Tables
      <3> QED
        BY <1>1, <3>3, <3>4
    <2>6. ASSUME NEW p \in Passes, FlipRow(p) PROVE leases[i].path \notin dirs
      <3>1. PICK j \in pass[p].ids :
               leases' = UpdateStatus(leases, j, "released", MaxClock)
        BY <2>0, <2>6 DEF FlipRow
      <3>2. i # j => leases'[i] = leases[i]
        BY <3>1, <2>0 DEF UpdateStatus, Tables
      <3>3. i \in pass[p].ids
        BY <1>1, <3>1, <3>2
      <3>4. Sane(pass[p], leases, dirs) /\ pass[p].pc = "flip"
        BY <1>1, <2>6, PassKnows DEF FlipRow, At
      <3> QED
        BY <3>3, <3>4 DEF Sane, GroupOf
    <2>7. \/ LeaseTaken \/ LeaseEnds
          \/ \E p \in Passes : PruneRecover(p) \/ RetainClosed(p) \/ FlipRow(p)
      <3>1. ASSUME World PROVE LeaseTaken \/ LeaseEnds
        BY <2>0, <3>1 DEF World, IssueCloses, IssueReopens, FilesChange, SessionMoves,
              SessionRuns, MoveDelivered
      <3>2. ASSUME NEW p \in Passes, Start(p) \/ PassStep(p)
            PROVE  PruneRecover(p) \/ RetainClosed(p) \/ FlipRow(p)
        BY <2>0, <3>2 DEF Start, PruneStart, CloseStart, SyncStart, PassStep, Guards,
              SyncAgain, SyncConfirm, LoadCandidate, ReadRows, ReadGit, ReadActive,
              ReadClosure, Assess, FamilyStart, LocateRoot, ListOccupants, ReadRunning,
              ProveLineage, ReleaseFamily, MoveNext, CheckIdle, RequestMove,
              ObserveMove, AwaitPending, PollPending, ProveVacant, ProveHome,
              ProveSettled, Remove, InspectCache, ClearCache, RemoveWorktree,
              PassKeeps, world
      <3> QED
        BY <1>1, <3>1, <3>2 DEF Next
    <2> QED
      BY <2>2, <2>3, <2>4, <2>5, <2>6, <2>7
  <1>2. CInv /\ [Next]_vars => [\A i \in LeaseIds : Late(i)]_vars
    BY <1>1 DEF vars
  <1> QED
    BY EvidenceKept, <1>2, PTL DEF Spec, ReleasedAfterRemoval

-----------------------------------------------------------------------------
(* Types: every pass record a step builds is one, CInv gives the table and *)
(* the directories theirs.                                                 *)

\* A pass record stays one whatever step it goes to.
LEMMA GotoTyped ==
    ASSUME NEW q \in PassRecords, NEW pc \in Steps
    PROVE  [q EXCEPT !.pc = pc] \in PassRecords
  BY DEF PassRecords

LEMMA EnterTyped ==
    ASSUME pass \in [Passes -> PassRecords], NEW p \in Passes,
           NEW q \in PassRecords, Enter(p, q)
    PROVE  pass' \in [Passes -> PassRecords]
  BY DEF Enter

LEMMA FreshTyped ==
    ASSUME NEW mode \in CleanupModes, NEW dir \in Paths, NEW issue \in Issues,
           NEW closer \in Sessions \cup {NoSession},
           NEW scope \in Scopes \cup {NoScope}, NEW legacy \in BOOLEAN,
           NEW project \in Projects \cup {NoScope}
    PROVE  Fresh(mode, dir, issue, closer, scope, legacy, project) \in PassRecords
  BY CleanupAssumption DEF Fresh, PassRecords, Steps, Phases, Contents

LEMMA IdleTyped == Idle \in PassRecords /\ Idle.issue \in Issues
  <1> DEFINE i == CHOOSE x \in Issues : TRUE
  <1>1. i \in Issues
    BY CleanupAssumption
  <1>2. Fresh("prune", Main, i, NoSession, NoScope, FALSE, NoScope) \in PassRecords
    BY <1>1, FreshTyped, CleanupAssumption DEF CleanupModes
  <1>3. Idle.issue = i
    BY DEF Idle, Fresh
  <1> QED
    BY <1>1, <1>2, <1>3 DEF Idle

LEMMA WithRowsTyped ==
    ASSUME NEW t \in Tables, NEW q \in PassRecords
    PROVE  WithRows(t, q) \in PassRecords
  <1>1. GroupOf(t, q.dir) \subseteq LeaseIds
    BY DEF GroupOf, Stored
  <1>2. IssuesOn(t, q.dir) \subseteq Issues
    BY StoredIsLease DEF IssuesOn, GroupOf, Lease
  <1>3. RootsOn(t, q.dir) \subseteq OpenCode
    BY DEF RootsOn
  <1> DEFINE ids == IF q.phase = "scan" THEN GroupOf(t, q.dir) ELSE q.ids
  <1>4. ids \subseteq LeaseIds
    BY <1>1 DEF PassRecords
  <1> HIDE DEF ids
  <1>5. [q EXCEPT !.pc = "git", !.issues = IssuesOn(t, q.dir),
                  !.roots = RootsOn(t, q.dir), !.ids = ids] \in PassRecords
    BY <1>2, <1>3, <1>4 DEF PassRecords, Steps
  <1> QED
    BY <1>5 DEF WithRows, ids

LEMMA ReleasedTyped ==
    ASSUME NEW q \in PassRecords PROVE Released(q) \in PassRecords
  <1>1. [q EXCEPT !.pc = "remove"] \in PassRecords
    BY GotoTyped DEF Steps
  <1>2. [q EXCEPT !.pc = "rows", !.phase = "moved"] \in PassRecords
    BY DEF PassRecords, Steps, Phases
  <1>3. [q EXCEPT !.pc = "inspect"] \in PassRecords
    BY GotoTyped DEF Steps
  <1> QED
    BY <1>1, <1>2, <1>3, IdleTyped DEF Released

LEMMA FamilyTyped ==
    ASSUME NEW q \in PassRecords PROVE Family(q) \subseteq OpenCode
  BY DEF Family, CloseRoot, PassRecords

LEMMA KeepTyped ==
    ASSUME pass \in [Passes -> PassRecords], NEW p \in Passes, Keep(p)
    PROVE  pass' \in [Passes -> PassRecords]
  BY EnterTyped, IdleTyped DEF Keep

LEMMA GoesTyped ==
    ASSUME pass \in [Passes -> PassRecords], NEW p \in Passes,
           NEW pc \in Steps, Goto(p, pc)
    PROVE  pass' \in [Passes -> PassRecords]
  BY EnterTyped, GotoTyped, GotoEnters

\* The evidence of a scoped group names issues and leases.
LEMMA ScopeTyped ==
    ASSUME NEW t \in Tables, NEW scope
    PROVE  ScopeIssues(t, scope) \subseteq Issues /\ ScopeActive(t, scope) \subseteq LeaseIds
  BY StoredIsLease, ActiveStored
     DEF ScopeIssues, ScopeActive, IssuesOn, GroupOf, Lease

LEMMA StartTyped ==
    ASSUME CInv', TypeOK, NEW p \in Passes, Start(p)
    PROVE  TypeOK'
  <1>1. leases' \in Tables /\ dirs' \subseteq Paths
    BY DEF CInv
  <1>2. CASE PruneStart(p)
    <2>1. PICK mode \in Modes \cap {"prune", "preview"}, d \in Paths,
               legacy \in BOOLEAN, project \in Projects :
             LET q == [Fresh(mode, d, Idle.issue, NoSession, NoScope, legacy, project)
                          EXCEPT !.pinned = ActiveOnPath(leases, d) # {},
                                 !.budget = PollBudget]
             IN  \/ RowsAllow(leases, q) /\ Enter(p, WithRows(leases, q))
                 \/ Enter(p, [q EXCEPT !.pc = "recover"])
      BY <1>2, ZenonT(30) DEF PruneStart
    <2> DEFINE f == Fresh(mode, d, Idle.issue, NoSession, NoScope, legacy, project)
               q == [f EXCEPT !.pinned = ActiveOnPath(leases, d) # {},
                              !.budget = PollBudget]
    <2>2. f \in PassRecords
      BY FreshTyped, IdleTyped, CleanupAssumption
    <2>3. (ActiveOnPath(leases, d) # {}) \in BOOLEAN /\ PollBudget \in 0..PollBudget
      BY CleanupAssumption
    <2>4. q \in PassRecords
      <3> HIDE DEF f
      <3> QED
        BY <2>2, <2>3 DEF PassRecords
    <2>5. pass' \in [Passes -> PassRecords]
      <3> HIDE DEF q
      <3>1. WithRows(leases, q) \in PassRecords
        BY <2>4, WithRowsTyped DEF TypeOK
      <3>2. [q EXCEPT !.pc = "recover"] \in PassRecords
        BY <2>4, GotoTyped DEF Steps
      <3>3. Enter(p, WithRows(leases, q)) \/ Enter(p, [q EXCEPT !.pc = "recover"])
        BY <2>1 DEF q
      <3> QED
        BY <3>1, <3>2, <3>3, EnterTyped DEF TypeOK
    <2> QED
      BY <1>1, <1>2, <2>5 DEF PruneStart, world, TypeOK
  <1>3. CASE CloseStart(p)
    <2>1. PICK issue \in Issues, closer \in Sessions \cup {NoSession},
               scope \in Scopes \cup {NoScope} :
             /\ open' = open \ {issue}
             /\ Enter(p, [Fresh("close", Main, issue, closer, scope, FALSE, NoScope)
                             EXCEPT !.pc = "retain"])
      BY <1>3 DEF CloseStart
    <2>2. Fresh("close", Main, issue, closer, scope, FALSE, NoScope) \in PassRecords
      BY FreshTyped, CleanupAssumption DEF CleanupModes
    <2>3. pass' \in [Passes -> PassRecords]
      BY <2>1, <2>2, GotoTyped, EnterTyped DEF Steps, TypeOK
    <2> QED
      BY <1>1, <1>3, <2>1, <2>3 DEF CloseStart, disk, host, TypeOK
  <1>4. CASE SyncStart(p)
    <2>1. PICK mode \in Modes \cap {"sync", "report"}, issue \in Issues \ open,
               scope \in Scopes \cup {NoScope} :
             Enter(p, [Fresh(mode, Main, issue, NoSession, scope, FALSE, NoScope)
                         EXCEPT !.pc = IF scope = NoScope THEN "retain" ELSE "again"])
      BY <1>4 DEF SyncStart
    <2>2. Fresh(mode, Main, issue, NoSession, scope, FALSE, NoScope) \in PassRecords
      BY FreshTyped, CleanupAssumption DEF CleanupModes
    <2>3. pass' \in [Passes -> PassRecords]
      BY <2>1, <2>2, GotoTyped, EnterTyped DEF Steps, TypeOK
    <2> QED
      BY <1>1, <1>4, <2>3 DEF SyncStart, world, TypeOK
  <1> QED
    BY <1>2, <1>3, <1>4 DEF Start

\* In a step that only moves a pass on, the rest keeps its type.
LEMMA OnlyPass ==
    ASSUME TypeOK, pass' \in [Passes -> PassRecords], UNCHANGED world
    PROVE  TypeOK'
  BY DEF TypeOK, world

LEMMA GuardTyped ==
    ASSUME CInv', TypeOK, NEW p \in Passes, Guards(p)
    PROVE  TypeOK'
  <1> DEFINE q == pass[p]
  <1>q. q \in PassRecords
    BY DEF TypeOK
  <1>t. leases' \in Tables
    BY DEF CInv
  <1>1. CASE PruneRecover(p) \/ RetainClosed(p)
    <2>1. pass' \in [Passes -> PassRecords]
      BY <1>1, GoesTyped DEF PruneRecover, RetainClosed, Steps, TypeOK
    <2> QED
      BY <1>1, <1>t, <2>1 DEF PruneRecover, RetainClosed, disk, host, TypeOK
  <1>2. CASE SyncAgain(p)
    <2>1. [q EXCEPT !.pc = "load"] \in PassRecords
      BY <1>q, GotoTyped DEF Steps
    <2>2. [q EXCEPT !.pc = "confirm", !.issues = ScopeIssues(leases, q.scope),
                    !.ids = ScopeActive(leases, q.scope)] \in PassRecords
      BY <1>q, ScopeTyped DEF PassRecords, Steps, TypeOK
    <2>3. pass' \in [Passes -> PassRecords]
      BY <1>2, <2>1, <2>2, EnterTyped DEF SyncAgain, TypeOK
    <2> QED
      BY <1>2, <2>3, OnlyPass DEF SyncAgain
  <1>3. CASE SyncConfirm(p) \/ ReadActive(p)
    <2>1. pass' \in [Passes -> PassRecords]
      BY <1>3, GoesTyped DEF SyncConfirm, ReadActive, Steps, TypeOK
    <2> QED
      BY <1>3, <2>1, OnlyPass DEF SyncConfirm, ReadActive
  <1>4. CASE LoadCandidate(p)
    <2>1. PICK i \in Stored(leases) :
             Enter(p, WithRows(leases, [q EXCEPT !.dir = leases[i].path]))
      BY <1>4 DEF LoadCandidate
    <2>2. leases[i].path \in Paths
      BY StoredIsLease DEF TypeOK, Lease
    <2>3. [q EXCEPT !.dir = leases[i].path] \in PassRecords
      BY <1>q, <2>2 DEF PassRecords
    <2>4. pass' \in [Passes -> PassRecords]
      BY <2>1, <2>3, WithRowsTyped, EnterTyped DEF TypeOK
    <2> QED
      BY <1>4, <2>4, OnlyPass DEF LoadCandidate
  <1>5. CASE ReadRows(p)
    <2>1. pass' \in [Passes -> PassRecords]
      BY <1>5, <1>q, WithRowsTyped, EnterTyped DEF ReadRows, TypeOK
    <2> QED
      BY <1>5, <2>1, OnlyPass DEF ReadRows
  <1>6. CASE ReadGit(p)
    <2> DEFINE cache == IF q.phase = "scan" THEN content[q.dir] ELSE q.cache
               next  == IF q.mode \in {"prune", "preview"} THEN "active" ELSE "closure"
    <2>1. cache \in Contents /\ next \in Steps
      BY <1>q DEF PassRecords, Steps, TypeOK
    <2> HIDE DEF cache, next
    <2>2. [q EXCEPT !.cache = cache, !.pc = next] \in PassRecords
      BY <1>q, <2>1 DEF PassRecords
    <2>3. Enter(p, [q EXCEPT !.cache = cache, !.pc = next])
      BY <1>6 DEF ReadGit, cache, next
    <2>4. pass' \in [Passes -> PassRecords]
      BY <2>2, <2>3, EnterTyped DEF TypeOK
    <2> QED
      BY <1>6, <2>4, OnlyPass DEF ReadGit
  <1>7. CASE ReadClosure(p)
    <2>1. [q EXCEPT !.pc = "rows", !.phase = "recheck"] \in PassRecords
      BY <1>q DEF PassRecords, Steps, Phases
    <2>2. \/ Goto(p, "inspect") \/ Goto(p, "family")
          \/ Enter(p, [q EXCEPT !.pc = "rows", !.phase = "recheck"])
      BY <1>7 DEF ReadClosure
    <2>3. "inspect" \in Steps /\ "family" \in Steps
      BY DEF Steps
    <2>4. pass' \in [Passes -> PassRecords]
      BY <2>1, <2>2, <2>3, EnterTyped, GoesTyped DEF TypeOK
    <2> QED
      BY <1>7, <2>4, OnlyPass DEF ReadClosure
  <1> QED
    BY <1>1, <1>2, <1>3, <1>4, <1>5, <1>6, <1>7 DEF Guards

\* An answer about one session moves it between the sets a pass keeps.
LEMMA AssessTyped ==
    ASSUME CInv', TypeOK, NEW p \in Passes, Assess(p)
    PROVE  TypeOK'
  <1> DEFINE q == pass[p]
  <1>q. q \in PassRecords
    BY DEF TypeOK
  <1>w. UNCHANGED world
    BY DEF Assess, FamilyStart, LocateRoot, ListOccupants, ReadRunning, ProveLineage
  <1>1. CASE FamilyStart(p)
    <2>1. [q EXCEPT !.pc = "locate", !.probe = Family(q), !.hosted = {}] \in PassRecords
      BY <1>q, FamilyTyped DEF PassRecords, Steps
    <2>2. \/ Enter(p, Released(q))
          \/ Enter(p, [q EXCEPT !.pc = "locate", !.probe = Family(q), !.hosted = {}])
      BY <1>1 DEF FamilyStart
    <2> QED
      BY <1>q, <1>w, <2>1, <2>2, ReleasedTyped, EnterTyped, OnlyPass DEF TypeOK
  <1>2. CASE LocateRoot(p)
    <2>1. CASE Goto(p, "list")
      BY <1>w, <2>1, GoesTyped, OnlyPass DEF Steps, TypeOK
    <2>2. ASSUME NEW s \in q.probe,
                 Enter(p, [q EXCEPT
                     !.probe = @ \ {s},
                     !.hosted = IF place[s] = q.dir THEN @ \cup {s} ELSE @])
          PROVE  TypeOK'
      <3> DEFINE h == IF place[s] = q.dir THEN q.hosted \cup {s} ELSE q.hosted
      <3>1. h \subseteq OpenCode /\ q.probe \ {s} \subseteq OpenCode
        BY <1>q DEF PassRecords
      <3>2. Enter(p, [q EXCEPT !.probe = q.probe \ {s}, !.hosted = h])
        BY <1>q, <2>2 DEF PassRecords
      <3> HIDE DEF h
      <3>3. [q EXCEPT !.probe = q.probe \ {s}, !.hosted = h] \in PassRecords
        BY <1>q, <3>1 DEF PassRecords
      <3> QED
        BY <1>w, <3>2, <3>3, EnterTyped, OnlyPass DEF TypeOK
    <2> QED
      BY <1>2, <2>1, <2>2 DEF LocateRoot
  <1>3. CASE ListOccupants(p)
    <2> DEFINE occupants == {s \in OpenCode : place[s] = q.dir}
               next == IF q.mode = "sync" /\ ~Verify(q) THEN "lineage" ELSE "running"
    <2>1. Enter(p, [q EXCEPT !.hosted = q.hosted \cup occupants, !.pc = next])
      BY <1>3, <1>q DEF ListOccupants, PassRecords
    <2>2. q.hosted \cup occupants \subseteq OpenCode /\ next \in Steps
      BY <1>q DEF PassRecords, Steps
    <2> HIDE DEF occupants, next
    <2>3. [q EXCEPT !.hosted = q.hosted \cup occupants, !.pc = next] \in PassRecords
      BY <1>q, <2>2 DEF PassRecords
    <2> QED
      BY <1>w, <2>1, <2>3, EnterTyped, OnlyPass DEF TypeOK
  <1>4. CASE ReadRunning(p)
    BY <1>w, <1>4, GoesTyped, OnlyPass DEF ReadRunning, Steps, TypeOK
  <1>5. CASE ProveLineage(p)
    <2>1. Enter(p, Released(q)) \/ Enter(p, [q EXCEPT !.pc = "move"])
      BY <1>5 DEF ProveLineage
    <2>2. [q EXCEPT !.pc = "move"] \in PassRecords
      BY <1>q, GotoTyped DEF Steps
    <2> QED
      BY <1>q, <1>w, <2>1, <2>2, ReleasedTyped, EnterTyped, OnlyPass DEF TypeOK
  <1> QED
    BY <1>1, <1>2, <1>3, <1>4, <1>5 DEF Assess

LEMMA ReleaseFamilyTyped ==
    ASSUME CInv', TypeOK, NEW p \in Passes, ReleaseFamily(p)
    PROVE  TypeOK'
  <1> DEFINE q == pass[p]
  <1>q. q \in PassRecords
    BY DEF TypeOK
  <1>s. {"vacant", "wait", "request", "settled"} \subseteq Steps
    BY DEF Steps
  <1>1. CASE MoveNext(p)
    <2>1. UNCHANGED world
      BY <1>1 DEF MoveNext
    <2>2. CASE Goto(p, "vacant") \/ Goto(p, "wait")
      BY <1>s, <2>1, <2>2, GoesTyped, OnlyPass DEF TypeOK
    <2>3. ASSUME NEW s \in q.hosted,
                 \/ Enter(p, [q EXCEPT !.hosted = @ \ {s}])
                 \/ Enter(p, [q EXCEPT !.hosted = @ \ {s}, !.probe = {s}, !.pc = "check"])
          PROVE  TypeOK'
      <3>1. [q EXCEPT !.hosted = @ \ {s}] \in PassRecords
        BY <1>q DEF PassRecords
      <3>2. [q EXCEPT !.hosted = @ \ {s}, !.probe = {s}, !.pc = "check"] \in PassRecords
        BY <1>q DEF PassRecords, Steps
      <3> QED
        BY <2>1, <2>3, <3>1, <3>2, EnterTyped, OnlyPass DEF TypeOK
    <2>4. CASE \E s \in q.hosted :
                  \/ Enter(p, [q EXCEPT !.hosted = @ \ {s}])
                  \/ Enter(p, [q EXCEPT !.hosted = @ \ {s}, !.probe = {s}, !.pc = "check"])
      BY <2>3, <2>4
    <2> QED
      BY <1>1, <2>2, <2>4 DEF MoveNext
  <1>2. CASE CheckIdle(p)
    BY <1>s, <1>2, GoesTyped, OnlyPass DEF CheckIdle, TypeOK
  <1>3. CASE RequestMove(p)
    <2>1. [q EXCEPT !.accepted = @ \cup q.probe, !.pc = "observe"] \in PassRecords
      BY <1>q DEF PassRecords, Steps
    <2>2. pass' \in [Passes -> PassRecords]
      BY <1>3, <2>1, EnterTyped DEF RequestMove, TypeOK
    <2>3. q.probe \subseteq OpenCode
      BY <1>q DEF PassRecords
    <2> QED
      BY <1>3, <2>2, <2>3 DEF RequestMove, disk, TypeOK
  <1>4. CASE ObserveMove(p)
    <2>1. PICK s \in q.probe :
             Enter(p, [q EXCEPT
                 !.pending = IF place[s] = Main THEN @ ELSE @ \cup {s},
                 !.probe = {}, !.pc = "move"])
      BY <1>4 DEF ObserveMove
    <2> DEFINE left == IF place[s] = Main THEN q.pending ELSE q.pending \cup {s}
    <2>2. left \subseteq OpenCode
      BY <1>q DEF PassRecords
    <2>3. Enter(p, [q EXCEPT !.pending = left, !.probe = {}, !.pc = "move"])
      BY <1>q, <2>1 DEF PassRecords
    <2> HIDE DEF left
    <2>4. [q EXCEPT !.pending = left, !.probe = {}, !.pc = "move"] \in PassRecords
      BY <1>q, <2>2 DEF PassRecords, Steps
    <2> QED
      BY <1>4, <2>3, <2>4, EnterTyped, OnlyPass DEF ObserveMove, TypeOK
  <1>5. CASE AwaitPending(p)
    <2>1. q.budget - 1 \in 0..PollBudget
      BY <1>q, <1>5, CleanupAssumption DEF AwaitPending, PassRecords
    <2>2. [q EXCEPT !.budget = @ - 1, !.probe = q.pending, !.pc = "poll"] \in PassRecords
      BY <1>q, <2>1 DEF PassRecords, Steps
    <2> QED
      BY <1>5, <2>2, EnterTyped, OnlyPass DEF AwaitPending, TypeOK
  <1>6. CASE PollPending(p)
    <2>1. UNCHANGED world
      BY <1>6 DEF PollPending
    <2>2. CASE Goto(p, IF q.pending = {} THEN "vacant" ELSE "wait")
      BY <1>s, <2>1, <2>2, GoesTyped, OnlyPass DEF TypeOK
    <2>3. ASSUME NEW s \in q.probe,
                 Enter(p, [q EXCEPT
                     !.probe = @ \ {s},
                     !.pending = IF place[s] = Main THEN @ \ {s} ELSE @])
          PROVE  TypeOK'
      <3>1. [q EXCEPT !.probe = @ \ {s},
                      !.pending = IF place[s] = Main THEN @ \ {s} ELSE @] \in PassRecords
        BY <1>q DEF PassRecords
      <3> QED
        BY <2>1, <2>3, <3>1, EnterTyped, OnlyPass DEF TypeOK
    <2> QED
      BY <1>6, <2>2, <2>3 DEF PollPending
  <1>7. CASE ProveVacant(p)
    <2>1. [q EXCEPT !.probe = Family(q), !.pc = "homes"] \in PassRecords
      BY <1>q, FamilyTyped DEF PassRecords, Steps
    <2> QED
      BY <1>7, <2>1, EnterTyped, OnlyPass DEF ProveVacant, TypeOK
  <1>8. CASE ProveHome(p)
    <2>1. UNCHANGED world
      BY <1>8 DEF ProveHome
    <2>2. CASE Goto(p, "settled")
      BY <1>s, <2>1, <2>2, GoesTyped, OnlyPass DEF TypeOK
    <2>3. ASSUME NEW s \in q.probe, Enter(p, [q EXCEPT !.probe = @ \ {s}])
          PROVE  TypeOK'
      <3>1. [q EXCEPT !.probe = @ \ {s}] \in PassRecords
        BY <1>q DEF PassRecords
      <3> QED
        BY <2>1, <2>3, <3>1, EnterTyped, OnlyPass DEF TypeOK
    <2> QED
      BY <1>8, <2>2, <2>3 DEF ProveHome
  <1>9. CASE ProveSettled(p)
    <2>1. [q EXCEPT !.accepted = {}] \in PassRecords
      BY <1>q DEF PassRecords
    <2> QED
      BY <1>9, <2>1, ReleasedTyped, EnterTyped, OnlyPass DEF ProveSettled, TypeOK
  <1> QED
    BY <1>1, <1>2, <1>3, <1>4, <1>5, <1>6, <1>7, <1>8, <1>9 DEF ReleaseFamily

LEMMA RemoveTyped ==
    ASSUME CInv', TypeOK, NEW p \in Passes, Remove(p)
    PROVE  TypeOK'
  <1> DEFINE q == pass[p]
  <1>q. q \in PassRecords
    BY DEF TypeOK
  <1>t. leases' \in Tables /\ dirs' \subseteq Paths
    BY DEF CInv
  <1>1. CASE InspectCache(p)
    BY <1>1, GoesTyped, OnlyPass DEF InspectCache, Steps, TypeOK
  <1>2. CASE ClearCache(p)
    <2> DEFINE left == IF content[q.dir] = "cache" /\ q.cache = "cache"
                       THEN "clean" ELSE content[q.dir]
    <2>1. left \in Contents
      BY <1>q DEF PassRecords, Contents, TypeOK
    <2>2. content' = [content EXCEPT ![q.dir] = left]
      BY <1>2 DEF ClearCache
    <2>3. content' \in [Paths -> Contents]
      <3> HIDE DEF left
      <3> QED
        BY <2>1, <2>2 DEF TypeOK
    <2>4. [q EXCEPT !.pc = "rows", !.phase = "cleared"] \in PassRecords
      BY <1>q DEF PassRecords, Steps, Phases
    <2>5. Keep(p) \/ Enter(p, [q EXCEPT !.pc = "rows", !.phase = "cleared"])
      BY <1>2 DEF ClearCache
    <2>6. pass' \in [Passes -> PassRecords]
      BY <2>4, <2>5, EnterTyped, KeepTyped DEF TypeOK
    <2>7. late' \in [Passes -> SUBSET Facts]
      BY <1>2 DEF ClearCache, TypeOK
    <2> QED
      BY <1>2, <1>t, <2>3, <2>6, <2>7 DEF ClearCache, host, TypeOK
  <1>3. CASE RemoveWorktree(p)
    <2>1. pass' \in [Passes -> PassRecords]
      BY <1>3, GoesTyped, KeepTyped DEF RemoveWorktree, Steps, TypeOK
    <2> QED
      BY <1>3, <1>t, <2>1 DEF RemoveWorktree, host, TypeOK
  <1>4. CASE FlipRow(p)
    <2>1. ASSUME NEW i \in q.ids, Enter(p, [q EXCEPT !.ids = @ \ {i}])
          PROVE  pass' \in [Passes -> PassRecords]
      <3>1. [q EXCEPT !.ids = @ \ {i}] \in PassRecords
        BY <1>q DEF PassRecords
      <3> QED
        BY <2>1, <3>1, EnterTyped DEF TypeOK
    <2>2. pass' \in [Passes -> PassRecords]
      BY <1>4, <2>1, KeepTyped DEF FlipRow, TypeOK
    <2> QED
      BY <1>4, <1>t, <2>2 DEF FlipRow, disk, host, TypeOK
  <1> QED
    BY <1>1, <1>2, <1>3, <1>4 DEF Remove

\* A fact that appears is one that can forbid a removal.
LEMMA AppearsTyped ==
    ASSUME TypeOK, NEW facts \in SUBSET Facts, Appears(facts)
    PROVE  late' \in [Passes -> SUBSET Facts]
  BY DEF Appears, TypeOK

LEMMA WorldTyped == ASSUME CInv', TypeOK, World PROVE TypeOK'
  <1>t. leases' \in Tables /\ dirs' \subseteq Paths
    BY DEF CInv
  <1>1. CASE LeaseTaken
    <2>1. PICK i \in LeaseIds, issue \in Issues :
             Appears({<<"lease", i>>, <<"issue", issue>>})
      BY <1>1 DEF LeaseTaken
    <2>2. {<<"lease", i>>, <<"issue", issue>>} \in SUBSET Facts
      BY DEF Facts
    <2>3. late' \in [Passes -> SUBSET Facts]
      BY <2>1, <2>2, AppearsTyped
    <2> QED
      BY <1>1, <1>t, <2>3 DEF LeaseTaken, disk, host, TypeOK
  <1>2. CASE LeaseEnds \/ IssueCloses
    BY <1>2, <1>t DEF LeaseEnds, IssueCloses, disk, host, TypeOK
  <1>3. CASE IssueReopens
    <2>1. PICK issue \in Issues \ open : /\ open' = open \cup {issue}
                                         /\ Appears({<<"issue", issue>>})
      BY <1>3 DEF IssueReopens
    <2>2. {<<"issue", issue>>} \in SUBSET Facts
      BY DEF Facts
    <2>3. late' \in [Passes -> SUBSET Facts]
      BY <2>1, <2>2, AppearsTyped
    <2> QED
      BY <1>3, <2>1, <2>3 DEF IssueReopens, disk, host, TypeOK
  <1>4. CASE FilesChange \/ SessionRuns
    BY <1>4 DEF FilesChange, SessionRuns, disk, host, TypeOK
  <1>5. CASE SessionMoves
    <2>1. PICK s \in OpenCode, d \in dirs :
             place' = [place EXCEPT ![s] = d] /\ Appears({<<"session", s>>})
      BY <1>5 DEF SessionMoves
    <2>2. {<<"session", s>>} \in SUBSET Facts
      BY DEF Facts
    <2>3. late' \in [Passes -> SUBSET Facts]
      BY <2>1, <2>2, AppearsTyped
    <2>4. place' \in [OpenCode -> Paths]
      BY <2>1 DEF TypeOK
    <2> QED
      BY <1>5, <2>3, <2>4 DEF SessionMoves, disk, TypeOK
  <1>6. CASE MoveDelivered
    BY <1>6, CleanupAssumption DEF MoveDelivered, disk, TypeOK
  <1> QED
    BY <1>1, <1>2, <1>3, <1>4, <1>5, <1>6 DEF World

LEMMA InitTyped == Init => TypeOK
  BY EmptyIsTable, IdleTyped, CleanupAssumption DEF Init, TypeOK, Contents

LEMMA StepTyped == CInv' /\ TypeOK /\ [Next]_vars => TypeOK'
  <1> SUFFICES ASSUME CInv', TypeOK, [Next]_vars PROVE TypeOK'
    OBVIOUS
  <1>1. CASE UNCHANGED vars
    BY <1>1 DEF vars, TypeOK
  <1>2. ASSUME NEW p \in Passes, PassStep(p) PROVE TypeOK'
    <2>1. CASE PassKeeps(p)
      BY <2>1, KeepTyped, OnlyPass DEF PassKeeps, TypeOK
    <2> QED
      BY <1>2, <2>1, GuardTyped, AssessTyped, ReleaseFamilyTyped, RemoveTyped DEF PassStep
  <1> QED
    BY <1>1, <1>2, StartTyped, WorldTyped DEF Next

\* The lease table, the disk, the host and what every pass holds keep their
\* types: a pass only ever knows sessions of the host, and asks it to move no
\* other.
THEOREM TypeCorrect == Spec => []TypeOK
  BY InitSafe, StepSafe, InitTyped, StepTyped, PTL DEF Spec
=============================================================================

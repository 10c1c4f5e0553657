---------------------------- MODULE TimersProofs ----------------------------
(***************************************************************************)
(* What the timer ledger guarantees for any number of processes, runs and  *)
(* faults.  The argument rests on the write lock: a projection works on a  *)
(* draft of its row while it holds the lock, so the draft it commits still *)
(* agrees with the committed row (Held), and every row, committed or       *)
(* drafted, only claims entries that are at Redmine (Sound).               *)
(***************************************************************************)
EXTENDS Timers, TLAPS

\* n entries back the row: it knows no more of them, and is synced only as a
\* finished run that knows one.
Sound(row, n) ==
    /\ row.entry <= n
    /\ row.sync = "synced" => row.entry # 0 /\ row.status \in Results

\* Only an older version committed claims.
Unclaimed(row) == row.sync = "projecting" => row.token = Legacy

Ledger(t, e) == \A r \in Runs : Sound(t[r], e[r]) /\ Unclaimed(t[r])

\* A finish or recover is at work on a run that is there, and once past the
\* write on a run that ended.
Aimed(p, t) ==
    /\ p.pc \in Finishing => t[p.run].status # "absent"
    /\ p.pc \in Finishing \ {"load", "write"} => t[p.run].status \in Results

\* Redmine acts on a request before the request times out, if at all.
Punctual == "late" \notin Faults

\* The draft of a held transaction against the row it will replace, and what
\* the listing it made still says when it posts.
Held(p, t, e) ==
    p.pc \in InTransaction =>
        /\ p.draft.status = t[p.run].status
        /\ Sound(p.draft, e[p.run])
        /\ t[p.run].sync = "synced" => /\ p.pc \in {"claim", "commit"}
                                       /\ p.draft.sync = "synced"
                                       /\ p.draft.entry = t[p.run].entry
        /\ p.pc = "commit" => p.draft.sync # "projecting"
        /\ Punctual /\ p.pc = "post" => e[p.run] = 0

LInv ==
    /\ TypeOK
    /\ Ledger(runs, entries)
    /\ Punctual => late = {}
    /\ \A c \in Clients : /\ proc[c].pc \in InTransaction <=> lock = c
                          /\ Aimed(proc[c], runs)
                          /\ Held(proc[c], runs, entries)

\* How the status of a run may change.
Turn(from, to) ==
    \/ to = from
    \/ from = "absent" /\ to = "running"
    \/ from = "running" /\ to \in Results

\* A row that may replace the committed row of run r.
Fits(r, row) ==
    /\ row \in Rows
    /\ Sound(row, entries[r]) /\ Unclaimed(row)
    /\ Turn(runs[r].status, row.status)
    /\ runs[r].sync = "synced" => row.sync = "synced" /\ row.entry = runs[r].entry

\* What a step writes to the ledger: at most one row, which fits.
Writes ==
    \/ UNCHANGED runs
    \/ \E r \in Runs : \E row : Fits(r, row) /\ Write(r, row) /\ UNCHANGED entries

\* The run a process is working on.
LEMMA Shape ==
    ASSUME NEW p \in Procs
    PROVE  /\ p.pc \in Finishing =>
                  p \in [pc : Finishing, cmd : {"finish", "recover"}, run : Runs,
                         result : Results, seen : BOOLEAN, draft : Rows]
           /\ p.pc = "insert" => p \in [pc : {"insert"}, run : Runs, issue : Issues]
           /\ p.pc = "sweep" => p \in [pc : {"sweep"}, issue : Issues, todo : SUBSET Runs,
                                       open : BOOLEAN]
           /\ p.pc = "close" => p \in [pc : {"close"}, issue : Issues, todo : SUBSET Runs,
                                       open : BOOLEAN, run : Runs]
           /\ p.pc = "open" => p \in [pc : {"open"}, issue : Issues]
  BY DEF Procs, Idle, Finishing, InTransaction

\* The rows that start and end a run, and the ones a projection leaves.
LEMMA RowTypes ==
    /\ NoRow \in Rows
    /\ \A i \in Issues : Started(i) \in Rows
    /\ \A row \in Rows, res \in Results : FinishedRow(row, res) \in Rows
    /\ \A row \in Rows, n \in Nat, sync \in Syncs : Marked(row, sync, n) \in Rows
  <1>1. NoRow \in Rows
    BY DEF NoRow, Rows, Syncs
  <1>2. ASSUME NEW i \in Issues PROVE Started(i) \in Rows
    BY <1>1, <1>2 DEF Started, Rows
  <1>3. ASSUME NEW row \in Rows, NEW res \in Results PROVE FinishedRow(row, res) \in Rows
    BY <1>3 DEF FinishedRow, Rows, Syncs
  <1>4. ASSUME NEW row \in Rows, NEW n \in Nat, NEW sync \in Syncs
        PROVE  Marked(row, sync, n) \in Rows
    BY <1>4 DEF Marked, Rows
  <1> QED
    BY <1>1, <1>2, <1>3, <1>4

\* The row that returns a claim of an earlier version: a failed projection of the same
\* entry.
LEMMA ReturnedRow ==
    ASSUME NEW w \in Rows
    PROVE  LET row == [w EXCEPT !.sync = "failed", !.error = TRUE, !.token = Free,
                                !.fresh = FALSE]
           IN  /\ row \in Rows /\ row.sync = "failed" /\ row.entry = w.entry
               /\ row.status = w.status
  <1> DEFINE u == [w EXCEPT !.sync = "failed", !.error = TRUE]
             v == [u EXCEPT !.token = Free, !.fresh = FALSE]
  <1>1. u \in Rows /\ u.sync = "failed" /\ u.entry = w.entry /\ u.status = w.status
    BY DEF Rows, Syncs
  <1> HIDE DEF u
  <1>2. v \in Rows /\ v.sync = "failed" /\ v.entry = w.entry /\ v.status = w.status
    BY <1>1 DEF Rows
  <1> QED
    BY <1>2 DEF u, v

\* The writers of the ledger.
LEMMA CommandWrites ==
    ASSUME LInv, NEW c \in Clients, Step(c)
    PROVE  Writes
  <1> DEFINE p == proc[c]
             r == p.run
  <1>1. /\ p \in Procs /\ runs \in [Runs -> Rows] /\ entries \in [Runs -> Nat]
        /\ Ledger(runs, entries) /\ Aimed(p, runs) /\ Held(p, runs, entries)
    BY DEF LInv, TypeOK
  <1>2. ASSUME NEW i \in Issues, NEW s \in Runs, runs[s].status = "absent"
        PROVE  Fits(s, Started(i))
    <2>1. /\ Started(i).status = "running" /\ Started(i).sync = "pending"
          /\ Started(i).entry = 0 /\ Started(i) \in Rows
      BY RowTypes DEF Started, NoRow
    <2>2. runs[s].sync # "synced" /\ entries[s] \in Nat
      BY <1>1, <1>2, TimersAssumption DEF Ledger, Sound
    <2> QED
      BY <1>2, <2>1, <2>2 DEF Fits, Sound, Unclaimed, Turn
  <1>3. ASSUME NEW s \in Runs, runs[s].status = "running", NEW res \in Results
        PROVE  Fits(s, FinishedRow(runs[s], res))
    <2> DEFINE row == FinishedRow(runs[s], res)
    <2>0. runs[s] \in Rows /\ row \in Rows
      BY <1>1, RowTypes
    <2>1. /\ row.status = res /\ row.entry = runs[s].entry /\ row.sync # "projecting"
          /\ row.sync = "synced" => runs[s].entry # 0
      BY <2>0 DEF FinishedRow, Rows
    <2>2. runs[s].sync # "synced" /\ runs[s].entry <= entries[s]
      BY <1>1, <1>3, TimersAssumption DEF Ledger, Sound
    <2> HIDE DEF row
    <2>3. Fits(s, row)
      BY <1>3, <2>0, <2>1, <2>2 DEF Fits, Sound, Unclaimed, Turn
    <2> QED
      BY <2>3 DEF row
  <1>4. CASE StartInsert(c)
    <2>1. r \in Runs /\ p.issue \in Issues
      BY <1>1, <1>4, Shape DEF StartInsert, At
    <2> QED
      BY <1>2, <1>4, <2>1 DEF StartInsert, Writes
  <1>5. CASE FinishWrite(c)
    <2>1. r \in Runs /\ p.result \in Results
      BY <1>1, <1>5, Shape DEF FinishWrite, At, Finishing
    <2> QED
      BY <1>3, <1>5, <2>1 DEF FinishWrite, Running, Writes
  <1>6. CASE SweepWrite(c)
    <2>1. r \in Runs /\ "DONE" \in Results
      BY <1>1, <1>6, Shape, TimersAssumption DEF SweepWrite, At
    <2> QED
      BY <1>3, <1>6, <2>1 DEF SweepWrite, Running, Writes
  <1>7. CASE AutoStart(c)
    <2>1. p.issue \in Issues
      BY <1>1, <1>7, Shape DEF AutoStart, At
    <2> QED
      BY <1>2, <1>7, <2>1 DEF AutoStart, Writes
  <1>8. CASE RecoverReset(c)
    <2> DEFINE row == [runs[r] EXCEPT !.sync = "failed", !.error = TRUE, !.token = Free,
                                      !.fresh = FALSE]
    <2>1. r \in Runs
      BY <1>1, <1>8, Shape DEF RecoverReset, At, Finishing
    <2>2. CASE runs[r].sync = "projecting" /\ Write(r, row)
      <3>1. /\ row \in Rows /\ row.sync = "failed" /\ row.entry = runs[r].entry
            /\ row.status = runs[r].status
        BY <1>1, <2>1, ReturnedRow
      <3>2. runs[r].entry <= entries[r]
        BY <1>1, <2>1 DEF Ledger, Sound
      <3> HIDE DEF row
      <3>3. Fits(r, row)
        BY <2>2, <3>1, <3>2 DEF Fits, Sound, Unclaimed, Turn
      <3> QED
        BY <1>8, <2>1, <2>2, <3>3 DEF RecoverReset, Writes
    <2> QED
      BY <1>8, <2>2 DEF RecoverReset, Writes
  <1>9. CASE Commit(c)
    <2>1. r \in Runs /\ p.draft \in Rows /\ p.pc = "commit"
      BY <1>1, <1>9, Shape DEF Commit, At, Finishing, InTransaction
    <2>2. Fits(r, p.draft)
      BY <1>1, <2>1 DEF Held, InTransaction, Fits, Unclaimed, Turn
    <2> QED
      BY <1>9, <2>1, <2>2 DEF Commit, Writes
  <1>10. CASE MarkFailed(c)
    <2>1. r \in Runs
      BY <1>1, <1>10, Shape DEF MarkFailed, At, Finishing
    <2>2. ~(runs[r].token = c /\ runs[r].sync = "projecting")
      BY <1>1, <2>1, TimersAssumption DEF Ledger, Unclaimed
    <2> QED
      BY <1>10, <2>2 DEF MarkFailed, Writes
  <1>11. CASE RecordError(c)
    <2> DEFINE row == [runs[r] EXCEPT !.error = TRUE]
    <2>1. r \in Runs
      BY <1>1, <1>11, Shape DEF RecordError, At, Finishing
    <2>2. /\ row \in Rows /\ row.sync = runs[r].sync /\ row.entry = runs[r].entry
          /\ row.status = runs[r].status /\ row.token = runs[r].token
      BY <1>1, <2>1 DEF Rows
    <2>3. Sound(runs[r], entries[r]) /\ Unclaimed(runs[r])
      BY <1>1, <2>1 DEF Ledger
    <2>4. Write(r, row) \/ UNCHANGED runs
      BY <1>11 DEF RecordError
    <2> HIDE DEF row
    <2>5. Fits(r, row)
      BY <2>2, <2>3 DEF Fits, Sound, Unclaimed, Turn
    <2> QED
      BY <1>11, <2>1, <2>4, <2>5 DEF RecordError, Writes
  <1>12. CASE \/ FinishLoad(c) \/ FinishReload(c) \/ Resolve(c) \/ Begin(c) \/ Claim(c)
              \/ ChooseActivity(c) \/ Relist(c) \/ Post(c) \/ SweepLoad(c)
    BY <1>12 DEF FinishLoad, FinishReload, Resolve, Begin, Claim, ChooseActivity, Relist,
       Post, SweepLoad, Writes
  <1> QED
    BY <1>4, <1>5, <1>6, <1>7, <1>8, <1>9, <1>10, <1>11, <1>12 DEF Step, Project

\* No other step writes but the end of a claim's window.
LEMMA StepWrites ==
    ASSUME LInv, [Next]_vars
    PROVE  Writes
  <1>1. ASSUME NEW c \in Clients, Start(c) \/ Breaks(c) PROVE UNCHANGED runs
    BY <1>1 DEF Start, StartLoad, FinishAsk, RecoverAsk, SweepList, Breaks, PostLost,
       PostLate, HttpFails, Busy, Kill
  <1>2. ASSUME LateArrives \/ UNCHANGED vars PROVE UNCHANGED runs
    BY <1>2 DEF LateArrives, vars
  <1>3. ASSUME NEW r \in Runs, Expire(r) PROVE Writes
    <2> DEFINE row == [runs[r] EXCEPT !.fresh = FALSE]
    <2>1. /\ row \in Rows /\ row.sync = runs[r].sync /\ row.entry = runs[r].entry
          /\ row.status = runs[r].status /\ row.token = runs[r].token
      BY DEF LInv, TypeOK, Rows
    <2>2. Sound(runs[r], entries[r]) /\ Unclaimed(runs[r])
      BY DEF LInv, Ledger
    <2>3. Write(r, row) /\ UNCHANGED entries
      BY <1>3 DEF Expire
    <2> HIDE DEF row
    <2>4. Fits(r, row)
      BY <2>1, <2>2 DEF Fits, Sound, Unclaimed, Turn
    <2> QED
      BY <2>3, <2>4 DEF Writes
  <1> QED
    BY <1>1, <1>2, <1>3, CommandWrites DEF Next, Writes

\* What every write leaves of the ledger.
LEMMA LedgerKept ==
    ASSUME LInv, Writes, entries' \in [Runs -> Nat],
           \A r \in Runs : entries[r] <= entries'[r]
    PROVE  /\ runs' \in [Runs -> Rows] /\ Ledger(runs', entries')
           /\ \A r \in Runs : Turn(runs[r].status, runs'[r].status)
           /\ \A p : p.run \in Runs /\ Aimed(p, runs) => Aimed(p, runs')
  <1>1. /\ runs \in [Runs -> Rows] /\ entries \in [Runs -> Nat]
        /\ Ledger(runs, entries)
    BY DEF LInv, TypeOK
  <1>2. ASSUME NEW r \in Runs
        PROVE  /\ Sound(runs'[r], entries'[r]) /\ Unclaimed(runs'[r])
               /\ runs'[r] \in Rows /\ Turn(runs[r].status, runs'[r].status)
    <2>1. CASE UNCHANGED runs
      <3>1. Sound(runs[r], entries[r]) /\ runs[r].entry \in Nat
        BY <1>1 DEF Ledger, Rows
      <3>2. Sound(runs[r], entries'[r])
        BY <1>1, <3>1 DEF Sound
      <3> QED
        BY <1>1, <2>1, <3>2 DEF Ledger, Turn
    <2>2. CASE \E s \in Runs : \E row : Fits(s, row) /\ Write(s, row) /\ UNCHANGED entries
      <3>0. PICK s \in Runs : \E row : Fits(s, row) /\ Write(s, row) /\ UNCHANGED entries
        BY <2>2
      <3>1. PICK row : Fits(s, row) /\ Write(s, row) /\ UNCHANGED entries
        BY <3>0
      <3>2. runs'[r] = IF r = s THEN row ELSE runs[r]
        BY <1>1, <3>1 DEF Write
      <3> QED
        BY <1>1, <3>1, <3>2 DEF Fits, Ledger, Turn
    <2> QED
      BY <2>1, <2>2 DEF Writes
  <1>3. runs' \in [Runs -> Rows]
    <2>1. CASE UNCHANGED runs
      BY <1>1, <2>1
    <2>2. CASE ~UNCHANGED runs
      BY <1>1, <2>2 DEF Writes, Write, Fits
    <2> QED
      BY <2>1, <2>2
  <1>4. ASSUME NEW p, p.run \in Runs, Aimed(p, runs) PROVE Aimed(p, runs')
    BY <1>2, <1>4, TimersAssumption DEF Aimed, Turn
  <1> QED
    BY <1>2, <1>3, <1>4 DEF Ledger

\* The step of process c to q, with or without the lock: what the others hold
\* is not touched.
LEMMA Advance ==
    ASSUME LInv, Writes, entries' \in [Runs -> Nat],
           \A r \in Runs : entries[r] <= entries'[r],
           late' \subseteq Runs, Punctual => late' = {}, faults' \in 0..MaxFaults,
           NEW c \in Clients, NEW q \in Procs, Enter(c, q),
           lock \in {Free, c} \/ UNCHANGED <<runs, entries, lock>>,
           lock' \in {Free, c} \/ UNCHANGED lock,
           q.pc \in InTransaction <=> lock' = c,
           Aimed(q, runs'), Held(q, runs', entries')
    PROVE  LInv'
  <1>1. /\ runs \in [Runs -> Rows] /\ entries \in [Runs -> Nat]
        /\ proc \in [Clients -> Procs] /\ lock \in Clients \cup {Free}
        /\ runs' \in [Runs -> Rows] /\ Ledger(runs', entries')
    BY LedgerKept DEF LInv, TypeOK
  <1>2. proc' \in [Clients -> Procs] /\ proc'[c] = q
    BY <1>1 DEF Enter
  <1>3. ASSUME NEW d \in Clients
        PROVE  /\ proc'[d].pc \in InTransaction <=> lock' = d
               /\ Aimed(proc'[d], runs') /\ Held(proc'[d], runs', entries')
    <2>1. CASE d = c
      BY <1>2, <2>1
    <2>2. CASE d # c
      <3> DEFINE p == proc[d]
      <3>1. proc'[d] = p /\ p \in Procs /\ Aimed(p, runs) /\ Held(p, runs, entries)
        BY <1>1, <2>2 DEF Enter, LInv
      <3>2. p.pc \in InTransaction <=> lock' = d
        BY <2>2, TimersAssumption DEF LInv
      <3>3. Aimed(p, runs')
        <4>1. CASE p.pc \in Finishing
          BY <3>1, <4>1, Shape, LedgerKept
        <4>2. CASE p.pc \notin Finishing
          BY <4>2 DEF Aimed
        <4> QED
          BY <4>1, <4>2
      <3>4. CASE p.pc \in InTransaction
        <4>1. lock = d /\ UNCHANGED <<runs, entries>>
          BY <2>2, <3>4, TimersAssumption DEF LInv
        <4>2. p.run \in Runs /\ p.draft \in Rows
          BY <3>1, <3>4, Shape DEF Finishing
        <4>3. Sound(p.draft, entries[p.run]) => Sound(p.draft, entries'[p.run])
          BY <1>1, <4>2 DEF Sound, Rows
        <4>4. Held(p, runs', entries')
          BY <3>1, <4>1, <4>3 DEF Held
        <4> QED
          BY <3>1, <3>2, <3>3, <4>4
      <3>5. CASE p.pc \notin InTransaction
        BY <3>1, <3>2, <3>3, <3>5 DEF Held
      <3> QED
        BY <3>4, <3>5
    <2> QED
      BY <2>1, <2>2
  <1>4. lock' \in Clients \cup {Free}
    BY <1>1
  <1> QED
    BY <1>1, <1>2, <1>3, <1>4 DEF LInv, TypeOK

\* A step outside the lock: it reads, or writes while nobody holds the lock.
LEMMA Outside ==
    ASSUME LInv, [Next]_vars, NEW c \in Clients, NEW q \in Procs, Enter(c, q),
           lock = Free \/ UNCHANGED runs, UNCHANGED <<entries, late, lock>>,
           faults' \in 0..MaxFaults,
           proc[c].pc \notin InTransaction, q.pc \notin InTransaction, Aimed(q, runs')
    PROVE  LInv'
  <1>1. /\ Writes /\ entries \in [Runs -> Nat] /\ late \subseteq Runs /\ lock # c
        /\ Punctual => late = {}
        /\ \A r \in Runs : entries[r] <= entries[r]
    BY StepWrites DEF LInv, TypeOK
  <1>2. Held(q, runs', entries')
    BY DEF Held
  <1> QED
    BY <1>1, <1>2, Advance

\* A step of the process that holds the lock and keeps it.
LEMMA Inside ==
    ASSUME LInv, [Next]_vars, NEW c \in Clients, NEW q \in Procs, Enter(c, q),
           UNCHANGED <<runs, late, lock, faults>>, entries' \in [Runs -> Nat],
           \A r \in Runs : entries[r] <= entries'[r],
           proc[c].pc \in InTransaction, q.pc \in InTransaction, q.run = proc[c].run,
           Held(q, runs, entries')
    PROVE  LInv'
  <1>1. /\ Writes /\ late \subseteq Runs /\ faults \in 0..MaxFaults /\ lock = c
        /\ Punctual => late = {}
    BY StepWrites DEF LInv, TypeOK
  <1>2. Aimed(q, runs)
    BY DEF LInv, Aimed, Finishing, InTransaction
  <1> QED
    BY <1>1, <1>2, Advance

\* A projection that failed goes on to say so.
LEMMA FailedProc ==
    ASSUME NEW p \in Procs, p.pc \in Finishing
    PROVE  /\ Failed(p) \in Procs /\ Failed(p).pc \in {"mark", "record"}
           /\ Failed(p).run = p.run
  <1>1. p \in [pc : Finishing, cmd : {"finish", "recover"}, run : Runs,
               result : Results, seen : BOOLEAN, draft : Rows]
    BY Shape
  <1>2. /\ Failed(p) \in [pc : Finishing, cmd : {"finish", "recover"}, run : Runs,
                          result : Results, seen : BOOLEAN, draft : Rows]
        /\ Failed(p).pc \in {"mark", "record"} /\ Failed(p).run = p.run
    BY <1>1, RowTypes DEF Failed, Finishing
  <1> QED
    BY <1>2 DEF Procs

\* A rolled back transaction leaves the committed row as it was.
LEMMA RolledBack ==
    ASSUME LInv, [Next]_vars, NEW c \in Clients, proc[c].pc \in InTransaction, Rollback(c),
           UNCHANGED runs, late' \subseteq Runs, Punctual => late' = {},
           faults' \in 0..MaxFaults,
           entries' \in [Runs -> Nat], \A r \in Runs : entries[r] <= entries'[r]
    PROVE  LInv'
  <1> DEFINE p == proc[c]
             q == Failed(p)
  <1>1. p \in Procs /\ p.pc \in Finishing /\ Aimed(p, runs)
    BY DEF LInv, TypeOK, Finishing
  <1>2. q \in Procs /\ q.pc \in {"mark", "record"} /\ q.run = p.run
    BY <1>1, FailedProc
  <1>3. Enter(c, q) /\ lock' = Free
    BY DEF Rollback
  <1> HIDE DEF q
  <1>4. Aimed(q, runs) /\ q.pc \notin InTransaction
    BY <1>1, <1>2 DEF Aimed, Finishing, InTransaction
  <1>5. Held(q, runs', entries')
    BY <1>4 DEF Held
  <1>6. Writes /\ lock = c /\ Free # c
    BY StepWrites, TimersAssumption DEF LInv
  <1> QED
    BY <1>2, <1>3, <1>4, <1>5, <1>6, Advance

\* An idle process is no threat.
LEMMA IdleProc ==
    Idle \in Procs /\ Idle.pc \notin InTransaction /\ \A t : Aimed(Idle, t)
  BY DEF Procs, Idle, InTransaction, Finishing, Aimed

\* A command is asked for.
LEMMA StartKeeps ==
    ASSUME LInv, NEW c \in Clients, Start(c)
    PROVE  LInv'
  <1>1. [Next]_vars /\ proc[c] \in Procs /\ faults \in 0..MaxFaults
    BY DEF Next, LInv, TypeOK
  <1>2. CASE StartLoad(c)
    <2>1. PICK r \in Runs, i \in Issues : Enter(c, [pc |-> "insert", run |-> r, issue |-> i])
      BY <1>2 DEF StartLoad
    <2> DEFINE q == [pc |-> "insert", run |-> r, issue |-> i]
    <2>2. q \in Procs /\ q.pc \notin Finishing /\ q.pc \notin InTransaction /\ Enter(c, q)
      BY <2>1 DEF Procs, Finishing, InTransaction
    <2>3. proc[c].pc \notin InTransaction /\ UNCHANGED <<runs, entries, late, lock, faults>>
      BY <1>2 DEF StartLoad, At, InTransaction
    <2> HIDE DEF q
    <2> QED
      BY <1>1, <2>2, <2>3, Outside DEF Aimed
  <1>3. ASSUME NEW r \in Runs, NEW res \in Results, FinishAsk(c, r, res) PROVE LInv'
    <2> DEFINE q == [pc |-> "load", cmd |-> "finish", run |-> r, result |-> res,
                     seen |-> FALSE, draft |-> NoRow]
    <2>1. /\ q \in Procs /\ q.pc = "load" /\ q.pc \notin InTransaction /\ q.run = r
      BY RowTypes DEF Procs, Finishing, InTransaction
    <2>2. /\ proc[c].pc \notin InTransaction /\ UNCHANGED <<runs, entries, late, lock, faults>>
          /\ runs[r].status # "absent" /\ Enter(c, q)
      BY <1>3 DEF FinishAsk, At, InTransaction
    <2> HIDE DEF q
    <2> QED
      BY <1>1, <2>1, <2>2, Outside DEF Aimed
  <1>4. ASSUME NEW r \in Runs, RecoverAsk(c, r) PROVE LInv'
    <2> DEFINE q == [pc |-> IF Running(r) THEN "load" ELSE "reset", cmd |-> "recover",
                     run |-> r, result |-> "FAILED", seen |-> FALSE, draft |-> NoRow]
    <2>1. /\ q.pc = IF Running(r) THEN "load" ELSE "reset"
          /\ q.pc \notin InTransaction /\ q.run = r
      BY DEF InTransaction
    <2>2. q \in Procs
      BY RowTypes, TimersAssumption DEF Procs, Finishing
    <2>3. /\ proc[c].pc \notin InTransaction /\ UNCHANGED <<runs, entries, late, lock, faults>>
          /\ Running(r) \/ Finished(r)
          /\ Enter(c, q)
      BY <1>4 DEF RecoverAsk, At, InTransaction
    <2> HIDE DEF q
    <2>4. Aimed(q, runs')
      BY <2>1, <2>3, TimersAssumption DEF Aimed, Running, Finished
    <2> QED
      BY <1>1, <2>1, <2>2, <2>3, <2>4, Outside
  <1>5. ASSUME NEW open \in BOOLEAN, SweepList(c, open) PROVE LInv'
    <2>1. PICK i \in Issues, todo \in SUBSET Runs :
             Enter(c, [pc |-> "sweep", issue |-> i, todo |-> todo, open |-> open])
      BY <1>5 DEF SweepList
    <2> DEFINE q == [pc |-> "sweep", issue |-> i, todo |-> todo, open |-> open]
    <2>2. q \in Procs /\ q.pc \notin Finishing /\ q.pc \notin InTransaction /\ Enter(c, q)
      BY <2>1 DEF Procs, Finishing, InTransaction
    <2>3. proc[c].pc \notin InTransaction /\ UNCHANGED <<runs, entries, late, lock, faults>>
      BY <1>5 DEF SweepList, At, InTransaction
    <2> HIDE DEF q
    <2> QED
      BY <1>1, <2>2, <2>3, Outside DEF Aimed
  <1> QED
    BY <1>2, <1>3, <1>4, <1>5 DEF Start

\* What a finish or recover keeps when it goes on, when it notes what it saw
\* and when it has a new draft.
LEMMA Moved ==
    ASSUME NEW p \in Procs, p.pc \in Finishing, NEW step \in Finishing
    PROVE  /\ [p EXCEPT !.pc = step] \in Procs
           /\ [p EXCEPT !.pc = step].pc = step
           /\ [p EXCEPT !.pc = step].run = p.run
           /\ [p EXCEPT !.pc = step].draft = p.draft
           /\ p.run \in Runs /\ p.draft \in Rows /\ p.result \in Results
  <1>1. p \in [pc : Finishing, cmd : {"finish", "recover"}, run : Runs,
               result : Results, seen : BOOLEAN, draft : Rows]
    BY Shape
  <1> QED
    BY <1>1 DEF Procs

LEMMA MovedSeeing ==
    ASSUME NEW p \in Procs, p.pc \in Finishing, NEW row
    PROVE  LET q == [p EXCEPT !.pc = "resolve", !.seen = Projected(row)]
           IN  q \in Procs /\ q.pc = "resolve" /\ q.run = p.run
  <1>1. p \in [pc : Finishing, cmd : {"finish", "recover"}, run : Runs,
               result : Results, seen : BOOLEAN, draft : Rows]
    BY Shape
  <1>2. Projected(row) \in BOOLEAN /\ "resolve" \in Finishing
    BY DEF Projected, Finishing
  <1> QED
    BY <1>1, <1>2 DEF Procs

LEMMA MovedDrafting ==
    ASSUME NEW p \in Procs, p.pc \in Finishing, NEW step \in Finishing, NEW row \in Rows
    PROVE  LET q == [p EXCEPT !.pc = step, !.draft = row]
           IN  q \in Procs /\ q.pc = step /\ q.run = p.run /\ q.draft = row
  <1>1. p \in [pc : Finishing, cmd : {"finish", "recover"}, run : Runs,
               result : Results, seen : BOOLEAN, draft : Rows]
    BY Shape
  <1> QED
    BY <1>1 DEF Procs

\* The steps of start, of the lifecycle sweep, and of finish and recover
\* outside the lock.
LEMMA CommandKeeps ==
    ASSUME LInv, NEW c \in Clients, Step(c), ~Project(c)
    PROVE  LInv'
  <1> DEFINE p == proc[c]
  <1>1. /\ [Next]_vars /\ p \in Procs /\ Aimed(p, runs) /\ runs \in [Runs -> Rows]
        /\ faults \in 0..MaxFaults
    BY DEF Next, LInv, TypeOK
  <1>2. /\ entries \in [Runs -> Nat] /\ Writes
        /\ \A r \in Runs : entries[r] <= entries[r]
    BY <1>1, StepWrites DEF LInv, TypeOK
  <1>3. ASSUME Enter(c, Idle), lock = Free \/ UNCHANGED runs,
               p.pc \notin InTransaction, UNCHANGED <<entries, late, lock, faults>>
        PROVE  LInv'
    BY <1>1, <1>3, IdleProc, Outside
  <1>4. ASSUME NEW q \in Procs, q.pc \notin Finishing, Enter(c, q),
               lock = Free \/ UNCHANGED runs,
               p.pc \notin InTransaction, UNCHANGED <<entries, late, lock, faults>>
        PROVE  LInv'
    BY <1>1, <1>4, Outside DEF Aimed, Finishing
  <1>5. CASE StartInsert(c) \/ MarkFailed(c) \/ RecordError(c) \/ AutoStart(c)
    BY <1>3, <1>5 DEF StartInsert, MarkFailed, RecordError, AutoStart, At, InTransaction, Done
  <1>6. CASE FinishLoad(c)
    <2> DEFINE row == runs[p.run]
    <2>1. /\ p.pc = "load" /\ p.pc \notin InTransaction /\ p.pc \in Finishing
          /\ UNCHANGED <<runs, entries, late, lock, faults>>
      BY <1>6 DEF FinishLoad, At, InTransaction, Finishing
    <2>2. p.run \in Runs /\ p.result \in Results
      BY <1>1, <2>1, Moved
    <2>3. CASE row.status = "running" /\ Goto(c, "write")
      <3> DEFINE q == [p EXCEPT !.pc = "write"]
      <3>1. q \in Procs /\ q.pc = "write" /\ q.run = p.run /\ Enter(c, q)
        BY <1>1, <2>1, <2>3, Moved DEF Goto, Finishing
      <3> HIDE DEF q
      <3>2. Aimed(q, runs') /\ q.pc \notin InTransaction
        BY <2>1, <2>3, <3>1 DEF Aimed, InTransaction
      <3> QED
        BY <1>1, <2>1, <3>1, <3>2, Outside
    <2>4. CASE /\ row.status = p.result
               /\ Enter(c, [p EXCEPT !.pc = "resolve", !.seen = Projected(row)])
      <3> DEFINE q == [p EXCEPT !.pc = "resolve", !.seen = Projected(row)]
      <3>1. q \in Procs /\ q.pc = "resolve" /\ q.run = p.run /\ Enter(c, q)
        BY <1>1, <2>1, <2>4, MovedSeeing
      <3> HIDE DEF q
      <3>2. Aimed(q, runs') /\ q.pc \notin InTransaction
        BY <2>1, <2>2, <2>4, <3>1, TimersAssumption DEF Aimed, InTransaction
      <3> QED
        BY <1>1, <2>1, <3>1, <3>2, Outside
    <2>5. CASE Done(c)
      BY <1>3, <2>1, <2>5 DEF Done
    <2> QED
      BY <1>6, <2>3, <2>4, <2>5 DEF FinishLoad
  <1>7. CASE FinishWrite(c)
    <2>1. /\ p.pc = "write" /\ p.pc \notin InTransaction /\ p.pc \in Finishing
          /\ UNCHANGED <<entries, late, lock, faults>> /\ lock = Free
      BY <1>7 DEF FinishWrite, At, InTransaction, Finishing
    <2>2. CASE Write(p.run, FinishedRow(runs[p.run], p.result)) /\ Goto(c, "reload")
      <3> DEFINE q == [p EXCEPT !.pc = "reload"]
      <3>1. /\ q \in Procs /\ q.pc = "reload" /\ q.run = p.run /\ Enter(c, q)
            /\ p.run \in Runs /\ p.result \in Results
        BY <1>1, <2>1, <2>2, Moved DEF Goto, Finishing
      <3> HIDE DEF q
      <3>2. runs'[p.run].status \in Results
        BY <1>1, <2>2, <3>1 DEF Write, FinishedRow, Rows
      <3>3. Aimed(q, runs') /\ q.pc \notin InTransaction
        BY <3>1, <3>2, TimersAssumption DEF Aimed, InTransaction
      <3> QED
        BY <1>1, <2>1, <3>1, <3>3, Outside
    <2>3. CASE Done(c)
      BY <1>3, <2>1, <2>3 DEF Done
    <2> QED
      BY <1>7, <2>2, <2>3 DEF FinishWrite
  <1>8. CASE RecoverReset(c)
    <2>1. /\ p.pc = "reset" /\ p.pc \notin InTransaction /\ p.pc \in Finishing
          /\ UNCHANGED <<entries, late, lock, faults>> /\ lock = Free
          /\ Goto(c, "reload") \/ Done(c)
      BY <1>8 DEF RecoverReset, At, InTransaction, Finishing
    <2>2. CASE Goto(c, "reload")
      <3> DEFINE q == [p EXCEPT !.pc = "reload"]
      <3>1. /\ q \in Procs /\ q.pc = "reload" /\ q.run = p.run /\ Enter(c, q)
            /\ p.run \in Runs
        BY <1>1, <2>1, <2>2, Moved DEF Goto, Finishing
      <3> HIDE DEF q
      <3>2. Aimed(p, runs')
        BY <1>1, <1>2, <2>1, <3>1, LedgerKept
      <3>3. Aimed(q, runs') /\ q.pc \notin InTransaction
        BY <2>1, <3>1, <3>2 DEF Aimed, InTransaction, Finishing
      <3> QED
        BY <1>1, <2>1, <3>1, <3>3, Outside
    <2>3. CASE Done(c)
      BY <1>3, <2>1, <2>3 DEF Done
    <2> QED
      BY <2>1, <2>2, <2>3
  <1>9. CASE FinishReload(c)
    <2> DEFINE q == [p EXCEPT !.pc = "resolve", !.seen = Projected(runs[p.run])]
    <2>1. /\ p.pc = "reload" /\ p.pc \notin InTransaction /\ p.pc \in Finishing
          /\ UNCHANGED <<runs, entries, late, lock, faults>> /\ Enter(c, q)
      BY <1>9 DEF FinishReload, At, InTransaction, Finishing
    <2>2. q \in Procs /\ q.pc = "resolve" /\ q.run = p.run
      BY <1>1, <2>1, MovedSeeing
    <2> HIDE DEF q
    <2>3. Aimed(q, runs') /\ q.pc \notin InTransaction
      BY <1>1, <2>1, <2>2 DEF Aimed, InTransaction, Finishing
    <2> QED
      BY <1>1, <2>1, <2>2, <2>3, Outside
  <1>10. CASE Resolve(c)
    <2>1. /\ p.pc = "resolve" /\ p.pc \notin InTransaction /\ p.pc \in Finishing
          /\ UNCHANGED <<runs, entries, late, lock, faults>>
          /\ Done(c) \/ Goto(c, "begin") \/ Enter(c, Failed(p))
      BY <1>10, TimersAssumption DEF Resolve, At, InTransaction, Finishing
    <2>2. CASE Done(c)
      BY <1>3, <2>1, <2>2 DEF Done
    <2>3. CASE Goto(c, "begin")
      <3> DEFINE q == [p EXCEPT !.pc = "begin"]
      <3>1. q \in Procs /\ q.pc = "begin" /\ q.run = p.run /\ Enter(c, q)
        BY <1>1, <2>1, <2>3, Moved DEF Goto, Finishing
      <3> HIDE DEF q
      <3>2. Aimed(q, runs') /\ q.pc \notin InTransaction
        BY <1>1, <2>1, <3>1 DEF Aimed, InTransaction, Finishing
      <3> QED
        BY <1>1, <2>1, <3>1, <3>2, Outside
    <2>4. CASE Enter(c, Failed(p))
      <3> DEFINE q == Failed(p)
      <3>1. /\ q \in Procs /\ q.pc \in {"mark", "record"} /\ q.run = p.run
            /\ Enter(c, q)
        BY <1>1, <2>1, <2>4, FailedProc
      <3> HIDE DEF q
      <3>2. Aimed(q, runs') /\ q.pc \notin InTransaction
        BY <1>1, <2>1, <3>1 DEF Aimed, InTransaction, Finishing
      <3> QED
        BY <1>1, <2>1, <3>1, <3>2, Outside
    <2> QED
      BY <2>1, <2>2, <2>3, <2>4
  <1>11. ASSUME p.pc \in {"sweep", "close"}
         PROVE  Swept(p) \in Procs /\ Swept(p).pc \notin Finishing
    BY <1>1, <1>11, Shape, IdleProc DEF Swept, Procs, Idle, Finishing, InTransaction
  <1>12. CASE SweepLoad(c)
    <2>1. p.pc = "sweep" /\ UNCHANGED <<runs, entries, late, lock, faults>>
      BY <1>12 DEF SweepLoad, At
    <2>2. p \in [pc : {"sweep"}, issue : Issues, todo : SUBSET Runs, open : BOOLEAN]
      BY <1>1, <2>1, Shape
    <2>3. PICK q : /\ Enter(c, q)
                   /\ \/ q = Swept(p)
                      \/ \E r \in p.todo :
                            \/ q = [pc |-> "close", issue |-> p.issue, open |-> p.open,
                                    todo |-> p.todo \ {r}, run |-> r]
                            \/ q = [p EXCEPT !.todo = @ \ {r}]
      BY <1>12 DEF SweepLoad
    <2>4. q \in Procs /\ q.pc \notin Finishing
      <3>1. CASE q = Swept(p)
        BY <1>11, <2>1, <3>1
      <3>2. ASSUME NEW r \in p.todo,
                   q = [pc |-> "close", issue |-> p.issue, open |-> p.open,
                        todo |-> p.todo \ {r}, run |-> r]
            PROVE  q \in Procs /\ q.pc \notin Finishing
        BY <2>2, <3>2 DEF Procs, Finishing, InTransaction
      <3>3. ASSUME NEW r \in p.todo, q = [p EXCEPT !.todo = @ \ {r}]
            PROVE  q \in Procs /\ q.pc \notin Finishing
        BY <2>2, <3>3 DEF Procs, Finishing, InTransaction
      <3> QED
        BY <2>3, <3>1, <3>2, <3>3
    <2> QED
      BY <1>4, <2>1, <2>3, <2>4 DEF InTransaction
  <1>13. CASE SweepWrite(c)
    <2> DEFINE q == [pc |-> "sweep", issue |-> p.issue, todo |-> p.todo, open |-> p.open]
    <2>1. /\ p.pc = "close" /\ UNCHANGED <<entries, late, lock, faults>> /\ lock = Free
          /\ Enter(c, q) \/ Enter(c, Swept(p))
      BY <1>13 DEF SweepWrite, At
    <2>2. q \in Procs /\ q.pc \notin Finishing
      BY <1>1, <2>1, Shape DEF Procs, Finishing, InTransaction
    <2> HIDE DEF q
    <2> QED
      BY <1>4, <1>11, <2>1, <2>2 DEF InTransaction
  <1> QED
    BY <1>5, <1>6, <1>7, <1>8, <1>9, <1>10, <1>12, <1>13 DEF Step

\* The row a projection leaves behind a listing or a request.
LEMMA MarkedRow ==
    ASSUME NEW row \in Rows, NEW sync \in Syncs, NEW n \in Nat
    PROVE  /\ Marked(row, sync, n) \in Rows
           /\ Marked(row, sync, n).sync = sync
           /\ Marked(row, sync, n).status = row.status
           /\ Marked(row, sync, n).entry = IF row.entry # 0 THEN row.entry ELSE n
  <1>1. Marked(row, sync, n) \in Rows
    BY RowTypes
  <1> QED
    BY <1>1 DEF Marked, Rows

\* The steps of a projection, from begin_projection to its commit.
LEMMA ProjectKeeps ==
    ASSUME LInv, NEW c \in Clients, Project(c)
    PROVE  LInv'
  <1> DEFINE p == proc[c]
             r == p.run
             row == p.draft
  <1>1. /\ [Next]_vars /\ p \in Procs /\ Aimed(p, runs) /\ Held(p, runs, entries)
        /\ runs \in [Runs -> Rows] /\ entries \in [Runs -> Nat] /\ Ledger(runs, entries)
        /\ late \subseteq Runs /\ faults \in 0..MaxFaults /\ Free # c
        /\ Punctual => late = {}
    BY TimersAssumption DEF Next, Step, LInv, TypeOK
  <1>2. \A s \in Runs : entries[s] <= entries[s]
    BY <1>1
  <1>3. ASSUME p.pc \in InTransaction
        PROVE  /\ r \in Runs /\ row \in Rows /\ runs[r].status \in Results
               /\ row.status \in Results /\ Sound(row, entries[r])
    <2>1. r \in Runs /\ row \in Rows
      BY <1>1, <1>3, Shape DEF Finishing
    <2>2. runs[r].status \in Results
      BY <1>1, <1>3 DEF Aimed, Finishing, InTransaction
    <2> QED
      BY <1>1, <1>3, <2>1, <2>2 DEF Held
  <1>4. ASSUME p.pc \in InTransaction, NEW step \in InTransaction \ {"post"}, NEW new \in Rows,
               Draft(c, step, new), UNCHANGED <<runs, late, lock, faults>>,
               entries' \in [Runs -> Nat], \A s \in Runs : entries[s] <= entries'[s],
               new.status = row.status, Sound(new, entries'[r]),
               runs[r].sync # "synced", step = "commit" => new.sync # "projecting"
        PROVE  LInv'
    <2>1. PICK q : /\ q = [p EXCEPT !.pc = step, !.draft = new] /\ Enter(c, q)
      BY <1>4 DEF Draft
    <2>2. q \in Procs /\ q.pc = step /\ q.run = r /\ q.draft = new
      <3>1. p \in [pc : Finishing, cmd : {"finish", "recover"}, run : Runs,
                   result : Results, seen : BOOLEAN, draft : Rows]
        BY <1>1, <1>4, Shape DEF Finishing
      <3> QED
        BY <1>4, <2>1, <3>1 DEF Procs, Finishing
    <2>3. Held(q, runs, entries')
      BY <1>1, <1>4, <2>2 DEF Held
    <2> QED
      BY <1>1, <1>4, <2>1, <2>2, <2>3, Inside
  <1>5. ASSUME p.pc \in InTransaction, NEW step \in InTransaction, Goto(c, step),
               UNCHANGED <<runs, entries, late, lock, faults>>,
               runs[r].sync = "synced" => step = "commit",
               step = "post" => entries[r] = 0,
               step = "commit" => row.sync # "projecting"
        PROVE  LInv'
    <2>1. PICK q : q = [p EXCEPT !.pc = step] /\ Enter(c, q)
      BY <1>5 DEF Goto
    <2>2. q \in Procs /\ q.pc = step /\ q.run = r /\ q.draft = row
      <3>1. p \in [pc : Finishing, cmd : {"finish", "recover"}, run : Runs,
                   result : Results, seen : BOOLEAN, draft : Rows]
        BY <1>1, <1>5, Shape DEF Finishing
      <3> QED
        BY <1>5, <2>1, <3>1 DEF Procs, Finishing
    <2>3. Held(q, runs, entries)
      BY <1>1, <1>5, <2>2 DEF Held
    <2> QED
      BY <1>1, <1>2, <1>5, <2>1, <2>2, <2>3, Inside
  <1>6. CASE Begin(c)
    <2>1. /\ p.pc = "begin" /\ p.pc \in Finishing /\ lock = Free /\ lock' = c
          /\ UNCHANGED <<runs, entries, late, faults>>
          /\ Enter(c, [p EXCEPT !.pc = "claim", !.draft = runs[r]])
      BY <1>6 DEF Begin, At, Finishing
    <2> DEFINE q == [p EXCEPT !.pc = "claim", !.draft = runs[r]]
    <2>2. p \in [pc : Finishing, cmd : {"finish", "recover"}, run : Runs,
                 result : Results, seen : BOOLEAN, draft : Rows]
      BY <1>1, <2>1, Shape
    <2>3. q \in Procs /\ q.pc = "claim" /\ q.run = r /\ q.draft = runs[r] /\ r \in Runs
      BY <1>1, <2>2 DEF Procs, Finishing, InTransaction
    <2>4. Enter(c, q)
      BY <2>1
    <2> HIDE DEF q
    <2>5. Aimed(q, runs) /\ q.pc \in InTransaction
      BY <1>1, <2>1, <2>3 DEF Aimed, Finishing, InTransaction
    <2>6. Held(q, runs, entries)
      BY <1>1, <2>3 DEF Held, Ledger
    <2>7. Writes
      BY <2>1 DEF Writes
    <2> QED
      BY <1>1, <1>2, <2>1, <2>3, <2>4, <2>5, <2>6, <2>7, Advance
  <1>7. CASE Claim(c)
    <2>1. p.pc = "claim" /\ p.pc \in InTransaction /\ UNCHANGED <<runs, entries, late, faults>>
      BY <1>7 DEF Claim, At, InTransaction
    <2>2. CASE /\ row.sync \in {"pending", "failed", "unconfirmed"} /\ UNCHANGED lock
               /\ Draft(c, "activity", [row EXCEPT !.sync = "projecting", !.token = c,
                                                   !.fresh = TRUE])
      <3> DEFINE new == [row EXCEPT !.sync = "projecting", !.token = c, !.fresh = TRUE]
      <3>1. /\ new \in Rows /\ new.status = row.status /\ new.entry = row.entry
            /\ new.sync = "projecting"
        BY <1>3, <2>1 DEF Rows, Syncs
      <3>2. Draft(c, "activity", new)
        BY <2>2
      <3> HIDE DEF new
      <3>3. Sound(new, entries[r]) /\ runs[r].sync # "synced"
        BY <1>1, <1>3, <2>1, <2>2, <3>1 DEF Sound, Held
      <3> QED
        BY <1>1, <1>2, <1>4, <2>1, <2>2, <3>1, <3>2, <3>3 DEF InTransaction
    <2>3. CASE Projected(row) /\ Goto(c, "commit") /\ UNCHANGED lock
      BY <1>5, <2>1, <2>3 DEF Projected, InTransaction
    <2>4. CASE Rollback(c)
      BY <1>1, <1>2, <2>1, <2>4, RolledBack
    <2> QED
      BY <1>7, <2>2, <2>3, <2>4 DEF Claim
  <1>8. CASE ChooseActivity(c)
    <2>1. /\ p.pc = "activity" /\ p.pc \in InTransaction
          /\ UNCHANGED <<runs, entries, late, lock, faults>>
      BY <1>8 DEF ChooseActivity, At, InTransaction
    <2> DEFINE new == [row EXCEPT !.activity = TRUE]
    <2>2. /\ new \in Rows /\ new.status = row.status /\ new.entry = row.entry
          /\ new.sync = row.sync /\ Draft(c, "relist", new)
      BY <1>3, <1>8, <2>1 DEF Rows, ChooseActivity
    <2> HIDE DEF new
    <2>3. Sound(new, entries[r]) /\ runs[r].sync # "synced"
      BY <1>1, <1>3, <2>1, <2>2 DEF Sound, Held
    <2> QED
      BY <1>1, <1>2, <1>4, <2>1, <2>2, <2>3 DEF InTransaction
  <1>9. CASE Relist(c)
    <2>1. /\ p.pc = "relist" /\ p.pc \in InTransaction
          /\ UNCHANGED <<runs, entries, late, faults>>
      BY <1>9 DEF Relist, At, InTransaction
    <2>2. runs[r].sync # "synced"
      BY <1>1, <2>1 DEF Held
    <2>3. CASE /\ entries[r] = 1 /\ UNCHANGED lock
               /\ Draft(c, "commit", Marked(row, "synced", 1))
      <3> DEFINE new == Marked(row, "synced", 1)
      <3>1. /\ new \in Rows /\ new.sync = "synced" /\ new.status = row.status
            /\ new.entry = IF row.entry # 0 THEN row.entry ELSE 1
        <4>1. row \in Rows /\ "synced" \in Syncs /\ 1 \in Nat
          BY <1>3, <2>1 DEF Syncs
        <4> QED
          BY <4>1, MarkedRow
      <3>2. Draft(c, "commit", new)
        BY <2>3
      <3> HIDE DEF new
      <3>3. Sound(new, entries[r])
        BY <1>3, <2>1, <2>3, <3>1 DEF Sound
      <3> QED
        BY <1>1, <1>2, <1>4, <2>1, <2>2, <2>3, <3>1, <3>2, <3>3 DEF InTransaction
    <2>4. CASE entries[r] = 0 /\ Goto(c, "post") /\ UNCHANGED lock
      BY <1>5, <2>1, <2>2, <2>4 DEF InTransaction
    <2>5. CASE Rollback(c)
      BY <1>1, <1>2, <2>1, <2>5, RolledBack
    <2> QED
      BY <1>9, <2>3, <2>4, <2>5 DEF Relist
  <1>10. CASE Post(c)
    <2>1. /\ p.pc = "post" /\ p.pc \in InTransaction
          /\ UNCHANGED <<runs, late, lock, faults>>
          /\ entries' = [entries EXCEPT ![r] = @ + 1]
      BY <1>10 DEF Post, At, InTransaction, Booked
    <2>2. /\ runs[r].sync # "synced" /\ entries' \in [Runs -> Nat]
          /\ \A s \in Runs : entries[s] <= entries'[s]
          /\ entries'[r] = entries[r] + 1 /\ entries[r] \in Nat
      BY <1>1, <1>3, <2>1 DEF Held
    <2>3. PICK sync \in {"synced", "unconfirmed"}, n \in Nat :
             /\ Draft(c, "commit", Marked(row, sync, n))
             /\ sync = "synced" => n = entries[r] + 1
             /\ sync = "unconfirmed" => n = 0
      BY <1>10, <2>2 DEF Post
    <2> DEFINE new == Marked(row, sync, n)
    <2>4. /\ new \in Rows /\ new.sync = sync /\ new.status = row.status
          /\ new.entry = IF row.entry # 0 THEN row.entry ELSE n
      <3>1. row \in Rows /\ sync \in Syncs
        BY <1>3, <2>1 DEF Syncs
      <3> QED
        BY <3>1, MarkedRow
    <2>5. Draft(c, "commit", new)
      BY <2>3
    <2> HIDE DEF new
    <2>6. Sound(new, entries'[r])
      <3>1. row.entry \in Nat /\ row.entry <= entries[r] /\ row.status \in Results
        BY <1>3, <2>1 DEF Sound, Rows
      <3> QED
        BY <2>2, <2>3, <2>4, <3>1 DEF Sound
    <2> QED
      BY <1>4, <2>1, <2>2, <2>3, <2>4, <2>5, <2>6 DEF InTransaction
  <1>11. CASE Commit(c)
    <2>1. /\ p.pc = "commit" /\ lock' = Free /\ Enter(c, Idle)
          /\ UNCHANGED <<entries, late, faults>>
      BY <1>11 DEF Commit, At, Done
    <2>2. lock = c /\ Writes
      BY <1>1, <2>1, StepWrites DEF LInv, InTransaction
    <2>3. Held(Idle, runs', entries')
      BY IdleProc DEF Held
    <2> QED
      BY <1>1, <1>2, <2>1, <2>2, <2>3, IdleProc, Advance
  <1> QED
    BY <1>6, <1>7, <1>8, <1>9, <1>10, <1>11 DEF Project

\* What goes wrong on the way.
LEMMA BreaksKeep ==
    ASSUME LInv, NEW c \in Clients, Breaks(c)
    PROVE  LInv'
  <1> DEFINE p == proc[c]
  <1>1. /\ [Next]_vars /\ p \in Procs /\ Aimed(p, runs) /\ entries \in [Runs -> Nat]
        /\ late \subseteq Runs /\ faults \in 0..MaxFaults /\ Free # c
        /\ Punctual => late = {}
        /\ \A r \in Runs : entries[r] <= entries[r]
    BY TimersAssumption DEF Next, LInv, TypeOK
  <1>2. ASSUME NEW f, Fault(f) PROVE faults' \in 0..MaxFaults
    BY <1>1, <1>2, TimersAssumption DEF Fault
  <1>3. CASE PostLost(c)
    <2>1. /\ p.pc \in InTransaction /\ p.pc \in Finishing /\ Rollback(c)
          /\ UNCHANGED <<runs, late>> /\ faults' \in 0..MaxFaults
          /\ entries' = [entries EXCEPT ![p.run] = @ + 1]
      BY <1>2, <1>3 DEF PostLost, At, InTransaction, Finishing, Booked
    <2>2. p.run \in Runs
      BY <1>1, <2>1, Shape
    <2>3. entries' \in [Runs -> Nat] /\ \A r \in Runs : entries[r] <= entries'[r]
      BY <1>1, <2>1, <2>2
    <2> QED
      BY <1>1, <2>1, <2>3, RolledBack
  <1>4. CASE PostLate(c)
    <2>1. /\ p.pc \in InTransaction /\ p.pc \in Finishing /\ Rollback(c)
          /\ UNCHANGED <<runs, entries>> /\ faults' \in 0..MaxFaults
          /\ late' = late \cup {p.run} /\ ~Punctual
      BY <1>2, <1>4 DEF PostLate, At, InTransaction, Finishing, Fault, Punctual
    <2>2. p.run \in Runs
      BY <1>1, <2>1, Shape
    <2> QED
      BY <1>1, <2>1, <2>2, RolledBack
  <1>5. CASE HttpFails(c)
    <2>1. /\ p.pc \in InTransaction /\ Rollback(c)
          /\ UNCHANGED <<runs, entries, late>> /\ faults' \in 0..MaxFaults
      BY <1>2, <1>5 DEF HttpFails, At, InTransaction
    <2> QED
      BY <1>1, <2>1, RolledBack
  <1>6. CASE Busy(c)
    <2>1. UNCHANGED <<runs, entries, late, lock>> /\ faults' \in 0..MaxFaults
      BY <1>2, <1>6 DEF Busy
    <2>2. CASE Done(c) /\ p.pc \in {"insert", "write", "reset", "mark", "record", "open"}
      BY <1>1, <2>1, <2>2, IdleProc, Outside DEF Done, InTransaction
    <2>3. CASE At(c, "begin") /\ Enter(c, Failed(p))
      <3> DEFINE q == Failed(p)
      <3>1. /\ q \in Procs /\ q.pc \in {"mark", "record"} /\ q.run = p.run
            /\ Enter(c, q) /\ p.pc = "begin"
        BY <1>1, <2>3, FailedProc DEF At, Finishing
      <3> HIDE DEF q
      <3>2. Aimed(q, runs') /\ q.pc \notin InTransaction /\ p.pc \notin InTransaction
        BY <1>1, <2>1, <3>1 DEF Aimed, InTransaction, Finishing
      <3> QED
        BY <1>1, <2>1, <3>1, <3>2, Outside
    <2>4. CASE At(c, "close") /\ Enter(c, Swept(p))
      <3> DEFINE q == Swept(p)
      <3>1. q \in Procs /\ q.pc \notin Finishing
        BY <1>1, <2>4, Shape, IdleProc DEF At, Swept, Procs, Idle, Finishing, InTransaction
      <3>2. Enter(c, q) /\ p.pc \notin InTransaction
        BY <2>4 DEF At, InTransaction
      <3> HIDE DEF q
      <3>3. Aimed(q, runs') /\ q.pc \notin InTransaction
        BY <3>1 DEF Aimed, Finishing
      <3> QED
        BY <1>1, <2>1, <3>1, <3>2, <3>3, Outside
    <2> QED
      BY <1>6, <2>2, <2>3, <2>4 DEF Busy
  <1>7. CASE Kill(c)
    <2>1. /\ lock' = (IF lock = c THEN Free ELSE lock) /\ Enter(c, Idle)
          /\ UNCHANGED <<runs, entries, late>> /\ faults' \in 0..MaxFaults
      BY <1>2, <1>7 DEF Kill, Done
    <2>2. Writes
      BY <2>1 DEF Writes
    <2>3. Held(Idle, runs', entries')
      BY IdleProc DEF Held
    <2>4. CASE lock = c
      BY <1>1, <2>1, <2>2, <2>3, <2>4, IdleProc, Advance
    <2>5. CASE lock # c
      BY <1>1, <2>1, <2>2, <2>3, <2>5, IdleProc, Advance
    <2> QED
      BY <2>4, <2>5
  <1> QED
    BY <1>3, <1>4, <1>5, <1>6, <1>7 DEF Breaks

\* A late request arrives, the window of a claim ends, or nothing happens.
LEMMA EnvironmentKeeps ==
    ASSUME LInv, LateArrives \/ (\E r \in Runs : Expire(r)) \/ UNCHANGED vars
    PROVE  LInv'
  <1>1. /\ runs \in [Runs -> Rows] /\ entries \in [Runs -> Nat]
        /\ proc \in [Clients -> Procs] /\ late \subseteq Runs
        /\ Punctual => late = {}
        /\ UNCHANGED <<proc, lock, faults>>
    BY DEF LInv, TypeOK, LateArrives, Expire, vars
  <1>2. /\ entries' \in [Runs -> Nat] /\ late' \subseteq Runs
        /\ Punctual => late' = {} /\ UNCHANGED entries
        /\ \A r \in Runs : entries[r] <= entries'[r]
    <2>1. CASE LateArrives
      <3>1. PICK r \in late : entries' = [entries EXCEPT ![r] = @ + 1] /\ late' = late \ {r}
        BY <2>1 DEF LateArrives, Booked
      <3> QED
        BY <1>1, <3>1
    <2>2. CASE ~LateArrives
      <3>1. UNCHANGED <<entries, late>>
        BY <2>2 DEF Expire, vars
      <3> QED
        BY <1>1, <3>1
    <2> QED
      BY <2>1, <2>2
  <1>3. Writes
    BY StepWrites DEF Next
  <1>4. \A r \in Runs : /\ runs'[r].status = runs[r].status
                        /\ runs'[r].sync = runs[r].sync
                        /\ runs'[r].entry = runs[r].entry
    <2>1. CASE UNCHANGED runs
      BY <2>1
    <2>2. ASSUME NEW s \in Runs, Expire(s)
          PROVE  \A r \in Runs : /\ runs'[r].status = runs[r].status
                                 /\ runs'[r].sync = runs[r].sync
                                 /\ runs'[r].entry = runs[r].entry
      BY <1>1, <2>2 DEF Expire, Write, Rows
    <2> QED
      BY <2>1, <2>2 DEF LateArrives, vars
  <1>5. runs' \in [Runs -> Rows] /\ Ledger(runs', entries')
    BY <1>2, <1>3, LedgerKept
  <1>6. ASSUME NEW c \in Clients
        PROVE  Aimed(proc[c], runs') /\ Held(proc[c], runs', entries')
    <2> DEFINE p == proc[c]
    <2>1. p \in Procs /\ Aimed(p, runs) /\ Held(p, runs, entries)
      BY <1>1 DEF LInv
    <2>2. CASE p.pc \in Finishing
      <3>1. p.run \in Runs /\ p.draft \in Rows
        BY <2>1, <2>2, Shape
      <3>2. Sound(p.draft, entries[p.run]) => Sound(p.draft, entries'[p.run])
        BY <1>1, <1>2, <3>1 DEF Sound, Rows
      <3> QED
        BY <1>2, <1>4, <2>1, <3>1, <3>2 DEF Aimed, Held
    <2>3. CASE p.pc \notin Finishing
      BY <2>3 DEF Aimed, Held, Finishing
    <2> QED
      BY <2>2, <2>3
  <1> QED
    BY <1>1, <1>2, <1>5, <1>6 DEF LInv, TypeOK

\* A ledger with abandoned claims of an older version and nobody at work.
LEMMA InitKeeps == Init => LInv
  <1> SUFFICES ASSUME Init PROVE LInv
    OBVIOUS
  <1>1. ASSUME NEW i \in Issues, NEW res \in Inherited, NEW f \in BOOLEAN
        PROVE  /\ Abandoned(i, res, f) \in Rows /\ Abandoned(i, res, f).entry = 0
               /\ Abandoned(i, res, f).sync = "projecting"
               /\ Abandoned(i, res, f).token = Legacy
    BY <1>1, TimersAssumption DEF Abandoned, NoRow, Rows, Syncs
  <1>2. NoRow \in Rows /\ NoRow.entry = 0 /\ NoRow.sync = "pending"
    BY RowTypes DEF NoRow
  <1>3. /\ runs \in [Runs -> Rows] /\ entries \in [Runs -> Nat]
        /\ \A r \in Runs : /\ runs[r].entry = 0 /\ runs[r].sync # "synced"
                           /\ Unclaimed(runs[r])
    BY <1>1, <1>2 DEF Init, Unclaimed
  <1>4. Ledger(runs, entries)
    BY <1>3 DEF Ledger, Sound
  <1>5. \A c \in Clients : /\ proc[c].pc \in InTransaction <=> lock = c
                           /\ Aimed(proc[c], runs) /\ Held(proc[c], runs, entries)
    BY IdleProc, TimersAssumption DEF Init, Held
  <1>6. TypeOK
    BY <1>3, IdleProc, TimersAssumption DEF Init, TypeOK
  <1> QED
    BY <1>4, <1>5, <1>6 DEF LInv, Init

LEMMA StepKeeps == LInv /\ [Next]_vars => LInv'
  BY StartKeeps, CommandKeeps, ProjectKeeps, BreaksKeep, EnvironmentKeeps DEF Next, Step

\* Every behaviour keeps the drafts of held transactions in step with the
\* ledger and the ledger in step with Redmine.
THEOREM LedgerInductive == Spec => []LInv
  <1>1. LInv /\ [Next]_vars => LInv'
    BY StepKeeps
  <1> QED
    BY InitKeeps, <1>1, PTL DEF Spec

\* The commands only write rows of the ledger's types and never hold a draft
\* of a run that is not there.
THEOREM TypeCorrect == Spec => []TypeOK
  <1>1. LInv => TypeOK
    BY DEF LInv
  <1> QED
    BY LedgerInductive, <1>1, PTL

\* A synced row carries the id of an entry that is at Redmine, whatever was
\* lost, rolled back, late or killed (projection_redmine.rs).
THEOREM SyncedIsBacked == Spec => []SyncedIsBooked
  <1>1. LInv => SyncedIsBooked
    <2> SUFFICES ASSUME LInv, NEW r \in Runs, runs[r].sync = "synced"
                 PROVE  runs[r].entry \in 1..entries[r]
      BY DEF SyncedIsBooked
    <2>1. /\ runs[r].entry \in Nat /\ entries[r] \in Nat
          /\ runs[r].entry <= entries[r] /\ runs[r].entry # 0
      BY DEF LInv, TypeOK, Rows, Ledger, Sound
    <2> QED
      BY <2>1
  <1> QED
    BY LedgerInductive, <1>1, PTL

\* A process that dies in its projection leaves no claim behind.
THEOREM NoClaimLeft == Spec => []ClaimsAreInherited
  <1>1. LInv => ClaimsAreInherited
    BY DEF LInv, Ledger, Unclaimed, ClaimsAreInherited
  <1> QED
    BY LedgerInductive, <1>1, PTL

\* An acknowledged projection is never lost again.
THEOREM SyncIsKept == Spec => SyncedStays
  <1> DEFINE Stays == \A r \in Runs : runs[r].sync = "synced" =>
                         runs'[r].sync = "synced" /\ runs'[r].entry = runs[r].entry
  <1>1. LInv /\ [Next]_vars => [Stays]_vars
    <2> SUFFICES ASSUME LInv, [Next]_vars, NEW r \in Runs, runs[r].sync = "synced"
                 PROVE  runs'[r].sync = "synced" /\ runs'[r].entry = runs[r].entry
      OBVIOUS
    <2>1. CASE UNCHANGED runs
      BY <2>1
    <2>2. ASSUME NEW s \in Runs, NEW row, Fits(s, row), Write(s, row)
          PROVE  runs'[r].sync = "synced" /\ runs'[r].entry = runs[r].entry
      <3>1. runs'[r] = IF r = s THEN row ELSE runs[r]
        BY <2>2 DEF Write, LInv, TypeOK
      <3> QED
        BY <2>2, <3>1 DEF Fits
    <2> QED
      BY <2>1, <2>2, StepWrites DEF Writes
  <1> QED
    BY LedgerInductive, <1>1, PTL DEF Spec, SyncedStays

\* Who books an entry: the process that posts, while the ledger stays as it
\* is, or a request that Redmine acts on late.
LEMMA StepBooks ==
    ASSUME LInv, [Next]_vars
    PROVE  \/ UNCHANGED entries
           \/ /\ UNCHANGED runs
              /\ \E c \in Clients : proc[c].pc = "post" /\ Booked(proc[c].run)
           \/ UNCHANGED runs /\ \E r \in late : Booked(r)
  <1>1. ASSUME NEW c \in Clients, Start(c) PROVE UNCHANGED entries
    BY <1>1 DEF Start, StartLoad, FinishAsk, RecoverAsk, SweepList
  <1>2. ASSUME NEW c \in Clients, Step(c)
        PROVE  \/ UNCHANGED entries
               \/ UNCHANGED runs /\ proc[c].pc = "post" /\ Booked(proc[c].run)
    BY <1>2 DEF Step, Project, StartInsert, FinishLoad, FinishWrite, RecoverReset,
       FinishReload, Resolve, Begin, Claim, ChooseActivity, Relist, Post, Commit,
       MarkFailed, RecordError, SweepLoad, SweepWrite, AutoStart, At
  <1>3. ASSUME NEW c \in Clients, Breaks(c)
        PROVE  \/ UNCHANGED entries
               \/ UNCHANGED runs /\ proc[c].pc = "post" /\ Booked(proc[c].run)
    BY <1>3 DEF Breaks, PostLost, PostLate, HttpFails, Busy, Kill, At
  <1>4. ASSUME LateArrives PROVE UNCHANGED runs /\ \E r \in late : Booked(r)
    BY <1>4 DEF LateArrives
  <1>5. ASSUME UNCHANGED vars \/ \E r \in Runs : Expire(r) PROVE UNCHANGED entries
    BY <1>5 DEF Expire, vars
  <1> QED
    BY <1>1, <1>2, <1>3, <1>4, <1>5 DEF Next

\* The statuses after one row is written.
LEMMA StatusWritten ==
    ASSUME runs \in [Runs -> Rows], NEW r \in Runs, NEW row, Write(r, row)
    PROVE  [x \in Runs |-> runs[x].status]' =
               [[x \in Runs |-> runs[x].status] EXCEPT ![r] = row.status]
  BY DEF Write

\* As long as Redmine acts on a request before it times out, the ledger keeps
\* the promise of TimerBooking: a run starts once, ends once with one result
\* and is booked at most once, after it ended.  A step that commits, marks,
\* resets or records is a stutter there.
THEOREM BookedAtMostOnce ==
    ASSUME Punctual
    PROVE  Spec => BookedOnce
  <1> DEFINE status == [r \in Runs |-> runs[r].status]
  <1>1. Init => Booking!Init
    <2> SUFFICES ASSUME Init PROVE Booking!Init
      OBVIOUS
    <2>1. ASSUME NEW i \in Issues, NEW res \in Inherited, NEW f \in BOOLEAN
          PROVE  Abandoned(i, res, f).status \in Results
      BY <2>1, TimersAssumption DEF Abandoned, NoRow
    <2>2. \A r \in Runs : runs[r].status \in {"absent"} \cup Results
      BY <2>1 DEF Init, NoRow
    <2> QED
      BY <2>2 DEF Init, Booking!Init
  <1>2. LInv /\ [Next]_vars => [Booking!Next]_(Booking!vars)
    <2> SUFFICES ASSUME LInv, [Next]_vars PROVE [Booking!Next]_(Booking!vars)
      OBVIOUS
    <2>1. runs \in [Runs -> Rows] /\ entries \in [Runs -> Nat] /\ late = {}
      BY DEF LInv, TypeOK
    <2>2. ASSUME UNCHANGED runs, NEW c \in Clients, proc[c].pc = "post",
                 Booked(proc[c].run)
          PROVE  Booking!Next
      <3> DEFINE r == proc[c].run
      <3>1. r \in Runs /\ runs[r].status \in Results /\ entries[r] = 0
        <4>1. /\ proc[c] \in Procs /\ Aimed(proc[c], runs) /\ Held(proc[c], runs, entries)
              /\ proc[c].pc \in Finishing \ {"load", "write"}
              /\ proc[c].pc \in InTransaction
          BY <2>2 DEF LInv, TypeOK, Finishing, InTransaction
        <4> QED
          BY <2>2, <4>1, Shape DEF Aimed, Held
      <3>2. entries' = [entries EXCEPT ![r] = 1]
        BY <2>1, <2>2, <3>1 DEF Booked
      <3>3. Booking!Book(r)
        BY <2>2, <3>1, <3>2 DEF Booking!Book
      <3> QED
        BY <3>1, <3>3 DEF Booking!Next
    <2>3. ASSUME UNCHANGED entries, NEW r \in Runs, NEW row, Fits(r, row), Write(r, row)
          PROVE  Booking!Next \/ UNCHANGED Booking!vars
      <3>1. status' = [status EXCEPT ![r] = row.status] /\ status[r] = runs[r].status
        BY <2>1, <2>3, StatusWritten
      <3> HIDE DEF status
      <3>2. Turn(status[r], row.status)
        BY <2>3, <3>1 DEF Fits
      <3>3. CASE row.status = status[r]
        <4>1. status' = status
          BY <3>1, <3>3 DEF status
        <4> QED
          BY <2>3, <4>1 DEF status, Booking!vars
      <3>4. CASE status[r] = "absent" /\ row.status = "running"
        <4>1. Booking!Begin(r)
          BY <2>3, <3>1, <3>4 DEF status, Booking!Begin
        <4> QED
          BY <4>1 DEF Booking!Next
      <3>5. CASE status[r] = "running" /\ row.status \in Results
        <4>1. Booking!End(r)
          BY <2>3, <3>1, <3>5 DEF status, Booking!End
        <4> QED
          BY <4>1 DEF Booking!Next
      <3> QED
        BY <3>2, <3>3, <3>4, <3>5 DEF Turn
    <2>4. CASE UNCHANGED <<runs, entries>>
      BY <2>4 DEF Booking!vars
    <2> QED
      BY <2>1, <2>2, <2>3, <2>4, StepBooks, StepWrites DEF Writes
  <1> QED
    BY LedgerInductive, <1>1, <1>2, PTL DEF Spec, BookedOnce, Booking!Spec
=============================================================================

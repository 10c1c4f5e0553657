------------------------------- MODULE Timers -------------------------------
(***************************************************************************)
(* The execution timer ledger (time_tracking/, infra/timer_*.rs) and the   *)
(* lifecycle accounting that drives it (lifecycle_auto.rs).  A step is one *)
(* SQL statement or one HTTP call.  The projection to Redmine holds the    *)
(* database's write lock from its claim to its commit: readers see the     *)
(* committed rows meanwhile, other writers wait or give up, and a process  *)
(* that dies takes its uncommitted row with it.                            *)
(***************************************************************************)
EXTENDS Naturals, FiniteSets

CONSTANTS
    Clients,   \* phasegent processes
    Runs,      \* run ids, given or generated
    Issues,
    Results,   \* DONE, PARTIAL, BLOCKED, FAILED
    Commands,  \* the commands the processes of the instance run
    Targets,   \* where a projection may resolve to
    Faults,    \* what may go wrong
    MaxFaults, \* how often
    Inherited, \* results of the rows an older version left claimed
    AutoCap,   \* MAX_AUTO_RUNS_PER_ISSUE
    Free,      \* nobody holds the write lock, no row is claimed
    Legacy     \* a claim an older version left behind

ASSUME TimersAssumption ==
    /\ {"DONE", "FAILED"} \subseteq Results
    /\ Results \cap {"absent", "running"} = {}
    /\ Targets \subseteq {"redmine", "local", "none"}
    /\ Faults \subseteq {"http", "lost", "late", "busy", "kill"}
    /\ MaxFaults \in Nat
    /\ Inherited \subseteq Results
    /\ AutoCap \in Nat \ {0}
    /\ Free \notin Clients
    /\ Legacy \notin Clients
    /\ Free # Legacy

VARIABLES
    runs,      \* execution_timer_runs, as committed
    entries,   \* time entries at Redmine that carry the marker of each run
    late,      \* runs with a request Redmine has yet to act on
    lock,      \* the process inside BEGIN IMMEDIATE
    proc,      \* what each process is doing
    faults     \* how often something may still go wrong

vars == <<runs, entries, late, lock, proc, faults>>

Syncs == {"pending", "synced", "unconfirmed", "failed", "projecting"}

Rows == [issue : Issues \cup {Free}, status : {"absent", "running"} \cup Results, sync : Syncs,
         entry : Nat, activity : BOOLEAN, error : BOOLEAN,
         token : Clients \cup {Free, Legacy}, fresh : BOOLEAN]

Idle == [pc |-> "idle"]

\* The steps inside the held transaction, and all steps of finish and recover.
InTransaction == {"claim", "activity", "relist", "post", "commit"}
Finishing == {"load", "write", "reset", "reload", "resolve", "begin", "mark", "record"}
             \cup InTransaction

Procs ==
    {Idle}
    \cup [pc : {"insert"}, run : Runs, issue : Issues]
    \cup [pc : Finishing, cmd : {"finish", "recover"}, run : Runs, result : Results,
          seen : BOOLEAN, draft : Rows]
    \cup [pc : {"sweep"}, issue : Issues, todo : SUBSET Runs, open : BOOLEAN]
    \cup [pc : {"close"}, issue : Issues, todo : SUBSET Runs, open : BOOLEAN, run : Runs]
    \cup [pc : {"open"}, issue : Issues]

\* The ledger, the tracker, the lock and every process as the commands may
\* meet them.
TypeOK ==
    /\ runs \in [Runs -> Rows]
    /\ entries \in [Runs -> Nat]
    /\ late \subseteq Runs
    /\ lock \in Clients \cup {Free}
    /\ proc \in [Clients -> Procs]
    /\ faults \in 0..MaxFaults

NoRow ==
    [issue |-> Free, status |-> "absent", sync |-> "pending", entry |-> 0,
     activity |-> FALSE, error |-> FALSE, token |-> Free, fresh |-> FALSE]

\* A finished row whose claim an older version committed and then lost, with
\* claimed_at inside the lease window or not.
Abandoned(issue, result, fresh) ==
    [NoRow EXCEPT !.issue = issue, !.status = result, !.sync = "projecting",
                  !.token = Legacy, !.fresh = fresh]

Init ==
    /\ runs \in [Runs -> {NoRow} \cup {Abandoned(i, res, f) : i \in Issues,
                                         res \in Inherited, f \in BOOLEAN}]
    /\ entries \in [Runs -> {0, 1}]
    /\ \A r \in Runs : entries[r] = 1 => runs[r].status # "absent"
    /\ late = {}
    /\ lock = Free
    /\ proc = [c \in Clients |-> Idle]
    /\ faults = MaxFaults

Finished(r) == runs[r].status \in Results
Running(r)  == runs[r].status = "running"
Projected(row) == row.sync = "synced" /\ row.entry # 0

At(c, step) == proc[c].pc = step
Enter(c, p) == proc' = [proc EXCEPT ![c] = p]
Goto(c, step) == Enter(c, [proc[c] EXCEPT !.pc = step])
Done(c)     == Enter(c, Idle)
Fault(f)    == f \in Faults /\ faults > 0 /\ faults' = faults - 1
Write(r, row) == runs' = [runs EXCEPT ![r] = row]

(***************************************************************************)
(* timer start                                                             *)
(***************************************************************************)

\* start_timer_run_with_owner, for an id it finds no row of.  An id that is
\* there already is returned or refused and nothing is written.
StartLoad(c) ==
    /\ "start" \in Commands
    /\ At(c, "idle")
    /\ \E r \in Runs, i \in Issues :
          /\ runs[r].status = "absent"
          /\ Enter(c, [pc |-> "insert", run |-> r, issue |-> i])
    /\ UNCHANGED <<runs, entries, late, lock, faults>>

Started(i) == [NoRow EXCEPT !.issue = i, !.status = "running"]

\* The INSERT; run_id is the primary key.
StartInsert(c) ==
    /\ At(c, "insert")
    /\ lock = Free
    /\ IF runs[proc[c].run].status = "absent"
       THEN Write(proc[c].run, Started(proc[c].issue))
       ELSE UNCHANGED runs
    /\ Done(c)
    /\ UNCHANGED <<entries, late, lock, faults>>

(***************************************************************************)
(* timer finish and timer recover                                          *)
(***************************************************************************)

FinishAsk(c, r, res) ==
    /\ "finish" \in Commands
    /\ At(c, "idle")
    /\ runs[r].status # "absent"
    /\ Enter(c, [pc |-> "load", cmd |-> "finish", run |-> r, result |-> res,
                 seen |-> FALSE, draft |-> NoRow])
    /\ UNCHANGED <<runs, entries, late, lock, faults>>

\* handle_recover: a running row is finished as FAILED, a claimed one is
\* reset if it is stale, anything else is only reported.
RecoverAsk(c, r) ==
    /\ "recover" \in Commands
    /\ At(c, "idle")
    /\ \/ Running(r)
       \/ Finished(r) /\ runs[r].sync = "projecting"
    /\ Enter(c, [pc |-> IF Running(r) THEN "load" ELSE "reset", cmd |-> "recover",
                 run |-> r, result |-> "FAILED", seen |-> FALSE, draft |-> NoRow])
    /\ UNCHANGED <<runs, entries, late, lock, faults>>

\* finish_timer_run reads the row: a running one is written next, one that
\* already has this result goes on to the projection, any other is refused.
FinishLoad(c) ==
    /\ At(c, "load")
    /\ LET row == runs[proc[c].run]
       IN  \/ /\ row.status = "running"
              /\ Goto(c, "write")
           \/ /\ row.status = proc[c].result
              /\ Enter(c, [proc[c] EXCEPT !.pc = "resolve", !.seen = Projected(row)])
           \/ /\ row.status \notin {"running", proc[c].result}
              /\ Done(c)
    /\ UNCHANGED <<runs, entries, late, lock, faults>>

FinishedRow(row, res) ==
    [row EXCEPT !.status = res, !.error = FALSE,
                !.sync = IF res = "FAILED" THEN "failed"
                         ELSE IF row.entry # 0 THEN "synced" ELSE "pending"]

\* The UPDATE ... WHERE status = 'running'; changing no row is an error.
FinishWrite(c) ==
    /\ At(c, "write")
    /\ lock = Free
    /\ IF Running(proc[c].run)
       THEN /\ Write(proc[c].run, FinishedRow(runs[proc[c].run], proc[c].result))
            /\ Goto(c, "reload")
       ELSE Done(c) /\ UNCHANGED runs
    /\ UNCHANGED <<entries, late, lock, faults>>

\* reset_stale_projection_to_failed, in its own transaction.
RecoverReset(c) ==
    /\ At(c, "reset")
    /\ lock = Free
    /\ LET row == runs[proc[c].run]
       IN  IF row.sync = "projecting" /\ ~row.fresh
           THEN /\ Write(proc[c].run, [row EXCEPT !.sync = "failed", !.error = TRUE,
                                                  !.token = Free, !.fresh = FALSE])
                /\ Goto(c, "reload")
           ELSE Done(c) /\ UNCHANGED runs
    /\ UNCHANGED <<entries, late, lock, faults>>

\* The row is read again before it is projected.
FinishReload(c) ==
    /\ At(c, "reload")
    /\ Enter(c, [proc[c] EXCEPT !.pc = "resolve", !.seen = Projected(runs[proc[c].run])])
    /\ UNCHANGED <<runs, entries, late, lock, faults>>

\* Where a projection that did not go through ends: finish marks the row it
\* may own, recover records the error.
Failed(p) == [p EXCEPT !.pc = IF p.cmd = "finish" THEN "mark" ELSE "record",
                       !.draft = NoRow]

\* project_run_with_credential: nothing to do for a projected row or a local
\* task; a provider that cannot be resolved is an error.
Resolve(c) ==
    /\ At(c, "resolve")
    /\ \/ /\ proc[c].seen
          /\ Done(c)
       \/ /\ ~proc[c].seen
          /\ \E target \in Targets :
                CASE target = "redmine" -> Goto(c, "begin")
                  [] target = "local"   -> Done(c)
                  [] target = "none"    -> Enter(c, Failed(proc[c]))
    /\ UNCHANGED <<runs, entries, late, lock, faults>>

(***************************************************************************)
(* project_run_with_provider                                               *)
(***************************************************************************)

\* begin_projection takes the write lock.
Begin(c) ==
    /\ At(c, "begin")
    /\ lock = Free
    /\ lock' = c
    /\ Enter(c, [proc[c] EXCEPT !.pc = "claim", !.draft = runs[proc[c].run]])
    /\ UNCHANGED <<runs, entries, late, faults>>

\* Rolls the transaction back; the draft is gone.
Rollback(c) ==
    /\ Enter(c, Failed(proc[c]))
    /\ lock' = Free

Draft(c, step, row) == Enter(c, [proc[c] EXCEPT !.pc = step, !.draft = row])

\* Mutant of Claim: a failed projection is not claimed again.
ClaimPending(c) ==
    /\ At(c, "claim")
    /\ LET row == proc[c].draft
       IN  \/ /\ row.sync \in {"pending", "unconfirmed"}
              /\ Draft(c, "activity", [row EXCEPT !.sync = "projecting", !.token = c,
                                                  !.fresh = TRUE])
              /\ UNCHANGED lock
           \/ Projected(row) /\ Goto(c, "commit") /\ UNCHANGED lock
           \/ row.sync \in {"failed", "projecting", "synced"} /\ ~Projected(row) /\ Rollback(c)
    /\ UNCHANGED <<runs, entries, late, faults>>

\* try_claim_timer_projection, and what follows when it claims nothing.
Claim(c) ==
    /\ At(c, "claim")
    /\ LET row == proc[c].draft
       IN  \/ /\ row.sync \in {"pending", "failed", "unconfirmed"}
              /\ Draft(c, "activity", [row EXCEPT !.sync = "projecting", !.token = c,
                                                  !.fresh = TRUE])
              /\ UNCHANGED lock
           \/ /\ Projected(row)
              /\ Goto(c, "commit")
              /\ UNCHANGED lock
           \/ /\ row.sync \in {"projecting", "synced"}
              /\ ~Projected(row)
              /\ Rollback(c)
    /\ UNCHANGED <<runs, entries, late, faults>>

\* The activity is looked up once and stays in the row.
ChooseActivity(c) ==
    /\ At(c, "activity")
    /\ Draft(c, "relist", [proc[c].draft EXCEPT !.activity = TRUE])
    /\ UNCHANGED <<runs, entries, late, lock, faults>>

\* mark_timer_sync_with_token on the claimed draft; an id once known stays.
Marked(row, sync, entry) ==
    [row EXCEPT !.sync = sync, !.error = (sync = "unconfirmed"),
                !.entry = IF row.entry # 0 THEN row.entry ELSE entry,
                !.token = Free, !.fresh = FALSE]

\* Mutant of Relist: only an unconfirmed row is looked up before it is sent.
RelistUnconfirmed(c) ==
    /\ At(c, "relist")
    /\ LET r == proc[c].run
       IN  IF runs[r].sync = "unconfirmed" /\ entries[r] = 1
           THEN Draft(c, "commit", Marked(proc[c].draft, "synced", 1)) /\ UNCHANGED lock
           ELSE Goto(c, "post") /\ UNCHANGED lock
    /\ UNCHANGED <<runs, entries, late, faults>>

\* find_time_entry_by_comments: one entry with the marker is adopted, several
\* are an error, none means it must be posted.
Relist(c) ==
    /\ At(c, "relist")
    /\ LET r == proc[c].run
       IN  \/ /\ entries[r] = 1
              /\ Draft(c, "commit", Marked(proc[c].draft, "synced", 1))
              /\ UNCHANGED lock
           \/ entries[r] = 0 /\ Goto(c, "post") /\ UNCHANGED lock
           \/ entries[r] > 1 /\ Rollback(c)
    /\ UNCHANGED <<runs, entries, late, faults>>

Booked(r) == entries' = [entries EXCEPT ![r] = @ + 1]

\* Mutant of Post: an answer without an id counts as synced.
PostAssumed(c) ==
    /\ At(c, "post")
    /\ LET r == proc[c].run
       IN  /\ Booked(r)
           /\ \/ Draft(c, "commit", Marked(proc[c].draft, "synced", entries[r] + 1))
              \/ Draft(c, "commit", Marked(proc[c].draft, "synced", 0))
    /\ UNCHANGED <<runs, late, lock, faults>>

\* create_time_entry: Redmine books the entry and answers with its id, or
\* without one.
Post(c) ==
    /\ At(c, "post")
    /\ LET r == proc[c].run
       IN  /\ Booked(r)
           /\ \/ Draft(c, "commit", Marked(proc[c].draft, "synced", entries[r] + 1))
              \/ Draft(c, "commit", Marked(proc[c].draft, "unconfirmed", 0))
    /\ UNCHANGED <<runs, late, lock, faults>>

\* Redmine books the entry and the answer is lost.
PostLost(c) ==
    /\ At(c, "post")
    /\ Fault("lost")
    /\ Booked(proc[c].run)
    /\ Rollback(c)
    /\ UNCHANGED <<runs, late>>

\* The request times out here and is acted on later.
PostLate(c) ==
    /\ At(c, "post")
    /\ Fault("late")
    /\ late' = late \cup {proc[c].run}
    /\ Rollback(c)
    /\ UNCHANGED <<runs, entries>>

\* An HTTP call fails and nothing happened at Redmine.
HttpFails(c) ==
    /\ \/ proc[c].pc \in {"relist", "post"}
       \/ At(c, "activity") /\ ~proc[c].draft.activity
    /\ Fault("http")
    /\ Rollback(c)
    /\ UNCHANGED <<runs, entries, late>>

Commit(c) ==
    /\ At(c, "commit")
    /\ Write(proc[c].run, proc[c].draft)
    /\ lock' = Free
    /\ Done(c)
    /\ UNCHANGED <<entries, late, faults>>

\* Owner-bound failure of finish: only the row that carries the own token.
MarkFailed(c) ==
    /\ At(c, "mark")
    /\ lock = Free
    /\ LET row == runs[proc[c].run]
       IN  IF row.token = c /\ row.sync = "projecting"
           THEN Write(proc[c].run, [Marked(row, "failed", 0) EXCEPT !.error = TRUE])
           ELSE UNCHANGED runs
    /\ Done(c)
    /\ UNCHANGED <<entries, late, lock, faults>>

\* record_failed_sync_error of recover: any finished row that is not claimed.
RecordError(c) ==
    /\ At(c, "record")
    /\ lock = Free
    /\ LET row == runs[proc[c].run]
       IN  IF Finished(proc[c].run) /\ row.sync # "projecting"
           THEN Write(proc[c].run, [row EXCEPT !.error = TRUE])
           ELSE UNCHANGED runs
    /\ Done(c)
    /\ UNCHANGED <<entries, late, lock, faults>>

(***************************************************************************)
(* auto_transition_timer and auto_close_issue_timer                        *)
(***************************************************************************)

\* list_running_runs_for_issue, at most AutoCap of them.  open: a status
\* change opens a new run after the sweep, an issue close does not.
SweepList(c, open) ==
    /\ (IF open THEN "status" ELSE "close") \in Commands
    /\ At(c, "idle")
    /\ \E i \in Issues, todo \in SUBSET Runs :
          LET running == {r \in Runs : Running(r) /\ runs[r].issue = i}
          IN  /\ todo \subseteq running
              /\ todo = running \/ Cardinality(todo) = AutoCap
              /\ Cardinality(todo) <= AutoCap
              /\ Enter(c, [pc |-> "sweep", issue |-> i, todo |-> todo, open |-> open])
    /\ UNCHANGED <<runs, entries, late, lock, faults>>

\* Where close_issue_runs returns to, with every listed run finished or with
\* the first error.
Swept(p) == IF p.open THEN [pc |-> "open", issue |-> p.issue] ELSE Idle

\* auto_finish_run of one listed run: finish_timer_run's read.  A run that
\* somebody else ended with another result is an error.
SweepLoad(c) ==
    /\ At(c, "sweep")
    /\ LET p == proc[c]
       IN  \/ p.todo = {} /\ Enter(c, Swept(p))
           \/ \E r \in p.todo :
                 \/ /\ Running(r)
                    /\ Enter(c, [pc |-> "close", issue |-> p.issue, open |-> p.open,
                                 todo |-> p.todo \ {r}, run |-> r])
                 \/ /\ runs[r].status = "DONE"
                    /\ Enter(c, [p EXCEPT !.todo = @ \ {r}])
                 \/ /\ runs[r].status \in Results \ {"DONE"}
                    /\ Enter(c, Swept(p))
    /\ UNCHANGED <<runs, entries, late, lock, faults>>

SweepWrite(c) ==
    /\ At(c, "close")
    /\ lock = Free
    /\ LET p == proc[c]
       IN  IF Running(p.run)
           THEN /\ Write(p.run, FinishedRow(runs[p.run], "DONE"))
                /\ Enter(c, [pc |-> "sweep", issue |-> p.issue, todo |-> p.todo,
                             open |-> p.open])
           ELSE Enter(c, Swept(p)) /\ UNCHANGED runs
    /\ UNCHANGED <<entries, late, lock, faults>>

\* auto_start_run under an id nobody has used; refusal by the task route and
\* store errors leave a warning.
AutoStart(c) ==
    /\ At(c, "open")
    /\ lock = Free
    /\ \/ \E r \in Runs : /\ runs[r].status = "absent"
                          /\ Write(r, Started(proc[c].issue))
       \/ UNCHANGED runs
    /\ Done(c)
    /\ UNCHANGED <<entries, late, lock, faults>>

(***************************************************************************)
(* Waiting in vain for the lock, and the environment.                      *)
(***************************************************************************)

\* busy_timeout runs out while a projection holds the lock.
Busy(c) ==
    /\ lock # Free
    /\ Fault("busy")
    /\ \/ proc[c].pc \in {"insert", "write", "reset", "mark", "record", "open"} /\ Done(c)
       \/ At(c, "begin") /\ Enter(c, Failed(proc[c]))
       \/ At(c, "close") /\ Enter(c, Swept(proc[c]))
    /\ UNCHANGED <<runs, entries, late, lock>>

\* A process dies, or its COMMIT fails: its transaction is rolled back.
Kill(c) ==
    /\ ~At(c, "idle")
    /\ Fault("kill")
    /\ lock' = IF lock = c THEN Free ELSE lock
    /\ Done(c)
    /\ UNCHANGED <<runs, entries, late>>

LateArrives ==
    /\ \E r \in late : Booked(r) /\ late' = late \ {r}
    /\ UNCHANGED <<runs, lock, proc, faults>>

\* PROJECTION_LEASE_SECS pass on a claim an older version left.
Expire(r) ==
    /\ runs[r].fresh
    /\ Write(r, [runs[r] EXCEPT !.fresh = FALSE])
    /\ UNCHANGED <<entries, late, lock, proc, faults>>

Start(c) ==
    \/ StartLoad(c)
    \/ \E r \in Runs, res \in Results : FinishAsk(c, r, res)
    \/ \E r \in Runs : RecoverAsk(c, r)
    \/ \E open \in BOOLEAN : SweepList(c, open)

Project(c) ==
    \/ Begin(c) \/ Claim(c) \/ ChooseActivity(c) \/ Relist(c) \/ Post(c) \/ Commit(c)

Step(c) ==
    \/ StartInsert(c) \/ FinishLoad(c) \/ FinishWrite(c) \/ RecoverReset(c)
    \/ FinishReload(c) \/ Resolve(c) \/ Project(c) \/ MarkFailed(c) \/ RecordError(c)
    \/ SweepLoad(c) \/ SweepWrite(c) \/ AutoStart(c)

Breaks(c) == PostLost(c) \/ PostLate(c) \/ HttpFails(c) \/ Busy(c) \/ Kill(c)

Next ==
    \/ \E c \in Clients : Start(c) \/ Step(c) \/ Breaks(c)
    \/ LateArrives
    \/ \E r \in Runs : Expire(r)

Spec == Init /\ [][Next]_vars

\* What the tracker is told about a run is retried until it succeeds: a
\* finished run by another finish with its result, a claim an older version
\* left by a recover.  Every call a process makes has a timeout, and one that
\* waits for the lock gets it or gives up, which Busy counts as a fault.
Retry(r) == \E c \in Clients : FinishAsk(c, r, runs[r].status)
Reclaim(r) == \E c \in Clients : Finished(r) /\ RecoverAsk(c, r)

FairSpec ==
    /\ Spec
    /\ \A c \in Clients : SF_vars(Step(c))
    /\ \A r \in Runs : SF_vars(Retry(r)) /\ SF_vars(Reclaim(r)) /\ WF_vars(Expire(r))

(***************************************************************************)
(* Properties.                                                             *)
(***************************************************************************)

\* The promise of the timer commands, for the rows of this ledger and the
\* entries at Redmine.
Booking == INSTANCE TimerBooking WITH
               result <- [r \in Runs |-> runs[r].status], booked <- entries

\* However finish, recover and the lifecycle sweeps interleave, and whatever
\* answer is lost, a run ends once, with one result, and is booked at most
\* once, after it ended.
BookedOnce == Booking!Spec

\* A row counts as synced only with the id of an entry that is at Redmine:
\* neither a rolled back projection nor an answer without an id gets there.
SyncedIsBooked ==
    \A r \in Runs : runs[r].sync = "synced" => runs[r].entry \in 1..entries[r]

\* A committed claim is never one of this version's: a process that dies in
\* its projection leaves no claim that would lock the run for good.
ClaimsAreInherited ==
    \A r \in Runs : runs[r].sync = "projecting" => runs[r].token = Legacy

\* A projection that was acknowledged is not lost again to a concurrent
\* finish, recover, failure mark or sweep.
SyncedStays ==
    [][\A r \in Runs : runs[r].sync = "synced" =>
          runs'[r].sync = "synced" /\ runs'[r].entry = runs[r].entry]_vars

\* A finished run is eventually synced if it is retried, with at most
\* MaxFaults failures on the way and whatever other commands do.
EventuallySynced ==
    \A r \in Runs : Finished(r) ~> runs[r].sync = "synced"

=============================================================================

# Phasegent in TLA+

TLA+ specifications of phasegent, the command line tool in this repository that
gives coding agents issues, worktrees, timers and records. The modules model
what the code does, TLC checks them on small instances and TLAPS proves the
central properties for every value of the constants. `PROJECT.json` holds the
map from definitions to source lines, the runs, the mutants that show each
property can fail, the findings, the hazards and the theorems.

## The system

Phasegent has no daemon. Every command is a short process; what outlives it
is one SQLite database per machine (WAL), the git repository with its linked
worktrees, an issue tracker (Redmine, Forgejo or a local one) behind HTTP, and
an OpenCode host that owns agent sessions. Several agents run commands on one
repository at once, so every pair of statements of a command is a window for
another command, for the host, for the provider, or for a kill. The adapter, a
plugin inside the OpenCode host, is the one long-lived part: it moves sessions
to their worktrees, tells the operator of unanswered questions and puts the
caller's identity into the shells that run phasegent.

### Components

| Component | State | Operations | Talks to | Status, modules |
|---|---|---|---|---|
| Worktree leases (`worktree/leases.rs`, `acquire.rs`, `lease_scope.rs`) | `worktree_leases`, the scope sidecar, directories and branches | acquire, release, heartbeat, retention on close, stale recovery, absent release | SQLite, git | modelled: `LeaseStore`, `Leases` |
| Cleanup after close (`lifecycle/cleanup/`) | none of its own | guards, family assessment, cache clearance, removal | leases, git, provider, OpenCode | modelled: `Cleanup` |
| `worktree prune` (`cli/worktree/prune/`) | the active snapshot and one wait budget per call | recovery, scan, recheck, release of session families, removal, row flips | the same | modelled: `Cleanup`, `Leases` |
| `issue sync` (`cli/sync/`) | the issue states fetched in one call, the host memo | scopes, groups, verified retention, cleanup or report | the same | modelled: `Sync`, `Cleanup` |
| `worktree` commands (`command/worktree.rs`, `cli/worktree/`) | none | admission, reconciliation first, list, status, probe, paged reads | leases, tasks | modelled: `Desk` |
| OpenCode host API (`worktree/opencode/`) | none | session, listing, move, running | HTTP | partly: the answers, in `Cleanup` |
| Timers (`time_tracking/`, `infra/timer_*`) | the ledger `execution_timer_runs` | start, finish, recover, sweeps, projection to Redmine | SQLite, Redmine | modelled: `Timers`, `TimerBooking` |
| Branch restore, issue switch (`lifecycle/`) | `checkout_baselines`, the main checkout | switch, capture, restore on close | git, SQLite | modelled / partly: `Restore`, `Branches` |
| Task identity and route | durable task rows | bind, unbind, adopt, route, closure answers | SQLite, provider | modelled: `Tasks` |
| Branch links and commit hooks' text | rows per branch | bind, retarget, unbind, every reader | SQLite, git | modelled: `Branches` |
| Records (`record/`) | comments with a request key | write, confirm, retry, read | provider | modelled: `Records` |
| Issue commands, providers, issue index | tracker issues, the local mirror | create, update, get, search, status, relations, versions, pages | provider, SQLite | partly: `Issues`, `Planning`, `Tracker`, `Paging` |
| Workflow bootstrap (`workflow/`) | users, memberships, mirrors, settings | one project, all projects, preview | provider, SQLite | partly: `Bootstrap` |
| Question notifications (`notifications/`, `notify.js`) | pending forms, `notification_deliveries` | track, settle, remind, send, mark | host, channel | modelled: `Questions` |
| Storage and configuration | the database file, settings, the TOML overlay | open, migrate, set, clear, select | SQLite | modelled: `Settings` |
| Hooks, plugin installer | files in the hook and plugin directories | install, chain, uninstall | file system | modelled / partly: `Hooks`, `Plugin` |
| OpenCode adapter (`assets/opencode/src/`) | maps per session | placement, scanner, environment | host, CLI | partly: `Placement`, `Scanner`, `Invocation` |
| Command line, policy | none | argument lists, role and registry gates | | partly: `Arguments`, `Invocation` |
| Git access | none | process execution | git | not modelled: input and output |

### What is hard about it

* A read is stale when the next statement uses it: acquire looks up, then
  inserts; release loads, then updates by id; retention and absent release
  read rows and a proof, then open a transaction.
* Directories, leases, issue states and sessions live in four systems with no
  common transaction. Removal asks all four and then runs git.
* Session moves are accepted by the host and delivered later, or never.
* Anything may be killed between two steps; what it did stays.
* A timer entry may be booked at Redmine and its answer lost; so may a record,
  a relation, a status change or a bootstrap write.
* Prompts of one session overlap in the adapter, and every host call is an
  await after which the maps may have changed.

What makes each component correct, the behaviour a test hardly reaches and
the line where it bites, are the hazards of `PROJECT.json`.

## Modules

`LeaseStore` holds the two lease tables as a function from ids to rows and
each SQL statement as an operator from table to table. Ids are used in
insertion order, the only order queries depend on besides the heartbeat. A
row keeps what its readers distinguish: issue, session, path, scope, status,
heartbeat, release reason. `UpdateStatus` and `RecordReason` name a row by its
id alone, as `leases.rs` does; `HeartbeatActive`, the retentions and the two
recoveries test the status in their statement.

`Leases` extends it with the processes. A process is a record with a program
counter and the values it read; a step is one SQL statement, one IMMEDIATE
transaction or one git command.

| Actions | Code |
|---|---|
| `AcquireStart` .. `AcquireCompensate` | `acquire_lease_scoped`, `acquire_lease_inner`, `acquire_new_worktree` |
| `ReleaseLoad`, `ReleaseUpdate`, `ReleaseJustify` | `release_lease_inner` |
| `Heartbeat` | `heartbeat_lease` |
| `RetainForIssue`, `RetainScopeRead`, `RetainScopeWrite` | the retention of issue close and sync |
| `RecoverStart`, `RecoverWrite` | `prune --release-stale` |
| `AbsentScan`, `AbsentWrite` | the release of rows whose directory is gone |
| `Kill`, `RemoveTree`, `RestoreTree`, `Tick` | the environment |

A generated worktree name is drawn from the free paths; the branch it makes
is never deleted, so a name is used once. `lost` records the trees whose
creator was killed or could not undo them: phasegent forgets them by design,
and `TreesAccounted` says that there are no others.

`Cleanup` models one removal pass over one directory for each way to reach
`git worktree remove`: prune with or without recovery, its preview, the close
of a scoped or an unscoped issue, and sync in clean and report mode. The
directories of one call share only their start (the snapshot of active
leases), the move target and the wait budget, so the budget left for a
directory is a choice of the start action. A pass goes through the guards
(rows, git, active leases, closure of every associated issue), the family
assessment, stage A (ask for every move) and stage B (wait), cache clearance
and removal; the guards run again after the moves (`phase = "moved"`) and
after the clearance (`"cleared"`), which is the order of the code. The rest of
the world is a set of actions that change leases, issues, files and sessions
between any two reads.

Choices a reader should know:

* `PassKeeps` stands for every check that fails, every error, timeout and
  kill: nothing a pass did is undone by ending it. The actions therefore state
  only how a pass goes on.
* The memo of host answers during scan and sync classification is not a
  variable: a verdict to keep that rests on it is `PassKeeps`, and a verdict
  to remove is asked again without it before anything happens.
* The unscoped close of the code is a scoped pass followed by an unscoped
  one; the model starts either.
* `RetainClosed` is one step because `Leases` already splits the retention
  into its read and its transaction.
* Heartbeats and clock are constant in `Cleanup`; the stale answer is any
  subset of the active rows. Session ancestry is a constant: the host never
  changes a parent.
* `late` is a history variable: the facts that appeared after the clearance of
  a pass, which no reread of that pass can see.

`Timers` models the ledger and its projection. `runs` is the table as other
processes see it; a projection works on a `draft` of its row inside the write
lock (`lock`) and writes it back in `Commit`, so a rollback or a death loses
the draft and nothing else. Redmine is `entries`, the number of time entries
that carry the marker of each run.

| Actions | Code |
|---|---|
| `StartLoad`, `StartInsert` | `start_timer_run_with_owner` |
| `FinishAsk`, `FinishLoad`, `FinishWrite`, `FinishReload`, `Resolve`, `MarkFailed` | `execute_finish_with_caller`, `finish_timer_run`, `project_run_with_credential` |
| `RecoverAsk`, `RecoverReset`, `RecordError` | `handle_recover_with_caller`, `reset_stale_projection_to_failed`, `record_failed_sync_error` |
| `Begin`, `Claim`, `ChooseActivity`, `Relist`, `Post`, `Commit` | `project_run_with_provider` |
| `SweepList`, `SweepLoad`, `SweepWrite`, `AutoStart` | `auto_transition_timer`, `auto_close_issue_timer` |
| `PostLost`, `PostLate`, `LateArrives`, `HttpFails`, `Busy`, `Kill`, `Expire` | Redmine, the network, the busy timeout, death, time |

* `Abandoned` rows are initial states: this version never commits a claim, but
  an older one did, and `timer recover` exists for them.
* A sweep takes its listed runs in any order: the query sorts by a start time
  of one second resolution.
* `Kill` also stands for a failed `COMMIT`; both leave the committed row.
* `Faults` are counted by `faults`, so that a run can say what holds after
  any `MaxFaults` of them.
* Durations, rounding, dates and the chosen activity are left out: nothing is
  decided by them. The comment marker is the run itself.

`TimerBooking` is the promise: a run starts once, ends once with one result
and is booked at most once, after it ended. `Timers` is shown to implement it
with the status column as `result` and Redmine's entries as `booked`.

`Restore` models what issue create and issue close do to the main checkout.
A history is a set of commits, so an ancestor is a subset and a fast-forward
is allowed by inclusion. `base` is `checkout_baselines`, one row per issue,
because create runs once per issue.

| Actions | Code |
|---|---|
| `CreateStart` .. `CreateSwitch` | `create_link_and_switch` with `prepare_pending` |
| `ProbeBranch`, `ProbeHead`, `CreateSettle` | `finalize_after_checkout` |
| `CloseStart`, `ReadBaseline`, `ReadCurrent`, `BaselineExists` .. `MarkRestored` | `restore_on_close` |
| `Recover`, `RecoverCompare`, `RecoverActivate`, `RecoverAbort` | `recover_pending` |
| `MainGate` | `main_gates`, one read per step, at its three call sites |
| `ResolveUpstream` .. `SetUpdateState`, `UpstreamFails` | `retry_upstream` |
| `UserSwitch`, `UserCommit`, `UserEdit`, `UserDeletes`, `RemoteCommit`, `LeaseChanges`, `GuestChanges`, `Kill` | the environment |

* Create passes no base (`cli/issue/create_branch.rs:103`), so it switches
  from the default branch only and every baseline branch is `Main`.
* `CreateStops` stands for every early return; the branch link and its
  collision with another scope are one of them.
* A close whose main checkout cannot be verified, whose number is ambiguous or
  whose scope is unknown never starts a restore: `CloseStart` is not taken.
* `late` is a history: the facts a gate may have found and somebody undid
  since. No sequence of commands can rule those out.
* A linked worktree has no baseline and is not modelled.

`Placement` models `ensureSessionWorktree` of the adapter. A prompt is a
slot with a program counter; one action is the code from the answer of one
await to the next call. `registry` is the adapter's maps as one record per
session, `move` the host call of each prompt's attempt, `at` and `queued` what
the host knows. A slot is free again when its prompt goes on.

`Questions` models `notify.js` and the child it spawns, with one timer and one
delivery task per form. A text is its length after the plugin's cleaning and
the number of its characters that come from the form, so that the two budgets
(the plugin's and the command's) can be compared. The two sides do not clean
alike: `notify.js:62` leaves the C1 controls (U+0080-009F), which
`question.rs:510` drops, and `JSON.stringify` writes a lone surrogate that
`serde_json` refuses with its document. A text therefore also says how many of
its characters are C1 controls and whether one is a lone surrogate. A question
of such characters can be refused by the command, or be shown as an ellipsis;
`ToldWhole` says what holds of every document and what only of one without them.

The modules of what a command asks of a tracker:

| Module | Models |
|---|---|
| `Records` | `record` and `comment` commands: gates, the one-shot body file, the single write, the confirming reads, the retry; a write may be performed after the command gave up |
| `Issues` | create, update, get, search, the project guard (with, as history, the projects an issue was in while a command ran), the issue index with its chunks and fallbacks |
| `Planning` | trackers, versions, parents, the automatic relation and the relation commands |
| `Paging` | the offset and link walks, single pages and the retries of a GET over a list others change |
| `Tracker` | status changes and the closing climb, request by request |
| `Bootstrap` | provisioning of one project and of all, overlapping and cut short, down to the two writes of a pair of identity and key; the preview only as a command that writes nothing |

and of what surrounds it:

| Module | Models |
|---|---|
| `Tasks` | bindings, memberships, adoption, the route of a numbered command and of a timer, closure answers |
| `Scanner` | which phasegent calls of a shell text the adapter rewrites, against a lexer of its own that reads quotes, comments, here-documents and joined lines as a shell does |
| `Invocation` | the environment of a tool call, the caller a process takes itself to have, registry, gate (with the kind and `--authorized` of a record or comment) and format |
| `Arguments` | the two readings of an argument list (scan and look-up) for the grammar of every subcommand |
| `Settings` | opening and migrating the database, the commands that write settings, the selection of provider and address |
| `Sync` | the scopes and groups of a pass, the closure memo, verified retention, clean and report |
| `Desk` | admission of the `worktree` commands, paged reads and their walk by the adapter, prune's repositories, the probe |
| `Branches` | branch links, their readers, the commit hooks' text, the repository key of a remote |
| `Hooks`, `Plugin` | the file operations of the installers among foreign files, killed between any two; those of the plugin may also fail, which ends only the scope |

The MC modules give the constants their values and, where it is sound, the
symmetry of the interchangeable ones. Seven of them put independent parts into
one run: a variable chosen initially and never changed (`side`, `command`,
`feature`, `part`, `stage`) says which part, or which of two instances, a
behaviour belongs to. The steps of the parts are independent, so nothing is
lost by exploring them one at a time, and the property of a run is the
conjunction of what its parts promise; the properties of `Records` and
`Tracker` are checked under their own names, which the theorems state. The operators whose comment starts with "Mutant of" or
"(A mutant of" are the seeded bugs of `PROJECT.json`; nothing else uses them.

## Runs

| Run | Properties | Shows |
|---|---|---|
| `leases` | `ActivePathUnique`, `NoScopedOverUnscoped`, `TreesAccounted`, `TerminalIsFinal`, `CloseLeavesNoneActive`, `FreshNeverRecovered`, `AbsentIsProven` | Two processes acquire, release, close, prune and get killed between any two statements, with and without a scope, while directories vanish and the clock runs: one active lease per path, terminal rows stay terminal, every directory is leased, in a process's hands or lost, a scoped close leaves none of the rows it proved active, and stale recovery and absent release act on evidence that still holds. |
| `cleanup` | `RemovalEvidenceFresh`, `PinnedNotRemoved`, `OnlyFamilyMoved`, `ReleasedAfterRemoval` | prune with and without recovery, and close and sync over two issues: what forbids a removal when git runs appeared after the last reread; pinned directories survive their own recovery; only family is moved; rows are released only once the directory is gone. |
| `timers_ledger` | `SyncedIsBooked` | Every command and fault over two runs: a synced row has an entry at Redmine. |
| `endings` | `BookedOnce`, `EventuallySynced`, `PassEnds` | `Timers` implements `TimerBooking`, a finished run that is retried is synced after at most three faults, and a cleanup pass that waits for moves ends, though they may never be delivered. |
| `restore_checkout` | `MovesAreProven`, `NothingLost`, `ComesHome` | Whenever create or close moves the checkout, every gate was read since the last thing that could close it; no commit is lost to the fast-forward; closing again brings the checkout home. |
| `adapter` | `ToldWhole`, `NoStaleReminder`, `PendingEnds`, `NoWayBackByLease`, `PromptEnds` | A question is told once, whole, and not after it was settled; a prompt never moves a session back to a directory it was moved out of; nothing waits for ever. |
| `requests` | `RecordsAgree`, `FiledAsAsked`, `WholeList`, `BodyKept`, `SuccessIsKept`, `WritesStayInProject` | A request key means one record and a call writes it once, a body file goes only when its text is on the issue, issues land where they were asked to and in the index whole, a walk that ends well saw the list, and no command writes into another project. |
| `tracker` | `MovesAreReal`, `SettingsAreBacked`, `Converges` | A reported status change was seen to hold, a refusal that says nothing was written sent nothing, a close was checked before it is written; settings are stored only for a user who holds the role, and whose key is the one the role acts with unless a save was cut in two; running a bootstrap again ends it. |
| `commands` | `TaskIsKept`, `ServedAsTyped` | A request goes to the task its branch or number names, a process runs as the agent that called it, and texts and argument lists are read as typed. |
| `local` | `SelectedIsUsable`, `ReadersAgree`, `PagesAreWhole`, `ForeignKept`, `LeasesChangeForCause`, `LinksLast` | What the configuration selects is usable, hooks and commands agree on a branch's issue, a complete walk misses no lease, foreign hooks and plugins survive, leases change for a cause. |
| `cleanup_report` | `ReportNeverRemoves` | violation, see the findings |
| `bootstrap_pair` | `KeysAreBacked` | violation: a half-written pair of identity and key is reused |

### Bounds

Two processes are enough for each race the lease code has to survive: every
check is against one concurrent writer, and a third would repeat the second.
Two rows let one row of an issue be terminal while another is active and let a
scoped and an unscoped row meet. `MaxClock` 2 with `StaleAfter` 0 leaves a
heartbeat on each side of the stale window. In `Cleanup` one directory with
one pass is explored against an environment that may change anything at any
time, which covers what another pass could do to it; a root session, its
child and a stranger are the relations the assessment distinguishes, and
`PollBudget` 1 has the wait succeed, continue and run out. In `Timers` two
processes are a projection and whatever interferes with it; two runs let a
sweep list more than one, two results make a second finish be refused, two
faults let a retry fail too. `endings` has one run, because no step of a
projection reads another run's row, and no late requests (see `BookedOnce`
under Proofs). In `Restore` two moves of the world are a change and what
follows from it, one commit besides the root makes a branch ahead, behind or
diverged, and one of the two processes has no session.

`adapter`: a parent and a child session, two prompts at once, three in all,
one worktree and one move by others (the proof of `NoWayBackByLease` has no
bound); one form whose event comes twice, a clock set back once, texts around
every cap of a budget of 10, with C1 controls as part or all of them and a lone
surrogate. `requests`: two processes and three calls over one request key, a
write that is performed late, one change by others and one fault; documents of
one chunk, of two with the boundary moved out of a character, and of more bytes
than two hold, each filed over the others; lists of up
to four items on pages of two. `tracker`: two commands and one act of another
user; two bootstraps at once, one fault, a store that has a key of somebody else
with or without its identity. `commands`: two Redmines with one
number, a configuration that changes once; argument lists of up to three
tokens; shell texts of a few fragments over every kind of symbol. `local`: two
commands and one change for each part, three for the installers, so that an
install can meet a foreign file that appeared after the one before it. `issue
sync` starts from tables of one row, of two rows of one directory (judged twice,
with a change between), of two tasks of one number on two servers in one
directory or two, and of a task beside a legacy row. Remotes are spelled as scp,
ssh with port 22, https with its default port and https with another.
Deadlock is not checked: ids, names and the clock run out at the bounds, and
processes may all be idle.

### Fairness

`Cleanup`: weak fairness of each pass. A pass waits only for git and HTTP
calls, and they return: commands are killed after `COMMAND_TIMEOUT`
(`worktree/opencode/process.rs:25`) and HTTP has connect and total timeouts
(`infra/http_client.rs:15-18`). No fairness is assumed of the host, which may
deliver a move late or never. `Timers`: strong fairness of each process's
steps, strong because a writer that waits for the lock can be passed by other
writers (SQLite retries until the busy timeout, which is the counted fault
`Busy`); `Retry` and `Reclaim` are strongly fair because they are what the
property supposes, the retry that `projection_redmine.rs:193-195` and the
lease window of `recover.rs` count on. `Restore`: weak fairness of every
process and strong fairness of a close from a session, because `ComesHome` is
about closes that are tried again. `adapter`: awaits are answered and timers
fire (the host's event loop), a child exits or is killed by its timeout; the
stream promises nothing. `Bootstrap`: processes run, and the operator starts
the whole bootstrap again whenever he can.

## Findings

Two runs expect a violation.

`cleanup_report`. The comment at
`cli/sync/engine.rs:807-808` says that report mode "never retains, removes, or
moves anything". A scoped group passes the real git runner to the cleanup
(`engine.rs:852`); the report mode skips only the cache clearance
(`lifecycle/cleanup.rs:382`), and `worktree_remove` runs at `cleanup.rs:420`.
The trace reports a clean directory without OpenCode sessions and removes it.

`bootstrap_pair`. The comment at `workflow/provision_user.rs:89-92` says that a
half-written record is not reused. Identity and key are two writes
(`provision_user.rs:73/75`, `125/127`). In the trace a role has a key of another
user and no identity; its bootstrap dies between the two writes, the next one
finds both rows, accepts them and stores the role's settings, and the role acts
with the old key. `SettingsAreBacked` states what does hold: the recorded user
holds the role always, the user of the key unless a save was cut in two.

### Remarks

Places where the code and its documents differ, or where the code promises
less than a reader may think. The modules follow the code; no run is about
them.

* Here-documents. The comment at `scanner.js:7-10` says that no byte of a
  here-document is ever rewritten. For `isHeredocWordTerminator`
  (`scanner.js:59`) the delimiter of `<<E#` is `E`, for a shell it is `E#`, so
  the body may end for the scanner at an earlier line. `ServedAsTyped` holds of
  texts whose delimiters hold neither `#` nor a backslash, are not empty, do not
  begin with a blank, and where no line of a delimiter or body is joined to the
  next by a backslash; each of these the two read differently, and of comments
  without quotes, escapes and separators, which the scanner does not know.
* Leases. Looking up the issue, session and scope and inserting the row are
  separate statements (`worktree/acquire.rs:354`), and only the path is unique,
  so two acquires at once can give one triple two active leases although
  `README.md:196-197` says the existing one is returned. A release decides on
  the status it loaded and writes by id (`acquire.rs:889`), so it can overwrite
  the terminal status and reason a close wrote between.
* Timers. A sweep stops at the first close that fails, under a comment that
  says it goes on (`lifecycle_auto.rs:341-345`).
* Arguments. `timer finish` takes its first argument for the run id whatever
  it looks like (`command/timer.rs:87-90`), so `--result=DONE r1` finishes a
  run named `--result=DONE`.
* Scanner. A quote inside a shell comment opens a quoted run for the scanner,
  and the shell sees none; the property about rewrites says "as long as
  comments hold no quote".
* Issues and records. A relation is posted without a key, so a retry after a
  lost answer can add it again. The marker of a record is that of its request
  (`record/service.rs:160`): it finds the journal of this request, and two
  processes given one key can both write.
* Installers. Two installers at once can lose a foreign hook that appeared
  between the reading and the writing, although `hooks.rs:6` says that
  foreign hooks are never clobbered.
* Placement. For a session with a parent the check that its target was not
  abandoned (`discovery.js:202`) is followed by another await, so a move out of
  it can come between; `NoWayBackByLease` is about the sessions without one.

## Proofs

Eight modules hold 49 results listed in `PROJECT.json` and the lemmas they rest
on. They hold for every number of processes, rows, paths, sessions, runs,
faults and moves, and for every number of changes others make to an issue. The
assumptions are the ones the modules state about their
constants (`LeaseStoreAssumption`, `LeasesAssumption`, `CleanupAssumption`,
`TimersAssumption`, `RestoreAssumption`, `ParentAssumption`, `NoneAssumption`,
`RecordConstants`, `TrackerAssumption`, and `Bounds`, which the theorems about `Questions` take as a hypothesis), and
the runs evaluate every one of them. They say that sets are what they are used
as, that numbers are numbers, and that "none" is not one of the things it is
none of.

Each module has one inductive invariant, model-checked on instances of the
runs' size before it was proved, one lemma per action that the action keeps
it, and the properties as consequences.

| Module | Invariant | Results |
|---|---|---|
| `LeasesProofs` | `IInv`, `EInv` | `Inductive`, `TypeCorrect`, `OneActiveLeasePerPath` (`ActivePathUnique`), `ScopedNeverOverUnscoped` (`NoScopedOverUnscoped`), `ReasonsAreTerminal`, `TerminalStays` (`TerminalIsFinal`), `EvidenceInductive`, `NoTreeForgotten` (`TreesAccounted`), `FreshIsSafe` (`FreshNeverRecovered`), `CloseIsComplete` (`CloseLeavesNoneActive`), `AbsenceIsProven` (`AbsentIsProven`) |
| `CleanupProofs` | `CInv` | `EvidenceKept`, `TypeCorrect`, `RemovalIsFresh` (`RemovalEvidenceFresh`), `PinnedStays` (`PinnedNotRemoved`), `OnlyKinMoves` (`OnlyFamilyMoved`), `RowsOutliveTrees` (`ReleasedAfterRemoval`) |
| `TimersProofs` | `LInv` | `LedgerInductive`, `TypeCorrect`, `SyncedIsBacked` (`SyncedIsBooked`), `NoClaimLeft`, `SyncIsKept`, `BookedAtMostOnce` (`BookedOnce`) |
| `RestoreProofs` | `RInv` | `GatesKept`, `TypeCorrect`, `EveryMoveProven` (`MovesAreProven`), `NoCommitLost` (`NothingLost`), `BaselineSettledOnce` |
| `PlacementProofs` | `PInv` | `AttemptsKept`, `TypeCorrect`, `OneMoveAtOnce`, `NoWayBack` (`NoWayBackByLease`) |
| `QuestionsProofs` | `QInv` | `RemindersKept`, `TypeCorrect`, `OneReminder`, `RowsAreTrue`, `NeverStale` |
| `RecordsProofs` | `RInv` | `RecordsKept`, `TypeCorrect`, `OneMeaning`, `OneWrite`, `RecordsTrue` (`RecordsAgree`), `FileOutlivesFailure` (`BodyKept`) |
| `TrackerProofs` | `TInv` | `StatusKept`, `TypeCorrect`, `SuccessReal`, `RefusalClean`, `CloseChecked`, `MovesReal` (`MovesAreReal`) |

**Leases, the table (`IInv`).** A heartbeat refresh, a status update and a
reason name a row by id. They are harmless only if the id the process
remembers is a stored row's and, for the reason, a terminal row's. `IInv` adds
to the types that stored ids are a prefix of the ids, so that nobody remembers
an id that is yet to be given, and for every process that the row it will
refresh or update is stored and the row it will justify is terminal.

**Leases, the evidence (`EInv`).** `TreesAccounted` is not inductive: an
acquire that starts while its path is somebody else's tree is
indistinguishable, in the property, from the one that made it. `EInv` says of
every acquire since which step the tree can be its own, and of every process
what the rows it has read still prove about the table and the clock, whatever
was written since.

**Cleanup (`CInv`).** At each step a pass knows what its reads proved; another
actor may have undone any of it since. For each guard, `CInv` says that its
answer still holds or that what undid it is in the history variable of late
facts. The guards that run again after the cache clearance are what makes the
second alternative empty for what was there before them. Whether a write of
the table can end a lease is settled in one lemma for all of them. `TypeCorrect`
takes the table and the directories from `CInv`; a pass may ask for a move
because every session it holds is one the host knows.

**Timers (`LInv`).** The argument is the projection lock: whoever is between
taking and leaving the lock knows the run's row and whether Redmine listed an
entry for it, and nobody else writes either. Hence a claim never survives a
transaction of this version, and the owner-bound write of `MarkFailed` finds
no row to change. `BookedAtMostOnce` is the safety part of the refinement
`Timers` => `TimerBooking`: initial states map to initial states, and each
step to a booking, a settling or a stutter. It supposes `Punctual`, that
Redmine does not act on a POST after its timeout: when it does, the retry has
listed the entries before the late one appears and the run is booked twice.
The code has no defence against that, and the hazard list says so.

**Restore (`RInv`).** Between reading a gate and moving the checkout a process
holds nothing. `RInv` says for every gate a process has passed that it is
still open or that the process's record of outside changes says otherwise.
`NoCommitLost` needs of it only the types: the fast-forward moves a branch to
a history that contains its own, which is what `merge --ff-only` insists on
even when the branch checked out is no longer the one that was compared.

**Placement (`PInv`).** Prompts of one session overlap, and a later one
replaces the attempt of an earlier one, whose move may still be at the host.
`PInv` says that an attempt with the session's record aims at no abandoned
directory, because whoever marks a directory as abandoned takes the record
away from the attempt that aims at it in the same turn, and that the move the
host works on is the one `dispatched` names, for which the next attempt waits.

**Questions (`QInv`).** Events can be replayed, and answers arrive between the
timer and the child. `QInv` says that a handled reply or deletion is
remembered until the notifier is disposed, that a timer runs only for a
pending form, that a form has had a child only if it was told, and where each
child is between its row and its message.

**Records (`RInv`).** A call looks for its record, sends it, and reads again
when the answer is lost, while other calls write to the same issue and its own
write may still be on the way. None of the properties is inductive: what a
confirming read finds says nothing until it is known whose write it can be.
`RInv` says that a serial number belongs to one call and is on at most one
comment or request in flight, never on both; that a request in flight is what
its sender, who is waiting for it, asked for; and that a call on its way to the
deletion of its body file has seen its text on the issue. Two calls with one
key may both write; but an answer needs a reading in which exactly one record
has the key and is the one asked for (`MatchIsOwner`), and a comment stays, so
every later answer for the key names that one too.

**Tracker (`TInv`).** A command decides on what it read steps ago, and others
change the issue and its children in between, so no condition on the issue as
it is now can be what makes a report true. `TInv` keeps two histories up to
date, that the target held at some time of the run and that a close was free
at some time of it, and says of a running command what its way so far makes of
its target, its goal and the steps of its climb (`Core`), and at which steps
nothing can have been written yet (`At`). A climb that is refused at a later
step, behind others that were written, reports the refused close and not the
refusal of the step; `RefusedBeforeAnyWrite` rests on this (`Onward`).

The proofs corrected the model in three places. Arms of the CASE in
`Cleanup.Released` and in `Records.AfterWrite` overlapped, so the formula did
not say which of them held; they are disjoint now, in the order of the code.
And `Tracker` took a close to be reached when the issue is in a status the
installation marks closed: the close status is configured, so it need not be
one of those, and `Reached` and `ParentClosed` accept either, as the code does.

### Only model-checked

* Liveness, which the prover cannot reach: `PassEnds`, `EventuallySynced`,
  `ComesHome`, `PendingEnds`, `PromptEnds`, `Converges`.
* The text budgets in `ToldWhole`, folds over sequences that need induction
  over data; its other half, that a form is told once, is `OneReminder`.
  `NoStaleReminder` of the `adapter` run names the definition of `Questions`
  that `NeverStale` proves.
* What `requests` says of issues, planning and paging, `SettingsAreBacked`, and
  the properties of `commands` and `local`. Several are about recursive
  definitions or sequences (`ServedAsTyped`, `WholeList` with the pages of
  `record list`, `PagesAreWhole`); the others are in the plan.

## Not modelled

* How git and the host's HTTP API are called and their output is parsed: the
  models use the answers, errors and timeouts included.
* Rendering, help texts, logging and credentials.
* The bodies of attachments, and the host API's walk over its own pages.
* The SQL of schema migrations: the models start from the current schema.
* `completed_bootstraps`, a cache in one process that only saves requests.
* The bundle `phasegent-worktree.js`, generated from the adapter sources the
  modules do model.
* An acquire that makes a directory again at a path a cleanup has removed:
  `Cleanup` ends with the removal, `Leases` has the acquire.

## Plan

1. Done: the leases, cleanup, timers and checkout, the adapter, and the
   command-side modules, with their runs.
2. Done: the proofs of the safety properties of `leases`, `cleanup`,
   `timers_ledger`, `restore_checkout` and, text budgets aside, `adapter`; of
   what the record commands and the status commands promise; and the safety
   part of the refinement in `endings`.
3. Next: `ForeignKept` (hooks and plugins), the write step of issues, and what
   `Tasks` and `Sync` promise. Arms of CASE that overlap in `Desk`, `Scanner`
   and `Sync` are to be made disjoint first.

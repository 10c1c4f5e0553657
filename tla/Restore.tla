------------------------------ MODULE Restore ------------------------------
(***************************************************************************)
(* Issue create switches the main checkout to the branch of the issue and  *)
(* records where it was; issue close brings it back and fast-forwards the  *)
(* branch (lifecycle/issue_switch.rs, lifecycle/restore.rs).  A step is    *)
(* one git command, one SQL statement or one read of the leases or of the  *)
(* host.  The person at the checkout, other agents and the remote may act  *)
(* between any two of them, and a process may die there.                   *)
(***************************************************************************)
EXTENDS Naturals, Sequences

CONSTANTS
    Clients,   \* phasegent processes
    Known,     \* those that know the OpenCode session they run in
    Issues,
    Main,      \* the default branch, the only one create switches from
    BranchOf,  \* the branch of each issue
    Commits,
    Root,      \* the commit everything starts from
    Tracked,   \* whether the default branch has an upstream that can be fetched
    MaxMoves,  \* how often the rest of the world may act
    MaxFaults  \* how often a process may die or a command fail

Branches == {Main} \cup {BranchOf[i] : i \in Issues}

ASSUME RestoreAssumption ==
    /\ Known \subseteq Clients
    /\ \A i \in Issues : BranchOf[i] # Main
    /\ Root \in Commits
    /\ Tracked \subseteq BOOLEAN
    /\ MaxMoves \in Nat
    /\ MaxFaults \in Nat

VARIABLES
    head,      \* the branch the main checkout is on
    tip,       \* the history of each branch, {} if it does not exist
    upstream,  \* the history of the default branch at the remote
    clean,     \* nothing uncommitted or untracked
    leases,    \* issues with an active lease in this repository
    guest,     \* another session is hosted in the main checkout
    created,   \* issues there are at the tracker
    base,      \* checkout_baselines
    proc,      \* what each process is doing
    moves,     \* how often the rest of the world has acted
    faults     \* how often a process has died or a command failed

git    == <<head, tip, clean>>
world  == <<upstream, leases, guest>>
budget == <<moves, faults>>
vars   == <<head, tip, upstream, clean, leases, guest, created, base, proc, moves, faults>>

Histories == SUBSET Commits
Gates     == <<"clean", "branch", "lease", "guest">>
Facts     == {"clean", "branch", "lease", "guest"}

NoBase == [state |-> "none"]
Rows   == [state : {"pending", "active", "aborted"}, commit : Histories,
           update : {"none", "pending", "updated", "skipped", "failed"}, restored : BOOLEAN]

Idle == [pc |-> "idle"]
CreateSteps == {"ensure", "clean", "lease", "recheck", "resolve", "insert", "switch",
                "probe", "probehead", "settle"}
GateSteps   == {"gates", "before", "after"}
CloseSteps  == {"read", "recover", "compare", "activate", "abort", "current", "exists",
                "back", "verify", "mark", "upstream", "fetch", "ancestor", "forward",
                "landed", "finish"} \cup GateSteps
\* From the first gate to the move it guards.
Relying == {"clean", "lease", "recheck", "resolve", "insert", "switch"}
           \cup GateSteps \cup {"exists", "back", "fetch", "ancestor", "forward"}

Procs ==
    {Idle}
    \cup [pc : CreateSteps, issue : Issues, seen : Branches, commit : Histories,
          state : {"pending", "active", "aborted"}, late : SUBSET Facts]
    \cup [pc : CloseSteps, issue : Issues, row : Rows \cup {NoBase},
          seen : Branches, gate : 1..4, commit : Histories,
          verdict : {"none", "updated", "skipped", "failed"}, late : SUBSET Facts]

\* The checkout, the world around it, the baselines and the processes.
TypeOK ==
    /\ head \in Branches
    /\ tip \in [Branches -> Histories]
    /\ upstream \in Histories
    /\ clean \in BOOLEAN
    /\ leases \subseteq Issues
    /\ guest \in BOOLEAN
    /\ created \subseteq Issues
    /\ base \in [Issues -> Rows \cup {NoBase}]
    /\ proc \in [Clients -> Procs]
    /\ moves \in 0..MaxMoves
    /\ faults \in 0..MaxFaults

Init ==
    /\ head = Main
    /\ tip = [b \in Branches |-> IF b = Main THEN {Root} ELSE {}]
    /\ upstream = {Root}
    /\ clean = TRUE
    /\ leases = {}
    /\ guest = FALSE
    /\ created = {}
    /\ base = [i \in Issues |-> NoBase]
    /\ proc = [c \in Clients |-> Idle]
    /\ moves = 0
    /\ faults = 0

At(c, step)   == proc[c].pc = step
Enter(c, p)   == proc' = [proc EXCEPT ![c] = p]
Goto(c, step) == Enter(c, [proc[c] EXCEPT !.pc = step])
Done(c)       == Enter(c, Idle)
Row(c)        == base[proc[c].issue]
Own(c)        == BranchOf[proc[c].issue]

\* late: the facts a process may have relied on and somebody undid since.
Checked(p, f) == [p EXCEPT !.late = @ \ {f}]
Told(p, f)    == IF p.pc \in Relying THEN [p EXCEPT !.late = @ \cup {f}] ELSE p
Undone(f)     == proc' = [c \in Clients |-> Told(proc[c], f)]
Move(c, b, p) == /\ head' = b
                 /\ proc' = [d \in Clients |-> IF d = c THEN p ELSE Told(proc[d], "branch")]

(***************************************************************************)
(* create_link_and_switch                                                  *)
(***************************************************************************)

\* The issue exists at the tracker and the current branch is read.
CreateStart(c, i) ==
    /\ At(c, "idle")
    /\ i \notin created
    /\ created' = created \cup {i}
    /\ Enter(c, [pc |-> "ensure", issue |-> i, seen |-> head, commit |-> {},
                 state |-> "pending", late |-> {}])
    /\ UNCHANGED <<git, world, base, budget>>

\* Every early return: an unknown scope, a branch shared with another scope,
\* a failed gate, a git or store error.
CreateStops(c) ==
    /\ proc[c].pc \in CreateSteps \ {"switch", "settle"}
    /\ Done(c)
    /\ UNCHANGED <<git, world, created, base, budget>>

\* ensure_branch, from HEAD.  The link that follows is no part of this model;
\* a checkout that is already on the branch stays there without a baseline.
EnsureBranch(c) ==
    /\ At(c, "ensure")
    /\ tip' = IF tip[Own(c)] = {} THEN [tip EXCEPT ![Own(c)] = tip[head]] ELSE tip
    /\ IF proc[c].seen = Own(c) THEN Done(c) ELSE Goto(c, "clean")
    /\ UNCHANGED <<head, clean, world, created, base, budget>>

\* The checkout is clean and the branch seen first is the default one.
CreateClean(c) ==
    /\ At(c, "clean")
    /\ clean /\ proc[c].seen = Main
    /\ Enter(c, Checked([proc[c] EXCEPT !.pc = "lease"], "clean"))
    /\ UNCHANGED <<git, world, created, base, budget>>

\* lease_conflict: no active lease but, at most, the own one.
CreateLease(c) ==
    /\ At(c, "lease")
    /\ leases \subseteq {proc[c].issue}
    /\ Enter(c, Checked([proc[c] EXCEPT !.pc = "recheck"], "lease"))
    /\ UNCHANGED <<git, world, created, base, budget>>

\* prepare_pending reads the branch again ...
CaptureBranch(c) ==
    /\ At(c, "recheck")
    /\ head = proc[c].seen
    /\ Enter(c, Checked([proc[c] EXCEPT !.pc = "resolve"], "branch"))
    /\ UNCHANGED <<git, world, created, base, budget>>

\* ... and then its commit.
CaptureHead(c) ==
    /\ At(c, "resolve")
    /\ Enter(c, [proc[c] EXCEPT !.pc = "insert", !.seen = Main, !.commit = tip[head]])
    /\ UNCHANGED <<git, world, created, base, budget>>

Captured(commit) ==
    [state |-> "pending", commit |-> commit, update |-> "none", restored |-> FALSE]

\* insert_pending: the first baseline of an issue stays.
InsertPending(c) ==
    /\ At(c, "insert")
    /\ base' = IF Row(c) = NoBase
               THEN [base EXCEPT ![proc[c].issue] = Captured(proc[c].commit)]
               ELSE base
    /\ Enter(c, [proc[c] EXCEPT !.pc = "switch", !.commit = {}])
    /\ UNCHANGED <<git, world, created, budget>>

\* git checkout, which may refuse.
CreateSwitch(c) ==
    /\ At(c, "switch")
    /\ LET p == [proc[c] EXCEPT !.pc = "probe", !.late = {}]
       IN  \/ tip[Own(c)] # {} /\ Move(c, Own(c), p)
           \/ Enter(c, p) /\ UNCHANGED head
    /\ UNCHANGED <<tip, clean, world, created, base, budget>>

\* finalize_after_checkout reads the branch, then the commit.
ProbeBranch(c) ==
    /\ At(c, "probe")
    /\ Enter(c, [proc[c] EXCEPT !.pc = "probehead", !.seen = head])
    /\ UNCHANGED <<git, world, created, base, budget>>

ProbeHead(c) ==
    /\ At(c, "probehead")
    /\ \/ /\ proc[c].seen = Own(c)
          /\ Enter(c, [proc[c] EXCEPT !.pc = "settle", !.state = "active"])
       \/ /\ proc[c].seen = Main
          /\ tip[head] = Row(c).commit
          /\ Enter(c, [proc[c] EXCEPT !.pc = "settle", !.state = "aborted"])
       \/ /\ proc[c].seen # Own(c)
          /\ proc[c].seen # Main \/ tip[head] # Row(c).commit
          /\ Done(c)
    /\ UNCHANGED <<git, world, created, base, budget>>

\* transition_pending.  What it returns is not looked at.
Transition(i, state) ==
    base' = IF base[i].state = "pending" THEN [base EXCEPT ![i].state = state] ELSE base

CreateSettle(c) ==
    /\ At(c, "settle")
    /\ Transition(proc[c].issue, proc[c].state)
    /\ Done(c)
    /\ UNCHANGED <<git, world, created, budget>>

(***************************************************************************)
(* issue close, from the release of the leases on                          *)
(***************************************************************************)

CloseStart(c, i) ==
    /\ At(c, "idle")
    /\ i \in created
    /\ leases' \in {leases, leases \ {i}}
    /\ Enter(c, [pc |-> "read", issue |-> i, row |-> NoBase, seen |-> Main,
                 gate |-> 1, commit |-> {}, verdict |-> "none", late |-> {}])
    /\ UNCHANGED <<git, upstream, guest, created, base, budget>>

\* Where restore_on_close goes with a row that is no longer pending.
Onward(row) ==
    IF row.state = "aborted" THEN "done"
    ELSE IF ~row.restored THEN "current"
    ELSE IF row.update \in {"updated", "skipped"} THEN "done" ELSE "upstream"

Follow(c, row) ==
    IF Onward(row) = "done" THEN Done(c)
    ELSE Enter(c, [proc[c] EXCEPT !.pc = Onward(row), !.row = NoBase, !.seen = Main])

ReadBaseline(c) ==
    /\ At(c, "read")
    /\ LET row == Row(c)
       IN  \/ row = NoBase /\ Done(c)
           \/ /\ row.state = "pending"
              /\ Enter(c, [proc[c] EXCEPT !.pc = "recover", !.row = row])
           \/ row.state \in {"active", "aborted"} /\ Follow(c, row)
    /\ UNCHANGED <<git, world, created, base, budget>>

\* recover_pending
Recover(c) ==
    /\ At(c, "recover")
    /\ Enter(c, [proc[c] EXCEPT !.pc = IF head = Own(c) THEN "activate" ELSE "compare",
                                !.seen = head])
    /\ UNCHANGED <<git, world, created, base, budget>>

RecoverCompare(c) ==
    /\ At(c, "compare")
    /\ IF proc[c].seen = Main /\ tip[head] = proc[c].row.commit
       THEN Goto(c, "abort")
       ELSE Done(c)
    /\ UNCHANGED <<git, world, created, base, budget>>

RecoverActivate(c) ==
    /\ At(c, "activate")
    /\ Transition(proc[c].issue, "active")
    /\ Follow(c, [proc[c].row EXCEPT !.state = "active"])
    /\ UNCHANGED <<git, world, created, budget>>

RecoverAbort(c) ==
    /\ At(c, "abort")
    /\ Transition(proc[c].issue, "aborted")
    /\ Done(c)
    /\ UNCHANGED <<git, world, created, budget>>

\* Mutant of ReadCurrent: a checkout that is back already is somebody else's.
ReadCurrentThirdParty(c) ==
    /\ At(c, "current")
    /\ IF head = Own(c) THEN Goto(c, "gates") ELSE Done(c)
    /\ UNCHANGED <<git, world, created, base, budget>>

\* Back already, on a third branch, or still on the branch of the issue.
ReadCurrent(c) ==
    /\ At(c, "current")
    /\ CASE head = Main   -> Goto(c, "mark")
         [] head = Own(c) -> Goto(c, "gates")
         [] OTHER         -> Done(c)
    /\ UNCHANGED <<git, world, created, base, budget>>

\* main_gates, which guards the switch back ("gates"), the fetch ("before")
\* and the fast-forward ("after").
Expected(c) == IF At(c, "gates") THEN Own(c) ELSE Main
Beyond(c)   == CASE At(c, "gates")  -> "exists"
                 [] At(c, "before") -> "fetch"
                 [] At(c, "after")  -> "forward"

Holds(c, f) ==
    CASE f = "clean"  -> clean
      [] f = "branch" -> head = Expected(c)
      [] f = "lease"  -> leases = {}
      [] f = "guest"  -> ~guest /\ c \in Known

\* Mutant of Pass: before the fast-forward only the first gate is asked again.
PassOnce(c) ==
    IF proc[c].gate < 4 /\ ~At(c, "after")
    THEN [proc[c] EXCEPT !.gate = @ + 1]
    ELSE [proc[c] EXCEPT !.gate = 1, !.pc = Beyond(c)]

Pass(c) ==
    IF proc[c].gate < 4
    THEN [proc[c] EXCEPT !.gate = @ + 1]
    ELSE [proc[c] EXCEPT !.gate = 1, !.pc = Beyond(c)]

Finish(c, verdict) == Enter(c, [proc[c] EXCEPT !.pc = "finish", !.verdict = verdict,
                                               !.gate = 1, !.commit = {}, !.late = {}])

MainGate(c) ==
    /\ proc[c].pc \in GateSteps
    /\ LET f == Gates[proc[c].gate]
       IN  \/ Holds(c, f) /\ Enter(c, Checked(Pass(c), f))
           \/ /\ ~Holds(c, f)
              /\ IF At(c, "gates") THEN Done(c) ELSE Finish(c, "failed")
    /\ UNCHANGED <<git, world, created, base, budget>>

BaselineExists(c) ==
    /\ At(c, "exists")
    /\ IF tip[Main] # {} THEN Goto(c, "back") ELSE Done(c)
    /\ UNCHANGED <<git, world, created, base, budget>>

\* git switch --no-guess, which may refuse to carry changes over.
SwitchBack(c) ==
    /\ At(c, "back")
    /\ \/ tip[Main] # {} /\ Move(c, Main, [proc[c] EXCEPT !.pc = "verify", !.late = {}])
       \/ (tip[Main] = {} \/ ~clean) /\ Done(c) /\ UNCHANGED head
    /\ UNCHANGED <<tip, clean, world, created, base, budget>>

VerifyBack(c) ==
    /\ At(c, "verify")
    /\ IF head = Main THEN Goto(c, "mark") ELSE Done(c)
    /\ UNCHANGED <<git, world, created, base, budget>>

MarkRestored(c) ==
    /\ At(c, "mark")
    /\ base' = [base EXCEPT ![proc[c].issue].restored = TRUE,
                            ![proc[c].issue].update = "pending"]
    /\ Goto(c, "upstream")
    /\ UNCHANGED <<git, world, created, budget>>

(***************************************************************************)
(* retry_upstream                                                          *)
(***************************************************************************)

ResolveUpstream(c) ==
    /\ At(c, "upstream")
    /\ \E tracked \in Tracked : IF tracked THEN Goto(c, "before") ELSE Finish(c, "skipped")
    /\ UNCHANGED <<git, world, created, base, budget>>

FetchUpstream(c) ==
    /\ At(c, "fetch")
    /\ Enter(c, [proc[c] EXCEPT !.pc = "ancestor", !.commit = upstream])
    /\ UNCHANGED <<git, world, created, base, budget>>

\* HEAD must be an ancestor of what was fetched.
IsAncestor(c) ==
    /\ At(c, "ancestor")
    /\ IF tip[head] \subseteq proc[c].commit
       THEN Enter(c, [proc[c] EXCEPT !.pc = "after", !.late = {}])
       ELSE Finish(c, "failed")
    /\ UNCHANGED <<git, world, created, base, budget>>

\* Mutant of FastForward: reset instead of merge --ff-only.
FastForwardReset(c) ==
    /\ At(c, "forward")
    /\ tip' = [tip EXCEPT ![head] = proc[c].commit]
    /\ Goto(c, "landed")
    /\ UNCHANGED <<head, clean, world, created, base, budget>>

\* git merge --ff-only works on whatever branch is checked out then.
FastForward(c) ==
    /\ At(c, "forward")
    /\ LET fetched == proc[c].commit
           p       == [proc[c] EXCEPT !.pc = "landed", !.late = {}]
       IN  \/ /\ tip[head] \subseteq fetched
              /\ tip' = [tip EXCEPT ![head] = fetched]
              /\ Enter(c, p)
           \/ /\ fetched \subseteq tip[head]
              /\ Enter(c, p)
              /\ UNCHANGED tip
           \/ /\ ~clean \/ ~(tip[head] \subseteq fetched \/ fetched \subseteq tip[head])
              /\ Finish(c, "failed")
              /\ UNCHANGED tip
    /\ UNCHANGED <<head, clean, world, created, base, budget>>

Landed(c) ==
    /\ At(c, "landed")
    /\ Finish(c, IF tip[head] = proc[c].commit THEN "updated" ELSE "failed")
    /\ UNCHANGED <<git, world, created, base, budget>>

SetUpdateState(c) ==
    /\ At(c, "finish")
    /\ base' = [base EXCEPT ![proc[c].issue].update = proc[c].verdict]
    /\ Done(c)
    /\ UNCHANGED <<git, world, created, budget>>

(***************************************************************************)
(* The rest of the world.                                                  *)
(***************************************************************************)

Act   == moves < MaxMoves /\ moves' = moves + 1 /\ UNCHANGED faults
Fresh == {x \in Commits : x \notin upstream /\ \A b \in Branches : x \notin tip[b]}

UserSwitch(b) ==
    /\ Act
    /\ b # head /\ tip[b] # {}
    /\ head' = b
    /\ Undone("branch")
    /\ UNCHANGED <<tip, clean, world, created, base>>

UserCommit(x) ==
    /\ Act
    /\ x \in Fresh
    /\ tip' = [tip EXCEPT ![head] = @ \cup {x}]
    /\ UNCHANGED <<head, clean, world, created, base, proc>>

UserEdit ==
    /\ Act
    /\ clean' = ~clean
    /\ IF clean THEN Undone("clean") ELSE UNCHANGED proc
    /\ UNCHANGED <<head, tip, world, created, base>>

UserDeletes(b) ==
    /\ Act
    /\ b # head /\ tip[b] # {}
    /\ tip' = [tip EXCEPT ![b] = {}]
    /\ UNCHANGED <<head, clean, world, created, base, proc>>

RemoteCommit(x) ==
    /\ Act
    /\ x \in Fresh
    /\ upstream' = upstream \cup {x}
    /\ UNCHANGED <<git, leases, guest, created, base, proc>>

LeaseChanges(i) ==
    /\ Act
    /\ i \in created
    /\ leases' = IF i \in leases THEN leases \ {i} ELSE leases \cup {i}
    /\ IF i \in leases THEN UNCHANGED proc ELSE Undone("lease")
    /\ UNCHANGED <<git, upstream, guest, created, base>>

GuestChanges ==
    /\ Act
    /\ guest' = ~guest
    /\ IF guest THEN UNCHANGED proc ELSE Undone("guest")
    /\ UNCHANGED <<git, upstream, leases, created, base>>

Fault == faults < MaxFaults /\ faults' = faults + 1 /\ UNCHANGED moves

\* A process dies, or a read or a write of it fails.
Kill(c) ==
    /\ Fault
    /\ ~At(c, "idle")
    /\ Done(c)
    /\ UNCHANGED <<git, world, created, base>>

\* A git command of retry_upstream fails, which is recorded.
UpstreamFails(c) ==
    /\ Fault
    /\ proc[c].pc \in {"upstream", "fetch", "ancestor", "forward", "landed"}
    /\ Finish(c, "failed")
    /\ UNCHANGED <<git, world, created, base>>

Create(c) ==
    \/ CreateStops(c) \/ EnsureBranch(c) \/ CreateClean(c) \/ CreateLease(c)
    \/ CaptureBranch(c) \/ CaptureHead(c) \/ InsertPending(c) \/ CreateSwitch(c)
    \/ ProbeBranch(c) \/ ProbeHead(c) \/ CreateSettle(c)

Close(c) ==
    \/ ReadBaseline(c) \/ Recover(c) \/ RecoverCompare(c) \/ RecoverActivate(c)
    \/ RecoverAbort(c) \/ ReadCurrent(c) \/ MainGate(c) \/ BaselineExists(c)
    \/ SwitchBack(c) \/ VerifyBack(c) \/ MarkRestored(c) \/ ResolveUpstream(c)
    \/ FetchUpstream(c) \/ IsAncestor(c) \/ FastForward(c) \/ Landed(c)
    \/ SetUpdateState(c)

World ==
    \/ \E b \in Branches : UserSwitch(b) \/ UserDeletes(b)
    \/ \E x \in Commits : UserCommit(x) \/ RemoteCommit(x)
    \/ \E i \in Issues : LeaseChanges(i)
    \/ UserEdit \/ GuestChanges

Next ==
    \/ \E c \in Clients, i \in Issues :
          CreateStart(c, i) \/ CloseStart(c, i)
    \/ \E c \in Clients : Create(c) \/ Close(c) \/ Kill(c) \/ UpstreamFails(c)
    \/ World

Spec == Init /\ [][Next]_vars

\* Commands return, and somebody closes an issue again, from a session,
\* while its checkout or its branch is left behind.
FairSpec ==
    /\ Spec
    /\ \A c \in Clients : WF_vars(Create(c) \/ Close(c))
    /\ \A i \in Issues : SF_vars(\E c \in Known : CloseStart(c, i))

(***************************************************************************)
(* Properties.                                                             *)
(***************************************************************************)

Relies(c, f, fact) == fact \/ f \in proc[c].late

\* When create or close is about to move the checkout, or the branch it is
\* on, every gate still holds or was closed by somebody after this process
\* read it last: no gate is skipped, and none is answered from before the
\* switch or the fetch.
MovesAreProven ==
    \A c \in Clients :
        /\ At(c, "switch") =>
              /\ Relies(c, "clean", clean)
              /\ Relies(c, "branch", head = Main)
              /\ Relies(c, "lease", leases \subseteq {proc[c].issue})
        /\ proc[c].pc \in {"back", "forward"} =>
              /\ c \in Known
              /\ Relies(c, "clean", clean)
              /\ Relies(c, "branch", head = IF At(c, "back") THEN Own(c) ELSE Main)
              /\ Relies(c, "lease", leases = {})
              /\ Relies(c, "guest", ~guest)

\* No commit of a branch is lost to a fast-forward, not even one made while
\* close was between its ancestry check and the merge.
NothingLost ==
    [][\A b \in Branches : tip'[b] # {} => tip[b] \subseteq tip'[b]]_vars

\* A baseline is settled once: whatever the probe of a create and the
\* recoveries of several closes find, the first answer and the captured
\* commit stay, and so does a recorded restoration.
SettledOnce ==
    [][\A i \in Issues : base[i] # NoBase =>
          /\ base'[i].commit = base[i].commit
          /\ base[i].state # "pending" => base'[i].state = base[i].state
          /\ base[i].restored => base'[i].restored]_vars

Quiet == clean /\ leases = {} /\ ~guest

\* The checkout is on the branch of an issue and create recorded how it got
\* there, or it is back and the row does not say so, or not that the branch
\* is up to date; nothing stands in the way.
Stranded(i) ==
    /\ Quiet
    /\ base[i].state \in {"pending", "active"} /\ ~base[i].restored
    /\ head = BranchOf[i] /\ tip[Main] # {}

Behind(i) ==
    /\ Quiet
    /\ base[i].state = "active"
    /\ base[i].restored => base[i].update \in {"pending", "failed"}
    /\ head = Main /\ tip[Main] \subseteq upstream

\* Wherever create or an earlier close died, a close that is tried again
\* gets the checkout back and its branch up to date.
ComesHome ==
    /\ \A i \in Issues : Stranded(i) ~> ~Stranded(i)
    /\ \A i \in Issues : Behind(i) ~> ~Behind(i)
=============================================================================

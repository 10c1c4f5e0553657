---------------------------- MODULE RestoreProofs ----------------------------
(***************************************************************************)
(* Theorems about Restore, for any number of processes, issues and commits *)
(* and any behaviour of the person at the checkout.                        *)
(*                                                                         *)
(* MovesAreProven speaks of the last step before a move.  The invariant    *)
(* says it of every step on the way: each gate a process has passed holds, *)
(* or somebody undid it since and the process is told.                     *)
(***************************************************************************)
EXTENDS Restore, TLAPS

CreateProcs ==
    [pc : CreateSteps, issue : Issues, seen : Branches, commit : Histories,
     state : {"pending", "active", "aborted"}, late : SUBSET Facts]
CloseProcs ==
    [pc : CloseSteps, issue : Issues, row : Rows \cup {NoBase},
     seen : Branches, gate : 1..4, commit : Histories,
     verdict : {"none", "updated", "skipped", "failed"}, late : SUBSET Facts]

\* The branch the gates of a close expect.
Aim(p) == IF p.pc \in {"gates", "exists", "back"} THEN BranchOf[p.issue] ELSE Main

\* The gates before the k-th, with the checkout at h, its cleanness cl, the
\* leases ls and the guest g.
Passed(p, c, k, h, cl, ls, g) ==
    /\ k > 1 => cl \/ "clean" \in p.late
    /\ k > 2 => h = Aim(p) \/ "branch" \in p.late
    /\ k > 3 => ls = {} \/ "lease" \in p.late
    /\ k > 4 => (~g \/ "guest" \in p.late) /\ c \in Known

\* What process c, in state p, relies on.
Sure(p, c, h, cl, ls, g) ==
    /\ p.pc \in {"lease", "recheck", "resolve", "insert", "switch"} =>
           (cl \/ "clean" \in p.late) /\ p.seen = Main
    /\ p.pc \in {"recheck", "resolve", "insert", "switch"} =>
           ls \subseteq {p.issue} \/ "lease" \in p.late
    /\ p.pc \in {"resolve", "insert", "switch"} => h = Main \/ "branch" \in p.late
    /\ p.pc \in {"gates", "after"} => Passed(p, c, p.gate, h, cl, ls, g)
    /\ p.pc \in {"exists", "back", "forward"} => Passed(p, c, 5, h, cl, ls, g)
    /\ p.pc \in CloseSteps \ GateSteps => p.gate = 1

RInv == TypeOK /\ \A c \in Clients : Sure(proc[c], c, head, clean, leases, guest)

\* Process p is now q and knows what the world undid.
Informed(p, q, h, i, cl, cm, ls, lt, g, gg) ==
    /\ q.pc = p.pc
    /\ p.pc # "idle" => q.issue = p.issue /\ q.seen = p.seen
    /\ p.pc \in CloseSteps => q.gate = p.gate
    /\ p.pc \in Relying =>
          /\ p.late \subseteq q.late
          /\ cl => cm \/ "clean" \in q.late
          /\ i = h \/ "branch" \in q.late
          /\ lt \subseteq ls \/ "lease" \in q.late
          /\ gg => g \/ "guest" \in q.late

(***************************************************************************)
(* Processes.                                                              *)
(***************************************************************************)

LEMMA ProcKinds ==
    ASSUME NEW p \in Procs
    PROVE  /\ p.pc \in CreateSteps => p \in CreateProcs
           /\ p.pc \in CloseSteps => p \in CloseProcs
           /\ p.pc \in {"idle"} \cup CreateSteps \cup CloseSteps
  BY DEF Procs, CreateProcs, CloseProcs, Idle, CreateSteps, CloseSteps, GateSteps

LEMMA ProcsAre == Procs = {Idle} \cup CreateProcs \cup CloseProcs
  BY DEF Procs, CreateProcs, CloseProcs

LEMMA IdleSure ==
    ASSUME NEW c, NEW h, NEW cl, NEW ls, NEW g
    PROVE  Idle \in Procs /\ Sure(Idle, c, h, cl, ls, g)
  BY DEF Procs, Idle, Sure, CloseSteps, GateSteps

LEMMA SureLasts ==
    ASSUME NEW p \in Procs, NEW q, NEW c, NEW h, NEW i, NEW cl, NEW cm, NEW ls,
           NEW lt, NEW g, NEW gg,
           Sure(p, c, h, cl, ls, g), Informed(p, q, h, i, cl, cm, ls, lt, g, gg)
    PROVE  Sure(q, c, i, cm, lt, gg)
  <1>1. CASE p.pc \in CreateSteps
    BY <1>1, ProcKinds DEF Sure, Informed, Relying, CreateSteps, CloseSteps, GateSteps
  <1>2. CASE p.pc \in CloseSteps
    <2>1. ASSUME NEW k, p.pc \in Relying, Passed(p, c, k, h, cl, ls, g)
          PROVE  Passed(q, c, k, i, cm, lt, gg)
      <3>1. Aim(q) = Aim(p)
        BY <1>2 DEF Aim, Informed, CloseSteps, GateSteps
      <3> QED
        BY <2>1, <3>1 DEF Passed, Informed
    <2>2. q.pc = p.pc /\ q.gate = p.gate
      BY <1>2 DEF Informed
    <2>3. p.pc \in {"gates", "after"} => Passed(q, c, q.gate, i, cm, lt, gg)
      BY <2>1, <2>2 DEF Sure, Relying, GateSteps
    <2>4. p.pc \in {"exists", "back", "forward"} => Passed(q, c, 5, i, cm, lt, gg)
      BY <2>1 DEF Sure, Relying
    <2> QED
      BY <1>2, <2>2, <2>3, <2>4 DEF Sure, CloseSteps, GateSteps
  <1>3. CASE p.pc = "idle"
    BY <1>3 DEF Sure, Informed, CloseSteps, GateSteps
  <1> QED
    BY <1>1, <1>2, <1>3, ProcKinds

\* Telling a process changes its late facts only.
LEMMA ToldKnows ==
    ASSUME NEW p \in Procs, NEW f \in Facts
    PROVE  LET q == Told(p, f)
           IN  /\ q \in Procs /\ q.pc = p.pc
               /\ p.pc # "idle" => q.issue = p.issue /\ q.seen = p.seen
               /\ p.pc \in CloseSteps => q.gate = p.gate
               /\ p.pc \in Relying => p.late \subseteq q.late /\ f \in q.late
  <1> DEFINE q == [p EXCEPT !.late = @ \cup {f}]
  <1>1. CASE p.pc \notin Relying
    BY <1>1 DEF Told
  <1>2. CASE p.pc \in Relying /\ p.pc \in CreateSteps
    <2>1. p \in CreateProcs
      BY <1>2, ProcKinds
    <2>2. /\ q \in CreateProcs /\ q.pc = p.pc /\ q.issue = p.issue /\ q.seen = p.seen
          /\ q.late = p.late \cup {f}
      BY <2>1 DEF CreateProcs
    <2>3. p.pc \notin CloseSteps
      BY <1>2 DEF CreateSteps, CloseSteps, GateSteps
    <2> QED
      BY <1>2, <2>2, <2>3, ProcsAre DEF Told
  <1>3. CASE p.pc \in Relying /\ p.pc \in CloseSteps
    <2>1. p \in CloseProcs
      BY <1>3, ProcKinds
    <2>2. /\ q \in CloseProcs /\ q.pc = p.pc /\ q.issue = p.issue /\ q.seen = p.seen
          /\ q.late = p.late \cup {f} /\ q.gate = p.gate
      BY <2>1 DEF CloseProcs
    <2> QED
      BY <1>3, <2>2, ProcsAre DEF Told
  <1> QED
    BY <1>1, <1>2, <1>3, ProcKinds DEF Relying, GateSteps

(***************************************************************************)
(* The shape of a step.                                                    *)
(***************************************************************************)

\* TypeOK without the processes.
Scenery ==
    /\ head \in Branches /\ tip \in [Branches -> Histories] /\ upstream \in Histories
    /\ clean \in BOOLEAN /\ leases \subseteq Issues /\ guest \in BOOLEAN
    /\ created \subseteq Issues /\ base \in [Issues -> Rows \cup {NoBase}]
    /\ moves \in 0..MaxMoves /\ faults \in 0..MaxFaults

\* A process moves on; the leases may only become fewer.
LEMMA ClientMoves ==
    ASSUME RInv, Scenery', NEW c \in Clients, NEW w \in Procs, Enter(c, w),
           head' = head, clean' = clean, guest' = guest, leases' \subseteq leases,
           Sure(w, c, head, clean, leases', guest)
    PROVE  RInv'
  <1>1. proc \in [Clients -> Procs] /\ proc' = [proc EXCEPT ![c] = w]
    BY DEF RInv, TypeOK, Enter
  <1>2. ASSUME NEW d \in Clients
        PROVE  Sure(proc'[d], d, head', clean', leases', guest')
    <2>1. CASE d = c
      BY <1>1, <2>1
    <2>2. CASE d # c
      <3>1. proc'[d] = proc[d] /\ proc[d] \in Procs
        BY <1>1, <2>2
      <3>2. Sure(proc[d], d, head, clean, leases, guest)
        BY DEF RInv
      <3>3. Informed(proc[d], proc[d], head, head', clean, clean', leases, leases',
                     guest, guest')
        BY DEF Informed
      <3> QED
        BY <3>1, <3>2, <3>3, SureLasts
    <2> QED
      BY <2>1, <2>2
  <1>3. proc' \in [Clients -> Procs]
    BY <1>1
  <1> QED
    BY <1>2, <1>3 DEF RInv, TypeOK, Scenery

\* Most steps only read.
LEMMA ClientReads ==
    ASSUME RInv, NEW c \in Clients, NEW w \in Procs, Enter(c, w),
           UNCHANGED <<git, world, created, base, budget>>,
           Sure(w, c, head, clean, leases, guest)
    PROVE  RInv'
  <1>1. Scenery'
    BY DEF RInv, TypeOK, Scenery, git, world, budget
  <1>2. head' = head /\ clean' = clean /\ guest' = guest /\ leases' = leases
    BY DEF git, world
  <1> QED
    BY <1>1, <1>2, ClientMoves

LEMMA DoneReads ==
    ASSUME RInv, NEW c \in Clients, Done(c),
           UNCHANGED <<git, world, created, base, budget>>
    PROVE  RInv'
  BY IdleSure, ClientReads DEF Done

\* A process moves the checkout, and everybody else is told.
LEMMA CheckoutMoves ==
    ASSUME RInv, NEW c \in Clients, NEW w \in Procs, NEW b \in Branches,
           Move(c, b, w), UNCHANGED <<tip, clean, world, created, base, budget>>,
           Sure(w, c, b, clean, leases, guest)
    PROVE  RInv'
  <1>1. proc \in [Clients -> Procs]
    BY DEF RInv, TypeOK
  <1>2. ASSUME NEW d \in Clients
        PROVE  proc'[d] \in Procs /\ Sure(proc'[d], d, head', clean', leases', guest')
    <2>1. CASE d = c
      BY <2>1 DEF Move, world
    <2>2. CASE d # c
      <3> DEFINE q == Told(proc[d], "branch")
      <3>1. proc'[d] = q /\ proc[d] \in Procs
        BY <1>1, <2>2 DEF Move
      <3>2. /\ q \in Procs /\ q.pc = proc[d].pc
            /\ proc[d].pc # "idle" => q.issue = proc[d].issue /\ q.seen = proc[d].seen
            /\ proc[d].pc \in CloseSteps => q.gate = proc[d].gate
            /\ proc[d].pc \in Relying => proc[d].late \subseteq q.late /\ "branch" \in q.late
        BY <3>1, ToldKnows DEF Facts
      <3>3. clean' = clean /\ leases' = leases /\ guest' = guest
        BY DEF world
      <3>4. Informed(proc[d], q, head, head', clean, clean', leases, leases',
                     guest, guest')
        BY <3>2, <3>3 DEF Informed
      <3>5. Sure(proc[d], d, head, clean, leases, guest)
        BY DEF RInv
      <3> HIDE DEF q
      <3> QED
        BY <3>1, <3>2, <3>4, <3>5, SureLasts
    <2> QED
      BY <2>1, <2>2
  <1>3. DOMAIN proc' = Clients /\ head' = b
    BY DEF Move
  <1>4. proc' \in [Clients -> Procs]
    BY <1>2, <1>3 DEF Move
  <1> QED
    BY <1>2, <1>3, <1>4 DEF RInv, TypeOK, world, budget

\* The world undoes a fact, and everybody is told.
LEMMA WorldUndoes ==
    ASSUME RInv, Scenery', NEW f \in Facts, Undone(f),
           clean => clean' \/ f = "clean", head' = head \/ f = "branch",
           leases' \subseteq leases \/ f = "lease", guest' => guest \/ f = "guest"
    PROVE  RInv'
  <1>1. proc \in [Clients -> Procs]
    BY DEF RInv, TypeOK
  <1>2. ASSUME NEW d \in Clients
        PROVE  proc'[d] \in Procs /\ Sure(proc'[d], d, head', clean', leases', guest')
    <2> DEFINE q == Told(proc[d], f)
    <2>1. proc'[d] = q /\ proc[d] \in Procs
      BY <1>1 DEF Undone
    <2>2. /\ q \in Procs /\ q.pc = proc[d].pc
          /\ proc[d].pc # "idle" => q.issue = proc[d].issue /\ q.seen = proc[d].seen
          /\ proc[d].pc \in CloseSteps => q.gate = proc[d].gate
          /\ proc[d].pc \in Relying => proc[d].late \subseteq q.late /\ f \in q.late
      BY <2>1, ToldKnows
    <2>3. Informed(proc[d], q, head, head', clean, clean', leases, leases',
                   guest, guest')
      BY <2>2 DEF Informed
    <2>4. Sure(proc[d], d, head, clean, leases, guest)
      BY DEF RInv
    <2> HIDE DEF q
    <2> QED
      BY <2>1, <2>2, <2>3, <2>4, SureLasts
  <1>3. proc' \in [Clients -> Procs]
    BY <1>2 DEF Undone
  <1> QED
    BY <1>2, <1>3 DEF RInv, TypeOK, Scenery

\* The world does something nobody relies on.
LEMMA WorldHelps ==
    ASSUME RInv, Scenery', proc' = proc, clean => clean', head' = head,
           leases' \subseteq leases, guest' => guest
    PROVE  RInv'
  <1>1. proc \in [Clients -> Procs]
    BY DEF RInv, TypeOK
  <1>2. ASSUME NEW d \in Clients
        PROVE  Sure(proc[d], d, head', clean', leases', guest')
    <2>1. Informed(proc[d], proc[d], head, head', clean, clean', leases, leases',
                   guest, guest')
      BY DEF Informed
    <2>2. Sure(proc[d], d, head, clean, leases, guest)
      BY DEF RInv
    <2> QED
      BY <1>1, <2>1, <2>2, SureLasts
  <1> QED
    BY <1>1, <1>2 DEF RInv, TypeOK, Scenery

LEMMA ClientKnows ==
    ASSUME RInv, NEW c \in Clients
    PROVE  /\ TypeOK /\ Scenery
           /\ proc[c] \in Procs /\ Sure(proc[c], c, head, clean, leases, guest)
           /\ proc[c].pc \in CreateSteps => proc[c] \in CreateProcs /\ Own(c) \in Branches
           /\ proc[c].pc \in CloseSteps => proc[c] \in CloseProcs /\ Own(c) \in Branches
  <1>1. TypeOK /\ Scenery /\ proc[c] \in Procs
    BY DEF RInv, TypeOK, Scenery
  <1>2. Sure(proc[c], c, head, clean, leases, guest)
    BY DEF RInv
  <1>3. /\ proc[c].pc \in CreateSteps => proc[c] \in CreateProcs
        /\ proc[c].pc \in CloseSteps => proc[c] \in CloseProcs
    BY <1>1, ProcKinds
  <1>4. proc[c] \in CreateProcs \cup CloseProcs => Own(c) \in Branches
    BY DEF CreateProcs, CloseProcs, Own, Branches
  <1> QED
    BY <1>1, <1>2, <1>3, <1>4

\* transition_pending keeps the rows rows.
LEMMA TransitionTypes ==
    ASSUME base \in [Issues -> Rows \cup {NoBase}], NEW i \in Issues,
           NEW state \in {"pending", "active", "aborted"}, Transition(i, state)
    PROVE  base' \in [Issues -> Rows \cup {NoBase}]
  <1>1. CASE base[i].state # "pending"
    BY <1>1 DEF Transition
  <1>2. CASE base[i].state = "pending"
    <2>1. base[i] \in Rows
      BY <1>2 DEF NoBase
    <2>2. [base[i] EXCEPT !.state = state] \in Rows
      BY <2>1 DEF Rows
    <2>3. base' = [base EXCEPT ![i] = [base[i] EXCEPT !.state = state]]
      BY <1>2 DEF Transition
    <2> QED
      BY <2>2, <2>3
  <1> QED
    BY <1>1, <1>2

(***************************************************************************)
(* issue create                                                            *)
(***************************************************************************)

LEMMA CreateStartSafe ==
    ASSUME RInv, NEW c \in Clients, NEW i \in Issues, CreateStart(c, i)
    PROVE  RInv'
  <1> DEFINE w == [pc |-> "ensure", issue |-> i, seen |-> head, commit |-> {},
                   state |-> "pending", late |-> {}]
  <1>1. Scenery /\ Scenery'
    BY DEF RInv, TypeOK, Scenery, CreateStart, git, world, budget
  <1>2. w \in CreateProcs /\ w.pc = "ensure"
    BY <1>1 DEF CreateProcs, CreateSteps, Scenery, Histories
  <1>3. w \in Procs
    BY <1>2, ProcsAre
  <1>4. /\ Enter(c, w) /\ head' = head /\ clean' = clean /\ guest' = guest
        /\ leases' = leases
    BY DEF CreateStart, git, world
  <1>5. Sure(w, c, head, clean, leases, guest)
    BY <1>2 DEF Sure, CloseSteps, GateSteps
  <1> HIDE DEF w
  <1> QED
    BY <1>1, <1>3, <1>4, <1>5, ClientMoves

LEMMA CreateSafe == ASSUME RInv, NEW c \in Clients, Create(c) PROVE RInv'
  <1> DEFINE p == proc[c]
  <1>0. /\ Scenery /\ Sure(p, c, head, clean, leases, guest) /\ Own(c) \in Branches
        /\ p \in CreateProcs
    <2>1. p.pc \in CreateSteps
      BY DEF Create, CreateStops, EnsureBranch, CreateClean, CreateLease, CaptureBranch,
             CaptureHead, InsertPending, CreateSwitch, ProbeBranch, ProbeHead,
             CreateSettle, At, CreateSteps
    <2> QED
      BY <2>1, ClientKnows
  <1>1. ASSUME CreateStops(c) PROVE RInv'
    BY <1>1, DoneReads DEF CreateStops
  <1>2. ASSUME EnsureBranch(c) PROVE RInv'
    <2>1. Scenery'
      BY <1>0, <1>2 DEF EnsureBranch, Scenery, world, budget
    <2>2. head' = head /\ clean' = clean /\ guest' = guest /\ leases' = leases
      BY <1>2 DEF EnsureBranch, world
    <2> DEFINE w == [p EXCEPT !.pc = "clean"]
    <2>3. w \in CreateProcs /\ w.pc = "clean"
      BY <1>0 DEF CreateProcs, CreateSteps
    <2>4. w \in Procs /\ Sure(w, c, head, clean, leases, guest)
      BY <2>3, ProcsAre DEF Sure, CloseSteps, GateSteps
    <2>5. Enter(c, w) \/ Enter(c, Idle)
      BY <1>2 DEF EnsureBranch, Goto, Done
    <2> HIDE DEF w
    <2> QED
      BY <2>1, <2>2, <2>4, <2>5, IdleSure, ClientMoves
  <1>3. ASSUME CreateClean(c) PROVE RInv'
    <2> DEFINE w == Checked([p EXCEPT !.pc = "lease"], "clean")
    <2>1. w \in CreateProcs /\ w.pc = "lease" /\ w.seen = p.seen
      BY <1>0 DEF Checked, CreateProcs, CreateSteps
    <2>2. w \in Procs /\ Sure(w, c, head, clean, leases, guest)
      BY <1>3, <2>1, ProcsAre DEF CreateClean, Sure, CloseSteps, GateSteps
    <2>3. Enter(c, w)
      BY <1>3 DEF CreateClean
    <2> HIDE DEF w
    <2> QED
      BY <1>3, <2>2, <2>3, ClientReads DEF CreateClean
  <1>4. ASSUME CreateLease(c) PROVE RInv'
    <2> DEFINE w == Checked([p EXCEPT !.pc = "recheck"], "lease")
    <2>1. /\ w \in CreateProcs /\ w.pc = "recheck" /\ w.seen = p.seen
          /\ w.issue = p.issue /\ w.late = p.late \ {"lease"}
      BY <1>0 DEF Checked, CreateProcs, CreateSteps
    <2>2. w \in Procs /\ Sure(w, c, head, clean, leases, guest)
      BY <1>0, <1>4, <2>1, ProcsAre DEF CreateLease, At, Sure, CloseSteps, GateSteps
    <2>3. Enter(c, w)
      BY <1>4 DEF CreateLease
    <2> HIDE DEF w
    <2> QED
      BY <1>4, <2>2, <2>3, ClientReads DEF CreateLease
  <1>5. ASSUME CaptureBranch(c) PROVE RInv'
    <2> DEFINE w == Checked([p EXCEPT !.pc = "resolve"], "branch")
    <2>1. /\ w \in CreateProcs /\ w.pc = "resolve" /\ w.seen = p.seen
          /\ w.issue = p.issue /\ w.late = p.late \ {"branch"}
      BY <1>0 DEF Checked, CreateProcs, CreateSteps
    <2>2. w \in Procs /\ Sure(w, c, head, clean, leases, guest)
      BY <1>0, <1>5, <2>1, ProcsAre DEF CaptureBranch, At, Sure, CloseSteps, GateSteps
    <2>3. Enter(c, w)
      BY <1>5 DEF CaptureBranch
    <2> HIDE DEF w
    <2> QED
      BY <1>5, <2>2, <2>3, ClientReads DEF CaptureBranch
  <1>6. ASSUME CaptureHead(c) PROVE RInv'
    <2> DEFINE w == [p EXCEPT !.pc = "insert", !.seen = Main, !.commit = tip[head]]
    <2>1. /\ w \in CreateProcs /\ w.pc = "insert" /\ w.seen = Main
          /\ w.issue = p.issue /\ w.late = p.late
      BY <1>0 DEF CreateProcs, CreateSteps, Scenery, Branches
    <2>2. w \in Procs /\ Sure(w, c, head, clean, leases, guest)
      BY <1>0, <1>6, <2>1, ProcsAre DEF CaptureHead, At, Sure, CloseSteps, GateSteps
    <2>3. Enter(c, w)
      BY <1>6 DEF CaptureHead
    <2> HIDE DEF w
    <2> QED
      BY <1>6, <2>2, <2>3, ClientReads DEF CaptureHead
  <1>7. ASSUME InsertPending(c) PROVE RInv'
    <2> DEFINE w == [p EXCEPT !.pc = "switch", !.commit = {}]
    <2>1. /\ w \in CreateProcs /\ w.pc = "switch" /\ w.seen = p.seen
          /\ w.issue = p.issue /\ w.late = p.late
      BY <1>0 DEF CreateProcs, CreateSteps, Histories
    <2>2. w \in Procs /\ Sure(w, c, head, clean, leases, guest)
      BY <1>0, <1>7, <2>1, ProcsAre DEF InsertPending, At, Sure, CloseSteps, GateSteps
    <2>3. Captured(p.commit) \in Rows /\ p.issue \in Issues
      BY <1>0 DEF Captured, Rows, CreateProcs
    <2>4. base' \in [Issues -> Rows \cup {NoBase}]
      BY <1>0, <1>7, <2>3 DEF InsertPending, Scenery
    <2>5. Scenery'
      BY <1>0, <1>7, <2>4 DEF InsertPending, Scenery, git, world, budget
    <2>6. /\ Enter(c, w) /\ head' = head /\ clean' = clean /\ guest' = guest
          /\ leases' = leases
      BY <1>7 DEF InsertPending, git, world
    <2> HIDE DEF w
    <2> QED
      BY <2>2, <2>5, <2>6, ClientMoves
  <1>8. ASSUME CreateSwitch(c) PROVE RInv'
    <2> DEFINE w == [p EXCEPT !.pc = "probe", !.late = {}]
    <2>1. w \in CreateProcs /\ w.pc = "probe"
      BY <1>0 DEF CreateProcs, CreateSteps
    <2>2. w \in Procs /\ \A b : Sure(w, c, b, clean, leases, guest)
      BY <2>1, ProcsAre DEF Sure, CloseSteps, GateSteps
    <2>3. Move(c, Own(c), w) \/ (Enter(c, w) /\ UNCHANGED head)
      BY <1>8 DEF CreateSwitch
    <2>4. UNCHANGED <<tip, clean, world, created, base, budget>>
      BY <1>8 DEF CreateSwitch
    <2> HIDE DEF w
    <2>5. CASE Move(c, Own(c), w)
      BY <1>0, <2>2, <2>4, <2>5, CheckoutMoves
    <2>6. CASE Enter(c, w) /\ UNCHANGED head
      BY <2>2, <2>4, <2>6, ClientReads DEF git
    <2> QED
      BY <2>3, <2>5, <2>6
  <1>9. ASSUME ProbeBranch(c) PROVE RInv'
    <2> DEFINE w == [p EXCEPT !.pc = "probehead", !.seen = head]
    <2>1. w \in CreateProcs /\ w.pc = "probehead"
      BY <1>0 DEF CreateProcs, CreateSteps, Scenery
    <2>2. w \in Procs /\ Sure(w, c, head, clean, leases, guest)
      BY <2>1, ProcsAre DEF Sure, CloseSteps, GateSteps
    <2>3. Enter(c, w)
      BY <1>9 DEF ProbeBranch
    <2> HIDE DEF w
    <2> QED
      BY <1>9, <2>2, <2>3, ClientReads DEF ProbeBranch
  <1>10. ASSUME ProbeHead(c) PROVE RInv'
    <2>1. ASSUME NEW state \in {"active", "aborted"},
                 Enter(c, [p EXCEPT !.pc = "settle", !.state = state])
          PROVE  RInv'
      <3> DEFINE w == [p EXCEPT !.pc = "settle", !.state = state]
      <3>1. w \in CreateProcs /\ w.pc = "settle"
        BY <1>0 DEF CreateProcs, CreateSteps
      <3>2. w \in Procs /\ Sure(w, c, head, clean, leases, guest)
        BY <3>1, ProcsAre DEF Sure, CloseSteps, GateSteps
      <3>3. Enter(c, w)
        BY <2>1
      <3> HIDE DEF w
      <3> QED
        BY <1>10, <3>2, <3>3, ClientReads DEF ProbeHead
    <2> QED
      BY <1>10, <2>1, DoneReads DEF ProbeHead
  <1>11. ASSUME CreateSettle(c) PROVE RInv'
    <2>1. base' \in [Issues -> Rows \cup {NoBase}]
      BY <1>0, <1>11, TransitionTypes DEF CreateSettle, CreateProcs, Scenery
    <2>2. Scenery'
      BY <1>0, <1>11, <2>1 DEF CreateSettle, Scenery, git, world, budget
    <2> QED
      BY <1>11, <2>2, IdleSure, ClientMoves DEF CreateSettle, Done, git, world
  <1> QED
    BY <1>1, <1>2, <1>3, <1>4, <1>5, <1>6, <1>7, <1>8, <1>9, <1>10, <1>11 DEF Create

(***************************************************************************)
(* issue close                                                             *)
(***************************************************************************)

\* The steps of a close that rely on nothing.
Free == (CloseSteps \ GateSteps) \ {"exists", "back", "forward"}

LEMMA FreeSure ==
    ASSUME NEW w \in CloseProcs, w.pc \in Free, w.gate = 1, NEW c, NEW h, NEW cl,
           NEW ls, NEW g
    PROVE  w \in Procs /\ Sure(w, c, h, cl, ls, g)
  BY ProcsAre DEF Sure, Free, CloseSteps, GateSteps

LEMMA CloseStartSafe ==
    ASSUME RInv, NEW c \in Clients, NEW i \in Issues, CloseStart(c, i)
    PROVE  RInv'
  <1> DEFINE w == [pc |-> "read", issue |-> i, row |-> NoBase, seen |-> Main,
                   gate |-> 1, commit |-> {}, verdict |-> "none", late |-> {}]
  <1>1. leases' \subseteq leases
    BY DEF CloseStart
  <1>2. Scenery'
    BY <1>1 DEF RInv, TypeOK, Scenery, CloseStart, git, budget
  <1>3. w \in CloseProcs /\ w.pc = "read" /\ w.gate = 1
    BY DEF CloseProcs, CloseSteps, Branches, Histories
  <1>4. Enter(c, w) /\ head' = head /\ clean' = clean /\ guest' = guest
    BY DEF CloseStart, git
  <1> HIDE DEF w
  <1>5. w \in Procs /\ Sure(w, c, head, clean, leases', guest)
    BY <1>3, FreeSure DEF Free, CloseSteps, GateSteps
  <1> QED
    BY <1>1, <1>2, <1>4, <1>5, ClientMoves

\* Fields of a close, each set to a value of its type.
LEMMA SetPc ==
    ASSUME NEW p \in CloseProcs, NEW x \in CloseSteps,
           NEW w, w = [p EXCEPT !.pc = x]
    PROVE  /\ w \in CloseProcs /\ w.pc = x /\ w.gate = p.gate
           /\ w.issue = p.issue /\ w.late = p.late
  BY DEF CloseProcs

LEMMA SetGate ==
    ASSUME NEW p \in CloseProcs, NEW x \in 1..4,
           NEW w, w = [p EXCEPT !.gate = x]
    PROVE  /\ w \in CloseProcs /\ w.pc = p.pc /\ w.gate = x
           /\ w.issue = p.issue /\ w.late = p.late
  BY DEF CloseProcs

LEMMA SetLate ==
    ASSUME NEW p \in CloseProcs, NEW x, x \subseteq Facts,
           NEW w, w = [p EXCEPT !.late = x]
    PROVE  /\ w \in CloseProcs /\ w.pc = p.pc /\ w.gate = p.gate
           /\ w.issue = p.issue /\ w.late = x
  BY DEF CloseProcs

LEMMA SetVerdict ==
    ASSUME NEW p \in CloseProcs, NEW x \in {"none", "updated", "skipped", "failed"},
           NEW w, w = [p EXCEPT !.verdict = x]
    PROVE  /\ w \in CloseProcs /\ w.pc = p.pc /\ w.gate = p.gate
           /\ w.issue = p.issue /\ w.late = p.late
  BY DEF CloseProcs

LEMMA SetCommit ==
    ASSUME NEW p \in CloseProcs, NEW x \in Histories,
           NEW w, w = [p EXCEPT !.commit = x]
    PROVE  /\ w \in CloseProcs /\ w.pc = p.pc /\ w.gate = p.gate
           /\ w.issue = p.issue /\ w.late = p.late
  BY DEF CloseProcs

\* finish: the verdict of the update is written next.
LEMMA FinishTypes ==
    ASSUME NEW c, proc[c] \in CloseProcs, NEW verdict \in {"updated", "skipped", "failed"},
           Finish(c, verdict)
    PROVE  \E w \in CloseProcs : Enter(c, w) /\ w.pc = "finish" /\ w.gate = 1
  <1> DEFINE w == [proc[c] EXCEPT !.pc = "finish", !.verdict = verdict,
                                  !.gate = 1, !.commit = {}, !.late = {}]
             v1 == [proc[c] EXCEPT !.pc = "finish"]
             v2 == [v1 EXCEPT !.verdict = verdict]
             v3 == [v2 EXCEPT !.commit = {}]
             v4 == [v3 EXCEPT !.gate = 1]
             v5 == [v4 EXCEPT !.late = {}]
  <1>1. w \in CloseProcs /\ w.pc = "finish" /\ w.gate = 1
    <2>1. w = v5
      BY DEF CloseProcs
    <2>2. {} \in Histories /\ 1 \in 1..4
      BY DEF Histories
    <2>3. v1 \in CloseProcs /\ v1.pc = "finish"
      BY SetPc DEF CloseSteps
    <2> HIDE DEF w, v1
    <2>4. v2 \in CloseProcs /\ v2.pc = "finish"
      BY <2>3, SetVerdict
    <2> HIDE DEF v2
    <2>5. v3 \in CloseProcs /\ v3.pc = "finish"
      BY <2>2, <2>4, SetCommit
    <2> HIDE DEF v3
    <2>6. v4 \in CloseProcs /\ v4.pc = "finish" /\ v4.gate = 1
      BY <2>2, <2>5, SetGate
    <2> HIDE DEF v4
    <2>7. v5 \in CloseProcs /\ v5.pc = "finish" /\ v5.gate = 1
      BY <2>6, SetLate
    <2> QED
      BY <2>1, <2>7
  <1>2. Enter(c, w)
    BY DEF Finish
  <1> QED
    BY <1>1, <1>2

LEMMA FinishReads ==
    ASSUME RInv, NEW c \in Clients, proc[c] \in CloseProcs,
           NEW verdict \in {"updated", "skipped", "failed"}, Finish(c, verdict),
           UNCHANGED <<git, world, created, base>>, Scenery'
    PROVE  RInv'
  <1>1. PICK w \in CloseProcs : Enter(c, w) /\ w.pc = "finish" /\ w.gate = 1
    BY FinishTypes
  <1>2. w \in Procs /\ Sure(w, c, head, clean, leases, guest)
    BY <1>1, FreeSure DEF Free, CloseSteps, GateSteps
  <1> QED
    BY <1>1, <1>2, ClientMoves DEF git, world

\* The gates, one by one.
LEMMA MainGateSafe == ASSUME RInv, NEW c \in Clients, MainGate(c) PROVE RInv'
  <1> DEFINE p == proc[c]
             f == Gates[p.gate]
             w == Checked(Pass(c), f)
  <1>0. /\ Scenery /\ Sure(p, c, head, clean, leases, guest) /\ p \in CloseProcs
        /\ p.pc \in GateSteps
    BY ClientKnows DEF MainGate, CloseSteps
  <1>1. /\ p.gate \in 1..4 /\ p.pc \in {"gates", "before", "after"}
        /\ p.pc \in CloseSteps
    BY <1>0 DEF CloseProcs, GateSteps
  <1>2. UNCHANGED <<git, world, created, base, budget>>
    BY DEF MainGate
  <1>3. CASE ~Holds(c, f)
    <2>1. Done(c) \/ Finish(c, "failed")
      BY <1>3 DEF MainGate
    <2>2. Scenery'
      BY <1>0, <1>2 DEF Scenery, git, world, budget
    <2> QED
      BY <1>0, <1>2, <2>1, <2>2, DoneReads, FinishReads
  <1>4. CASE Holds(c, f)
    <2>0. Enter(c, w)
      <3>1. CASE Enter(c, Checked(Pass(c), f))
        BY <3>1
      <3> QED
        BY <1>4, <3>1 DEF MainGate
    <2>1. p.gate = 1 => f = "clean"
      BY DEF Gates
    <2>2. p.gate = 2 => f = "branch"
      BY DEF Gates
    <2>3. p.gate = 3 => f = "lease"
      BY DEF Gates
    <2>4. p.gate = 4 => f = "guest"
      BY DEF Gates
    <2> HIDE DEF f
    <2>5. CASE p.gate < 4
      <3>1. Pass(c) = [p EXCEPT !.gate = p.gate + 1]
        BY <2>5 DEF Pass
      <3>2. /\ w \in CloseProcs /\ w.pc = p.pc /\ w.gate = p.gate + 1
            /\ w.issue = p.issue /\ w.late = p.late \ {f}
        <4>1. p.gate + 1 \in 1..4
          BY <1>1, <2>5
        <4> QED
          BY <1>0, <3>1, <4>1 DEF Checked, CloseProcs
      <3>3. Aim(w) = Aim(p) /\ (p.pc # "before" => Aim(p) = Expected(c))
        BY <1>1, <3>2 DEF Aim, Expected, At, Own
      <3>4. p.pc \in {"gates", "after"} => Passed(p, c, p.gate, head, clean, leases, guest)
        BY <1>0 DEF Sure
      <3>5. p.pc \in {"gates", "after"} => Passed(w, c, w.gate, head, clean, leases, guest)
        <4> HAVE p.pc \in {"gates", "after"}
        <4>1. CASE p.gate = 1
          BY <1>4, <2>1, <3>2, <3>4, <4>1 DEF Passed, Holds
        <4>2. CASE p.gate = 2
          BY <1>4, <2>2, <3>2, <3>3, <3>4, <4>2 DEF Passed, Holds
        <4>3. CASE p.gate = 3
          BY <1>4, <2>3, <3>2, <3>3, <3>4, <4>3 DEF Passed, Holds
        <4> QED
          BY <1>1, <2>5, <4>1, <4>2, <4>3
      <3>6. Sure(w, c, head, clean, leases, guest)
        BY <1>1, <3>2, <3>5 DEF Sure, CloseSteps, GateSteps
      <3>7. w \in Procs
        BY <3>2, ProcsAre
      <3> HIDE DEF w
      <3> QED
        BY <1>2, <2>0, <3>6, <3>7, ClientReads
    <2>6. CASE p.gate = 4
      <3>1. Pass(c) = [p EXCEPT !.gate = 1, !.pc = Beyond(c)]
        BY <2>6 DEF Pass
      <3>2. /\ p.pc = "gates" => Beyond(c) = "exists"
            /\ p.pc = "before" => Beyond(c) = "fetch"
            /\ p.pc = "after" => Beyond(c) = "forward"
        BY <1>1 DEF Beyond, At
      <3>3. /\ w \in CloseProcs /\ w.pc = Beyond(c) /\ w.gate = 1
            /\ w.issue = p.issue /\ w.late = p.late \ {f}
        <4> DEFINE v == [p EXCEPT !.gate = 1, !.pc = Beyond(c)]
        <4>1. Beyond(c) \in CloseSteps
          BY <1>1, <3>2 DEF CloseSteps
        <4>2. /\ v \in CloseProcs /\ v.pc = Beyond(c) /\ v.gate = 1
              /\ v.issue = p.issue /\ v.late = p.late
          <5> DEFINE u == [p EXCEPT !.gate = 1]
          <5>1. 1 \in 1..4
            OBVIOUS
          <5>2. v = [u EXCEPT !.pc = Beyond(c)]
            OBVIOUS
          <5>3. /\ u \in CloseProcs /\ u.gate = 1
                /\ u.issue = p.issue /\ u.late = p.late
            BY <1>0, <5>1, SetGate
          <5> HIDE DEF u, v
          <5> QED
            BY <4>1, <5>2, <5>3, SetPc
        <4>3. w = [v EXCEPT !.late = v.late \ {f}]
          BY <3>1 DEF Checked
        <4>4. v.late \ {f} \subseteq Facts
          BY <1>0, <4>2 DEF CloseProcs
        <4> HIDE DEF v, w
        <4> QED
          BY <4>2, <4>3, <4>4, SetLate
      <3>4. p.pc # "before" => Aim(w) = Aim(p)
        BY <1>1, <3>2, <3>3 DEF Aim
      <3>5. p.pc # "before" => Passed(w, c, 5, head, clean, leases, guest)
        BY <1>0, <1>1, <1>4, <2>4, <2>6, <3>3, <3>4 DEF Sure, Passed, Holds
      <3>6. Sure(w, c, head, clean, leases, guest)
        BY <1>1, <3>2, <3>3, <3>5 DEF Sure, CloseSteps, GateSteps
      <3>7. w \in Procs
        BY <3>3, ProcsAre
      <3> HIDE DEF w
      <3> QED
        BY <1>2, <2>0, <3>6, <3>7, ClientReads
    <2> QED
      BY <1>1, <2>5, <2>6
  <1> QED
    BY <1>3, <1>4

\* A step to a place that relies on nothing.
LEMMA FreeReads ==
    ASSUME RInv, NEW c \in Clients, NEW w \in CloseProcs, w.pc \in Free, w.gate = 1,
           Enter(c, w), UNCHANGED <<git, world, created, base, budget>>
    PROVE  RInv'
  BY FreeSure, ClientReads

LEMMA GotoReads ==
    ASSUME RInv, NEW c \in Clients, proc[c] \in CloseProcs, proc[c].gate = 1,
           NEW x \in Free, Goto(c, x), UNCHANGED <<git, world, created, base, budget>>
    PROVE  RInv'
  <1> DEFINE w == [proc[c] EXCEPT !.pc = x]
  <1>1. w \in CloseProcs /\ w.pc = x /\ w.gate = 1
    BY SetPc DEF Free
  <1>2. Enter(c, w)
    BY DEF Goto
  <1> HIDE DEF w
  <1> QED
    BY <1>1, <1>2, FreeReads

\* Where a settled row leads.
LEMMA FollowTypes ==
    ASSUME NEW c, proc[c] \in CloseProcs, proc[c].gate = 1, NEW row, Follow(c, row)
    PROVE  \/ Done(c)
           \/ \E w \in CloseProcs : w.pc \in Free /\ w.gate = 1 /\ Enter(c, w)
  <1> SUFFICES ASSUME Onward(row) # "done"
               PROVE  \E w \in CloseProcs : w.pc \in Free /\ w.gate = 1 /\ Enter(c, w)
    BY DEF Follow
  <1>1. Onward(row) \in Free /\ Onward(row) \in CloseSteps
    BY DEF Onward, Free, CloseSteps, GateSteps
  <1> DEFINE v == [proc[c] EXCEPT !.pc = Onward(row)]
             w == [proc[c] EXCEPT !.pc = Onward(row), !.row = NoBase, !.seen = Main]
  <1>2. v \in CloseProcs /\ v.pc = Onward(row) /\ v.gate = 1
    BY <1>1, SetPc
  <1>3. w = [v EXCEPT !.row = NoBase, !.seen = Main]
    BY DEF CloseProcs
  <1>4. Enter(c, w)
    BY DEF Follow
  <1> HIDE DEF v, w
  <1>5. w \in CloseProcs /\ w.pc = Onward(row) /\ w.gate = 1
    BY <1>2, <1>3 DEF CloseProcs, Branches
  <1> QED
    BY <1>1, <1>4, <1>5

\* recover_pending and the choice of the way back.
LEMMA RecoverSafe ==
    ASSUME RInv, NEW c \in Clients,
           \/ ReadBaseline(c) \/ Recover(c) \/ RecoverCompare(c) \/ RecoverActivate(c)
           \/ RecoverAbort(c)
    PROVE  RInv'
  <1> DEFINE p == proc[c]
  <1>0. /\ Scenery /\ p \in CloseProcs /\ p.gate = 1 /\ p.issue \in Issues
    <2>1. p.pc \in CloseSteps \ GateSteps
      BY DEF ReadBaseline, Recover, RecoverCompare, RecoverActivate, RecoverAbort, At,
             CloseSteps, GateSteps
    <2>2. p \in CloseProcs /\ Sure(p, c, head, clean, leases, guest) /\ Scenery
      BY <2>1, ClientKnows
    <2> QED
      BY <2>1, <2>2 DEF Sure, CloseProcs
  <1>1. ASSUME ReadBaseline(c) PROVE RInv'
    <2>1. UNCHANGED <<git, world, created, base, budget>>
      BY <1>1 DEF ReadBaseline
    <2>2. ASSUME NEW row, Follow(c, row) PROVE RInv'
      BY <1>0, <2>1, <2>2, FollowTypes, DoneReads, FreeReads
    <2>3. ASSUME Row(c) # NoBase, Enter(c, [p EXCEPT !.pc = "recover", !.row = Row(c)])
          PROVE  RInv'
      <3> DEFINE w == [p EXCEPT !.pc = "recover", !.row = Row(c)]
      <3>1. Row(c) \in Rows \cup {NoBase}
        BY <1>0 DEF Row, Scenery
      <3>2. w \in CloseProcs /\ w.pc = "recover" /\ w.gate = p.gate
        BY <1>0, <3>1 DEF CloseProcs, CloseSteps
      <3>3. Enter(c, w)
        BY <2>3
      <3> HIDE DEF w
      <3> QED
        BY <1>0, <2>1, <3>2, <3>3, FreeReads DEF Free, CloseSteps, GateSteps
    <2>4. \/ Done(c)
          \/ Row(c) # NoBase /\ Enter(c, [p EXCEPT !.pc = "recover", !.row = Row(c)])
          \/ Follow(c, Row(c))
      BY <1>1 DEF ReadBaseline, NoBase
    <2> QED
      BY <2>1, <2>2, <2>3, <2>4, DoneReads
  <1>2. ASSUME Recover(c) PROVE RInv'
    <2> DEFINE to == IF head = Own(c) THEN "activate" ELSE "compare"
               w  == [p EXCEPT !.pc = to, !.seen = head]
    <2>1. to \in CloseSteps /\ to \in Free
      BY DEF CloseSteps, Free, GateSteps
    <2>2. Enter(c, w)
      BY <1>2 DEF Recover
    <2> HIDE DEF to
    <2>3. w \in CloseProcs /\ w.pc = to /\ w.gate = p.gate
      BY <1>0, <2>1 DEF CloseProcs, Scenery
    <2> HIDE DEF w
    <2> QED
      BY <1>0, <1>2, <2>1, <2>2, <2>3, FreeReads DEF Recover
  <1>3. ASSUME RecoverCompare(c) PROVE RInv'
    BY <1>0, <1>3, DoneReads, GotoReads DEF RecoverCompare, Free, CloseSteps, GateSteps
  <1>4. ASSUME RecoverActivate(c) PROVE RInv'
    <2>1. base' \in [Issues -> Rows \cup {NoBase}]
      BY <1>0, <1>4, TransitionTypes DEF RecoverActivate, Scenery
    <2>2. Scenery'
      BY <1>0, <1>4, <2>1 DEF RecoverActivate, Scenery, git, world, budget
    <2>3. \/ Enter(c, Idle)
          \/ \E w \in CloseProcs : w.pc \in Free /\ w.gate = 1 /\ Enter(c, w)
      BY <1>0, <1>4, FollowTypes DEF RecoverActivate, Done
    <2>4. head' = head /\ clean' = clean /\ guest' = guest /\ leases' = leases
      BY <1>4 DEF RecoverActivate, git, world
    <2> QED
      BY <2>2, <2>3, <2>4, IdleSure, FreeSure, ClientMoves
  <1>5. ASSUME RecoverAbort(c) PROVE RInv'
    <2>1. base' \in [Issues -> Rows \cup {NoBase}]
      BY <1>0, <1>5, TransitionTypes DEF RecoverAbort, Scenery
    <2>2. Scenery'
      BY <1>0, <1>5, <2>1 DEF RecoverAbort, Scenery, git, world, budget
    <2> QED
      BY <1>5, <2>2, IdleSure, ClientMoves DEF RecoverAbort, Done, git, world
  <1> QED
    BY <1>1, <1>2, <1>3, <1>4, <1>5

\* The switch back.
LEMMA SwitchSafe ==
    ASSUME RInv, NEW c \in Clients,
           \/ ReadCurrent(c) \/ BaselineExists(c) \/ SwitchBack(c) \/ VerifyBack(c)
           \/ MarkRestored(c)
    PROVE  RInv'
  <1> DEFINE p == proc[c]
  <1>0. /\ Scenery /\ p \in CloseProcs /\ p.gate = 1 /\ p.issue \in Issues
        /\ Sure(p, c, head, clean, leases, guest)
    <2>1. p.pc \in CloseSteps \ GateSteps
      BY DEF ReadCurrent, BaselineExists, SwitchBack, VerifyBack, MarkRestored, At,
             CloseSteps, GateSteps
    <2>2. p \in CloseProcs /\ Sure(p, c, head, clean, leases, guest) /\ Scenery
      BY <2>1, ClientKnows
    <2> QED
      BY <2>1, <2>2 DEF Sure, CloseProcs
  <1>1. ASSUME ReadCurrent(c) PROVE RInv'
    <2>1. UNCHANGED <<git, world, created, base, budget>>
      BY <1>1 DEF ReadCurrent
    <2>2. Goto(c, "mark") \/ Goto(c, "gates") \/ Done(c)
      BY <1>1 DEF ReadCurrent
    <2>3. ASSUME Goto(c, "gates") PROVE RInv'
      <3> DEFINE w == [p EXCEPT !.pc = "gates"]
      <3>1. w \in CloseProcs /\ w.pc = "gates" /\ w.gate = 1
        BY <1>0, SetPc DEF CloseSteps, GateSteps
      <3>2. w \in Procs /\ Sure(w, c, head, clean, leases, guest)
        BY <3>1, ProcsAre DEF Sure, Passed, CloseSteps, GateSteps
      <3>3. Enter(c, w)
        BY <2>3 DEF Goto
      <3> HIDE DEF w
      <3> QED
        BY <2>1, <3>2, <3>3, ClientReads
    <2> QED
      BY <1>0, <2>1, <2>2, <2>3, DoneReads, GotoReads DEF Free, CloseSteps, GateSteps
  <1>2. ASSUME BaselineExists(c) PROVE RInv'
    <2>1. UNCHANGED <<git, world, created, base, budget>>
      BY <1>2 DEF BaselineExists
    <2>2. ASSUME Goto(c, "back") PROVE RInv'
      <3> DEFINE w == [p EXCEPT !.pc = "back"]
      <3>1. /\ w \in CloseProcs /\ w.pc = "back" /\ w.gate = 1
            /\ w.issue = p.issue /\ w.late = p.late
        BY <1>0, SetPc DEF CloseSteps
      <3>2. p.pc = "exists"
        BY <1>2 DEF BaselineExists, At
      <3>3. Aim(w) = Aim(p)
        BY <3>1, <3>2 DEF Aim
      <3>4. Passed(w, c, 5, head, clean, leases, guest)
        BY <1>0, <3>1, <3>2, <3>3 DEF Sure, Passed
      <3>5. w \in Procs /\ Sure(w, c, head, clean, leases, guest)
        BY <3>1, <3>4, ProcsAre DEF Sure
      <3>6. Enter(c, w)
        BY <2>2 DEF Goto
      <3> HIDE DEF w
      <3> QED
        BY <2>1, <3>5, <3>6, ClientReads
    <2> QED
      BY <1>2, <2>1, <2>2, DoneReads DEF BaselineExists
  <1>3. ASSUME SwitchBack(c) PROVE RInv'
    <2> DEFINE w == [p EXCEPT !.pc = "verify", !.late = {}]
    <2>1. w \in CloseProcs /\ w.pc = "verify" /\ w.gate = 1
      BY <1>0 DEF CloseProcs, CloseSteps
    <2>2. Move(c, Main, w) \/ (Done(c) /\ UNCHANGED head)
      BY <1>3 DEF SwitchBack
    <2>3. UNCHANGED <<tip, clean, world, created, base, budget>>
      BY <1>3 DEF SwitchBack
    <2>4. Main \in Branches
      BY DEF Branches
    <2> HIDE DEF w
    <2>5. w \in Procs /\ Sure(w, c, Main, clean, leases, guest)
      BY <2>1, FreeSure DEF Free, CloseSteps, GateSteps
    <2>6. CASE Move(c, Main, w)
      BY <2>3, <2>4, <2>5, <2>6, CheckoutMoves
    <2>7. CASE Done(c) /\ UNCHANGED head
      BY <2>3, <2>7, DoneReads DEF git
    <2> QED
      BY <2>2, <2>6, <2>7
  <1>4. ASSUME VerifyBack(c) PROVE RInv'
    BY <1>0, <1>4, DoneReads, GotoReads DEF VerifyBack, Free, CloseSteps, GateSteps
  <1>5. ASSUME MarkRestored(c) PROVE RInv'
    <2> DEFINE row == [base[p.issue] EXCEPT !.restored = TRUE, !.update = "pending"]
               w   == [p EXCEPT !.pc = "upstream"]
    <2>1. base' = [base EXCEPT ![p.issue] = row]
      BY <1>5 DEF MarkRestored
    <2>2. base[p.issue] \in Rows \cup {NoBase} /\ base \in [Issues -> Rows \cup {NoBase}]
      BY <1>0 DEF Scenery
    <2>3. row \in Rows \cup {NoBase}
      <3>1. CASE base[p.issue] \in Rows
        BY <3>1 DEF Rows
      <3>2. CASE base[p.issue] = NoBase
        BY <3>2 DEF NoBase
      <3> QED
        BY <2>2, <3>1, <3>2
    <2> HIDE DEF row
    <2>4. base' \in [Issues -> Rows \cup {NoBase}]
      BY <2>1, <2>2, <2>3
    <2>5. Scenery'
      BY <1>0, <1>5, <2>4 DEF MarkRestored, Scenery, git, world, budget
    <2>6. w \in CloseProcs /\ w.pc = "upstream" /\ w.gate = 1
      BY <1>0, SetPc DEF CloseSteps
    <2>7. /\ Enter(c, w) /\ head' = head /\ clean' = clean /\ guest' = guest
          /\ leases' = leases
      BY <1>5 DEF MarkRestored, Goto, git, world
    <2> HIDE DEF w
    <2>8. w \in Procs /\ Sure(w, c, head, clean, leases, guest)
      BY <2>6, FreeSure DEF Free, CloseSteps, GateSteps
    <2> QED
      BY <2>5, <2>7, <2>8, ClientMoves
  <1> QED
    BY <1>1, <1>2, <1>3, <1>4, <1>5

\* retry_upstream.
LEMMA UpstreamSafe ==
    ASSUME RInv, NEW c \in Clients,
           \/ ResolveUpstream(c) \/ FetchUpstream(c) \/ IsAncestor(c) \/ FastForward(c)
           \/ Landed(c) \/ SetUpdateState(c) \/ UpstreamFails(c)
    PROVE  RInv'
  <1> DEFINE p == proc[c]
  <1>0. /\ Scenery /\ p \in CloseProcs /\ p.gate = 1 /\ p.issue \in Issues
    <2>1. p.pc \in CloseSteps \ GateSteps
      BY DEF ResolveUpstream, FetchUpstream, IsAncestor, FastForward, Landed,
             SetUpdateState, UpstreamFails, At, CloseSteps, GateSteps
    <2>2. p \in CloseProcs /\ Sure(p, c, head, clean, leases, guest) /\ Scenery
      BY <2>1, ClientKnows
    <2> QED
      BY <2>1, <2>2 DEF Sure, CloseProcs
  <1>1. ASSUME NEW x \in {"before", "after"}, NEW w \in CloseProcs, w.pc = x, w.gate = 1,
               Enter(c, w), UNCHANGED <<git, world, created, base, budget>>
        PROVE  RInv'
    <2>1. w \in Procs /\ Sure(w, c, head, clean, leases, guest)
      BY <1>1, ProcsAre DEF Sure, Passed, CloseSteps, GateSteps
    <2> QED
      BY <1>1, <2>1, ClientReads
  <1>2. UNCHANGED <<git, world, created, base, budget>> => Scenery'
    BY <1>0 DEF Scenery, git, world, budget
  <1>3. ASSUME ResolveUpstream(c) PROVE RInv'
    <2> DEFINE w == [p EXCEPT !.pc = "before"]
    <2>1. w \in CloseProcs /\ w.pc = "before" /\ w.gate = 1
      BY <1>0, SetPc DEF CloseSteps, GateSteps
    <2>2. Enter(c, w) \/ Finish(c, "skipped")
      BY <1>3 DEF ResolveUpstream, Goto
    <2>3. UNCHANGED <<git, world, created, base, budget>>
      BY <1>3 DEF ResolveUpstream
    <2> HIDE DEF w
    <2> QED
      BY <1>0, <1>1, <1>2, <2>1, <2>2, <2>3, FinishReads
  <1>4. ASSUME FetchUpstream(c) PROVE RInv'
    <2> DEFINE w == [p EXCEPT !.pc = "ancestor", !.commit = upstream]
    <2>1. w \in CloseProcs /\ w.pc = "ancestor" /\ w.gate = 1
      BY <1>0 DEF CloseProcs, CloseSteps, Scenery
    <2>2. Enter(c, w)
      BY <1>4 DEF FetchUpstream
    <2> HIDE DEF w
    <2> QED
      BY <1>4, <2>1, <2>2, FreeReads DEF FetchUpstream, Free, CloseSteps, GateSteps
  <1>5. ASSUME IsAncestor(c) PROVE RInv'
    <2> DEFINE w == [p EXCEPT !.pc = "after", !.late = {}]
    <2>1. w \in CloseProcs /\ w.pc = "after" /\ w.gate = 1
      BY <1>0 DEF CloseProcs, CloseSteps, GateSteps
    <2>2. Enter(c, w) \/ Finish(c, "failed")
      BY <1>5 DEF IsAncestor
    <2>3. UNCHANGED <<git, world, created, base, budget>>
      BY <1>5 DEF IsAncestor
    <2> HIDE DEF w
    <2> QED
      BY <1>0, <1>1, <1>2, <2>1, <2>2, <2>3, FinishReads
  <1>6. ASSUME FastForward(c) PROVE RInv'
    <2> DEFINE w == [p EXCEPT !.pc = "landed", !.late = {}]
    <2>1. w \in CloseProcs /\ w.pc = "landed" /\ w.gate = 1
      BY <1>0 DEF CloseProcs, CloseSteps
    <2>2. \/ Enter(c, w)
          \/ Finish(c, "failed") /\ UNCHANGED tip
      BY <1>6 DEF FastForward
    <2>3. tip' \in [Branches -> Histories]
      BY <1>0, <1>6 DEF FastForward, Scenery, CloseProcs
    <2>4. Scenery'
      BY <1>0, <1>6, <2>3 DEF FastForward, Scenery, world, budget
    <2>5. /\ head' = head /\ clean' = clean /\ guest' = guest /\ leases' = leases
          /\ UNCHANGED <<world, created, base>>
      BY <1>6 DEF FastForward, world
    <2> HIDE DEF w
    <2>6. w \in Procs /\ Sure(w, c, head, clean, leases, guest)
      BY <2>1, FreeSure DEF Free, CloseSteps, GateSteps
    <2>7. CASE Enter(c, w)
      BY <2>4, <2>5, <2>6, <2>7, ClientMoves
    <2>8. CASE Finish(c, "failed") /\ UNCHANGED tip
      BY <1>0, <2>4, <2>5, <2>8, FinishReads DEF git
    <2> QED
      BY <2>2, <2>7, <2>8
  <1>7. ASSUME Landed(c) PROVE RInv'
    <2>1. Finish(c, "updated") \/ Finish(c, "failed")
      BY <1>7 DEF Landed
    <2> QED
      BY <1>0, <1>2, <1>7, <2>1, FinishReads DEF Landed
  <1>8. ASSUME SetUpdateState(c) PROVE RInv'
    <2> DEFINE row == [base[p.issue] EXCEPT !.update = p.verdict]
    <2>1. base' = [base EXCEPT ![p.issue] = row]
      BY <1>8 DEF SetUpdateState
    <2>2. /\ base[p.issue] \in Rows \cup {NoBase}
          /\ base \in [Issues -> Rows \cup {NoBase}]
          /\ p.verdict \in {"none", "updated", "skipped", "failed"}
      BY <1>0 DEF Scenery, CloseProcs
    <2>3. row \in Rows \cup {NoBase}
      <3>1. CASE base[p.issue] \in Rows
        BY <2>2, <3>1 DEF Rows
      <3>2. CASE base[p.issue] = NoBase
        BY <3>2 DEF NoBase
      <3> QED
        BY <2>2, <3>1, <3>2
    <2> HIDE DEF row
    <2>4. base' \in [Issues -> Rows \cup {NoBase}]
      BY <2>1, <2>2, <2>3
    <2>5. Scenery'
      BY <1>0, <1>8, <2>4 DEF SetUpdateState, Scenery, git, world, budget
    <2> QED
      BY <1>8, <2>5, IdleSure, ClientMoves DEF SetUpdateState, Done, git, world
  <1>9. ASSUME UpstreamFails(c) PROVE RInv'
    <2>1. moves' \in 0..MaxMoves /\ faults' \in 0..MaxFaults
      BY <1>0, <1>9, RestoreAssumption DEF UpstreamFails, Fault, Scenery
    <2>2. Scenery'
      BY <1>0, <1>9, <2>1 DEF UpstreamFails, Scenery, git, world
    <2> QED
      BY <1>0, <1>9, <2>2, FinishReads DEF UpstreamFails
  <1> QED
    BY <1>3, <1>4, <1>5, <1>6, <1>7, <1>8, <1>9

LEMMA KillSafe == ASSUME RInv, NEW c \in Clients, Kill(c) PROVE RInv'
  <1>1. moves' \in 0..MaxMoves /\ faults' \in 0..MaxFaults
    BY RestoreAssumption DEF Kill, Fault, RInv, TypeOK
  <1>2. Scenery'
    BY <1>1 DEF Kill, RInv, TypeOK, Scenery, git, world
  <1> QED
    BY <1>2, IdleSure, ClientMoves DEF Kill, Done, git, world

(***************************************************************************)
(* The rest of the world.                                                  *)
(***************************************************************************)

LEMMA WorldSafe == ASSUME RInv, World PROVE RInv'
  <1>0. Scenery
    BY DEF RInv, TypeOK, Scenery
  <1>1. Act => moves' \in 0..MaxMoves /\ faults' \in 0..MaxFaults
    BY <1>0, RestoreAssumption DEF Act, Scenery
  <1>2. ASSUME NEW b \in Branches, UserSwitch(b) PROVE RInv'
    <2>1. Scenery'
      BY <1>0, <1>1, <1>2 DEF UserSwitch, Scenery, world
    <2> QED
      BY <1>2, <2>1, WorldUndoes DEF UserSwitch, world, Facts
  <1>3. ASSUME NEW b \in Branches, UserDeletes(b) PROVE RInv'
    <2>1. tip' \in [Branches -> Histories]
      BY <1>0, <1>3 DEF UserDeletes, Scenery, Histories
    <2>2. Scenery'
      BY <1>0, <1>1, <1>3, <2>1 DEF UserDeletes, Scenery, world
    <2> QED
      BY <1>3, <2>2, WorldHelps DEF UserDeletes, world
  <1>4. ASSUME NEW x \in Commits, UserCommit(x) PROVE RInv'
    <2>1. tip' \in [Branches -> Histories]
      BY <1>0, <1>4 DEF UserCommit, Scenery, Histories
    <2>2. Scenery'
      BY <1>0, <1>1, <1>4, <2>1 DEF UserCommit, Scenery, world
    <2> QED
      BY <1>4, <2>2, WorldHelps DEF UserCommit, world
  <1>5. ASSUME NEW x \in Commits, RemoteCommit(x) PROVE RInv'
    <2>1. Scenery'
      BY <1>0, <1>1, <1>5 DEF RemoteCommit, Scenery, git, Histories
    <2> QED
      BY <1>5, <2>1, WorldHelps DEF RemoteCommit, git
  <1>6. ASSUME NEW i \in Issues, LeaseChanges(i) PROVE RInv'
    <2>1. Scenery'
      BY <1>0, <1>1, <1>6 DEF LeaseChanges, Scenery, git
    <2>2. CASE i \in leases
      BY <1>6, <2>1, <2>2, WorldHelps DEF LeaseChanges, git
    <2>3. CASE i \notin leases
      BY <1>6, <2>1, <2>3, WorldUndoes DEF LeaseChanges, git, Facts
    <2> QED
      BY <2>2, <2>3
  <1>7. ASSUME UserEdit PROVE RInv'
    <2>1. Scenery'
      BY <1>0, <1>1, <1>7 DEF UserEdit, Scenery, world
    <2>2. CASE clean
      BY <1>7, <2>1, <2>2, WorldUndoes DEF UserEdit, world, Facts
    <2>3. CASE ~clean
      BY <1>7, <2>1, <2>3, WorldHelps DEF UserEdit, world
    <2> QED
      BY <2>2, <2>3
  <1>8. ASSUME GuestChanges PROVE RInv'
    <2>1. Scenery'
      BY <1>0, <1>1, <1>8 DEF GuestChanges, Scenery, git
    <2>2. CASE guest
      BY <1>8, <2>1, <2>2, WorldHelps DEF GuestChanges, git
    <2>3. CASE ~guest
      BY <1>8, <2>1, <2>3, WorldUndoes DEF GuestChanges, git, Facts
    <2> QED
      BY <2>2, <2>3
  <1> QED
    BY <1>2, <1>3, <1>4, <1>5, <1>6, <1>7, <1>8 DEF World

(***************************************************************************)
(* The theorems.                                                           *)
(***************************************************************************)

LEMMA InitSafe == Init => RInv
  <1> SUFFICES ASSUME Init PROVE RInv
    OBVIOUS
  <1>1. tip \in [Branches -> Histories] /\ head \in Branches /\ upstream \in Histories
    BY RestoreAssumption DEF Init, Branches, Histories
  <1>2. moves \in 0..MaxMoves /\ faults \in 0..MaxFaults
    BY RestoreAssumption DEF Init
  <1>3. proc \in [Clients -> Procs]
    BY DEF Init, Procs
  <1>4. ASSUME NEW c \in Clients PROVE Sure(proc[c], c, head, clean, leases, guest)
    BY IdleSure DEF Init
  <1>5. base \in [Issues -> Rows \cup {NoBase}]
    BY DEF Init
  <1> QED
    BY <1>1, <1>2, <1>3, <1>4, <1>5 DEF Init, RInv, TypeOK

LEMMA StepSafe == RInv /\ [Next]_vars => RInv'
  <1> SUFFICES ASSUME RInv, [Next]_vars PROVE RInv'
    OBVIOUS
  <1>1. CASE UNCHANGED vars
    BY <1>1 DEF vars, RInv, TypeOK
  <1>2. ASSUME NEW c \in Clients, Close(c) PROVE RInv'
    BY <1>2, RecoverSafe, MainGateSafe, SwitchSafe, UpstreamSafe DEF Close
  <1>3. ASSUME NEW c \in Clients, Create(c) \/ Kill(c) \/ UpstreamFails(c) PROVE RInv'
    BY <1>3, CreateSafe, KillSafe, UpstreamSafe
  <1>4. ASSUME NEW c \in Clients, NEW i \in Issues, CreateStart(c, i) \/ CloseStart(c, i)
        PROVE  RInv'
    BY <1>4, CreateStartSafe, CloseStartSafe
  <1> QED
    BY <1>1, <1>2, <1>3, <1>4, WorldSafe DEF Next

\* Every behaviour keeps what the processes rely on true or told.
THEOREM GatesKept == Spec => []RInv
  BY InitSafe, StepSafe, PTL DEF Spec

\* The checkout, the baselines and the processes stay well typed.
THEOREM TypeCorrect == Spec => []TypeOK
  <1>1. RInv => TypeOK
    BY DEF RInv
  <1> QED
    BY GatesKept, <1>1, PTL

\* Before create or close moves the checkout, every gate holds or was closed
\* by somebody after the process read it last.
THEOREM EveryMoveProven == Spec => []MovesAreProven
  <1>1. RInv => MovesAreProven
    <2> SUFFICES ASSUME RInv, NEW c \in Clients
                 PROVE  /\ At(c, "switch") =>
                              /\ Relies(c, "clean", clean)
                              /\ Relies(c, "branch", head = Main)
                              /\ Relies(c, "lease", leases \subseteq {proc[c].issue})
                        /\ proc[c].pc \in {"back", "forward"} =>
                              /\ c \in Known
                              /\ Relies(c, "clean", clean)
                              /\ Relies(c, "branch",
                                        head = IF At(c, "back") THEN Own(c) ELSE Main)
                              /\ Relies(c, "lease", leases = {})
                              /\ Relies(c, "guest", ~guest)
      BY DEF MovesAreProven
    <2>1. Sure(proc[c], c, head, clean, leases, guest)
      BY DEF RInv
    <2>2. proc[c].pc \in {"back", "forward"} =>
             Aim(proc[c]) = IF At(c, "back") THEN Own(c) ELSE Main
      BY DEF Aim, At, Own
    <2> QED
      BY <2>1, <2>2 DEF Sure, Passed, Relies, At
  <1> QED
    BY GatesKept, <1>1, PTL

\* No commit of a branch is lost to a fast-forward.
THEOREM NoCommitLost == Spec => NothingLost
  <1>1. ASSUME RInv, Next, NEW b \in Branches, tip'[b] # {}
        PROVE  tip[b] \subseteq tip'[b]
    <2>0. tip \in [Branches -> Histories]
      BY <1>1 DEF RInv, TypeOK
    <2>1. CASE tip' = tip
      BY <2>1
    <2>2. ASSUME NEW c \in Clients, EnsureBranch(c) PROVE tip[b] \subseteq tip'[b]
      BY <2>0, <2>2 DEF EnsureBranch
    <2>3. ASSUME NEW c \in Clients, FastForward(c) PROVE tip[b] \subseteq tip'[b]
      BY <2>0, <2>3 DEF FastForward
    <2>4. ASSUME NEW x, UserCommit(x) PROVE tip[b] \subseteq tip'[b]
      BY <2>0, <2>4 DEF UserCommit
    <2>5. ASSUME NEW d, UserDeletes(d) PROVE tip[b] \subseteq tip'[b]
      BY <1>1, <2>0, <2>5 DEF UserDeletes
    <2>6. \/ tip' = tip
          \/ \E c \in Clients : EnsureBranch(c) \/ FastForward(c)
          \/ \E x : UserCommit(x) \/ UserDeletes(x)
      <3>1. ASSUME World PROVE tip' = tip \/ \E x : UserCommit(x) \/ UserDeletes(x)
        BY <3>1 DEF World, UserSwitch, UserEdit, RemoteCommit, LeaseChanges,
              GuestChanges, git
      <3>2. ASSUME NEW c \in Clients, Create(c) PROVE tip' = tip \/ EnsureBranch(c)
        BY <3>2 DEF Create, CreateStops, CreateClean, CreateLease, CaptureBranch,
              CaptureHead, InsertPending, CreateSwitch, ProbeBranch, ProbeHead,
              CreateSettle, git
      <3>3. ASSUME NEW c \in Clients, Close(c) PROVE tip' = tip \/ FastForward(c)
        BY <3>3 DEF Close, ReadBaseline, Recover, RecoverCompare, RecoverActivate,
              RecoverAbort, ReadCurrent, MainGate, BaselineExists, SwitchBack,
              VerifyBack, MarkRestored, ResolveUpstream, FetchUpstream, IsAncestor,
              Landed, SetUpdateState, git
      <3>4. ASSUME NEW c, Kill(c) \/ UpstreamFails(c) PROVE tip' = tip
        BY <3>4 DEF Kill, UpstreamFails, git
      <3>5. ASSUME NEW c, NEW i, CreateStart(c, i) \/ CloseStart(c, i) PROVE tip' = tip
        BY <3>5 DEF CreateStart, CloseStart, git
      <3> QED
        BY <1>1, <3>1, <3>2, <3>3, <3>4, <3>5 DEF Next
    <2> QED
      BY <2>1, <2>2, <2>3, <2>4, <2>5, <2>6
  <1>2. RInv /\ [Next]_vars =>
           [\A b \in Branches : tip'[b] # {} => tip[b] \subseteq tip'[b]]_vars
    BY <1>1 DEF vars
  <1> QED
    BY GatesKept, <1>2, PTL DEF Spec, NothingLost

\* A baseline is settled once, and its captured commit and its restoration
\* stay, whoever probes and recovers it.
THEOREM BaselineSettledOnce == Spec => SettledOnce
  <1> DEFINE Kept(i) == base[i] # NoBase =>
                           /\ base'[i].commit = base[i].commit
                           /\ base[i].state # "pending" => base'[i].state = base[i].state
                           /\ base[i].restored => base'[i].restored
  <1>1. ASSUME RInv, Next, NEW i \in Issues PROVE Kept(i)
    <2>0. base \in [Issues -> Rows \cup {NoBase}]
      BY <1>1 DEF RInv, TypeOK
    <2>1. CASE base' = base
      BY <2>1
    <2>2. ASSUME NEW j, NEW state, Transition(j, state) PROVE Kept(i)
      <3>1. \/ base' = base
            \/ base[j].state = "pending" /\ base' = [base EXCEPT ![j].state = state]
        BY <2>2 DEF Transition
      <3> QED
        BY <2>0, <3>1 DEF Rows
    <2>3. ASSUME NEW c \in Clients, InsertPending(c) PROVE Kept(i)
      <3>1. CASE Row(c) # NoBase
        BY <2>3, <3>1 DEF InsertPending
      <3>2. CASE Row(c) = NoBase
        <4>1. base' = [base EXCEPT ![proc[c].issue] = Captured(proc[c].commit)]
          BY <2>3, <3>2 DEF InsertPending
        <4>2. CASE i = proc[c].issue
          BY <3>2, <4>2 DEF Row
        <4>3. CASE i # proc[c].issue
          BY <2>0, <4>1, <4>3
        <4> QED
          BY <4>2, <4>3
      <3> QED
        BY <3>1, <3>2
    <2>4. ASSUME NEW c \in Clients, MarkRestored(c) PROVE Kept(i)
      BY <2>0, <2>4 DEF MarkRestored, Rows
    <2>5. ASSUME NEW c \in Clients, SetUpdateState(c) PROVE Kept(i)
      BY <2>0, <2>5 DEF SetUpdateState, Rows
    <2> HIDE DEF Kept
    <2>6. \/ base' = base
          \/ \E c \in Clients : \/ InsertPending(c) \/ MarkRestored(c)
                                \/ SetUpdateState(c)
          \/ \E j, state : Transition(j, state)
      <3>1. ASSUME World PROVE base' = base
        BY <3>1 DEF World, UserSwitch, UserDeletes, UserCommit, UserEdit, RemoteCommit,
              LeaseChanges, GuestChanges
      <3>2. ASSUME NEW c \in Clients, Create(c)
            PROVE  \/ base' = base \/ InsertPending(c)
                   \/ \E j, state : Transition(j, state)
        BY <3>2 DEF Create, CreateStops, EnsureBranch, CreateClean, CreateLease,
              CaptureBranch, CaptureHead, CreateSwitch, ProbeBranch, ProbeHead,
              CreateSettle
      <3>3. ASSUME NEW c \in Clients, Close(c)
            PROVE  \/ base' = base \/ MarkRestored(c) \/ SetUpdateState(c)
                   \/ \E j, state : Transition(j, state)
        BY <3>3 DEF Close, ReadBaseline, Recover, RecoverCompare, RecoverActivate,
              RecoverAbort, ReadCurrent, MainGate, BaselineExists, SwitchBack,
              VerifyBack, ResolveUpstream, FetchUpstream, IsAncestor, FastForward,
              Landed
      <3>4. ASSUME NEW c, Kill(c) \/ UpstreamFails(c) PROVE base' = base
        BY <3>4 DEF Kill, UpstreamFails
      <3>5. ASSUME NEW c, NEW j, CreateStart(c, j) \/ CloseStart(c, j) PROVE base' = base
        BY <3>5 DEF CreateStart, CloseStart
      <3> QED
        BY <1>1, <3>1, <3>2, <3>3, <3>4, <3>5 DEF Next
    <2> QED
      BY <2>1, <2>2, <2>3, <2>4, <2>5, <2>6
  <1>2. RInv /\ [Next]_vars => [\A i \in Issues : Kept(i)]_vars
    BY <1>1 DEF vars
  <1> QED
    BY GatesKept, <1>2, PTL DEF Spec, SettledOnce
=============================================================================

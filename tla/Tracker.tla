------------------------------- MODULE Tracker -------------------------------
(* The status commands and `issue close` against one issue of a tracker       *)
(* (cli/status.rs, cli/issue.rs, providers/redmine, forgejo and local):       *)
(* every request of a command is one step, so that other commands, other      *)
(* users of the tracker and lost or unverifiable answers fall between them.   *)
EXTENDS Naturals, Sequences, FiniteSets, SequencesExt

CONSTANTS
    Procs,          \* processes running phasegent
    Commands,       \* the command lines they may be given
    Providers,      \* tracker kinds to start with
    Installed,      \* status names of the Redmine installation
    CloseStatus,    \* the configured close status
    MaxOthers,      \* changes made by other users of the tracker
    MaxRuns,        \* commands started
    None

Canonical == {"New", "In Progress", "In Review", "Changes Requested", "Blocked",
              "Resolved", "Closed", "Cancelled"}
Native == {"Open", "Closed"}

ASSUME TrackerAssumption ==
    /\ Providers \subseteq {"redmine", "forgejo", "local"}
    /\ {CloseStatus, "New", "Closed"} \subseteq Installed
    /\ None \notin Installed \cup {"set", "direct", "step", "final", "ok", "denied",
                                   "forbidden", "children", "noroute"}
    /\ \A c \in Commands : c.op \in {"set", "advance", "auto", "close"}
    /\ MaxOthers \in Nat /\ MaxRuns \in Nat

VARIABLES
    kind,       \* the tracker that holds the issue
    status,     \* its status there
    kids,       \* whether it has an open child (Redmine) or dependency (Forgejo)
    proc,       \* per process: the running command and its last result
    others,     \* changes by other users so far
    runs        \* commands started so far

vars == <<kind, status, kids, proc, others, runs>>

-----------------------------------------------------------------------------
(* The phase policy.                                                          *)

\* The canonical graph; the order is the preference of a bare transition.
STATUS_TRANSITIONS ==
    [s \in Canonical |->
        CASE s = "New" -> <<"In Progress", "Cancelled">>
          [] s = "In Progress" -> <<"In Review", "Blocked", "Cancelled">>
          [] s = "In Review" -> <<"Resolved", "Changes Requested", "Blocked", "Cancelled">>
          [] s = "Changes Requested" -> <<"In Progress", "Blocked", "Cancelled">>
          [] s = "Blocked" -> <<"In Progress", "Cancelled">>
          [] s = "Resolved" -> <<"Closed", "In Progress">>
          [] OTHER -> <<>>]

CanonicalAllowedNext(s) == IF s \in Canonical THEN STATUS_TRANSITIONS[s] ELSE <<>>

EvaluateTransition(current, target) ==
    CASE current = target -> "noop"
      [] current # target /\ {current, target} \subseteq Canonical ->
            IF Contains(STATUS_TRANSITIONS[current], target) THEN "allowed" ELSE "forbidden"
      [] OTHER -> "advisory"

\* The steps from a status to the one before the close.
CloseClimbSteps(current) ==
    CASE current \in {"New", "Changes Requested", "Blocked"} ->
            <<"In Progress", "In Review", "Resolved">>
      [] current = "In Progress" -> <<"In Review", "Resolved">>
      [] current \in {"Resolved", "Closed", "Cancelled"} -> <<>>
      [] OTHER -> <<"Resolved">>

\* The refusals whose message says that nothing was written, and the one of a
\* close that the server's workflow keeps refusing.
RefusedUnwritten == {"denied", "forbidden", "children", "noroute"}
RefusedByWorkflow == "workflow"

\* The kind of a failed PUT: only a refusal by the workflow is worth a climb.
ClassifyRedmineError(outcome) ==
    IF outcome = "refused" THEN "workflow_not_allowed" ELSE "other"

\* Statuses an installation marks closed.
IsClosed(s) == s \in {"Closed", "Cancelled"}

\* What an answer of Redmine shows of the status: its id, only the closed
\* flag, or nothing that can be checked.
Shapes == {"id", "flag", "bare"}

VerifyCloseStatus(shape, observed) ==
    CASE shape = "id" -> IF observed = CloseStatus THEN "confirmed" ELSE "mismatch"
      [] shape = "flag" /\ IsClosed(observed) -> "confirmed"
      [] OTHER -> "indeterminate"

-----------------------------------------------------------------------------
(* The state of one command. Its marks are a history for the properties: it   *)
(* wrote, it trusted an answer that showed no status, its target was reached   *)
(* (hit) or a close was free to be written (clear) at some time while it ran.  *)

Marked(m, condition) == IF condition THEN {m} ELSE {}

Idle == [pc |-> "idle", op |-> None, target |-> None, job |-> None, goal |-> None,
         steps |-> <<>>, read |-> None, marks |-> {}, res |-> None]

\* A command ends: only its result and what the properties ask of it stay.
End(r, res) == [Idle EXCEPT !.op = r.op, !.target = r.target, !.res = res,
                            !.marks = r.marks \ {"clear"}]

\* The command has sent a write.
Wrote(r) == [r EXCEPT !.marks = @ \cup {"wrote"}]

Running(p) == proc[p].pc # "idle"

\* The statuses that make a command's success true; a close status need not be
\* one that the installation marks closed.
Reached(op, target, s) == s = target \/ (op = "close" /\ IsClosed(s))

\* A parent that a close may be written over although it has an open child.
ParentClosed(s) == IsClosed(s) \/ s = CloseStatus

\* The issue moves: every running command lives through it.
Moved(ps, s) ==
    [q \in Procs |->
        IF ps[q].pc = "idle" THEN ps[q]
        ELSE [ps[q] EXCEPT !.marks = @ \cup Marked("hit", Reached(ps[q].op, ps[q].target, s))
                                       \cup Marked("clear", ParentClosed(s))]]

Init ==
    /\ kind \in Providers
    /\ status = IF kind = "forgejo" THEN "Open" ELSE "New"
    /\ kids \in BOOLEAN
    /\ (kind = "local") => ~kids
    /\ proc = [p \in Procs |-> Idle]
    /\ others = 0 /\ runs = 0

\* Where a command starts once its role is accepted. A bare transition first
\* asks which status comes next; Redmine and the local tracker share the
\* policy-checked move, Forgejo knows only its native move.
EntryAdvance(op) ==
    CASE op = "auto" -> "next"
      [] op # "auto" /\ kind = "forgejo" -> "native_first"
      [] OTHER -> "advance"

EntrySet ==
    CASE kind = "redmine" -> "select"
      [] kind = "local" -> "local_write"
      [] OTHER -> "native_first"

EntryClose ==
    CASE kind = "redmine" -> "kids"
      [] kind = "local" -> "local_close"
      [] OTHER -> "native_first"

\* A target the tracker knows: Forgejo has its two native states, and a status
\* name has to be installed.
Selectable(t) == IF kind = "forgejo" THEN t \in Native ELSE t \in Installed

\* The gates before any request: a managed caller without a role and the roles
\* that do not own the lifecycle are refused. The route and the scope of the
\* issue may still refuse (they are the Tasks module's).
Begin(p, c) ==
    /\ ~Running(p) /\ runs < MaxRuns
    /\ runs' = runs + 1
    /\ LET target == IF c.op = "close" THEN IF kind = "redmine" THEN CloseStatus ELSE "Closed"
                     ELSE c.target
           start == [Idle EXCEPT !.op = c.op, !.target = target, !.goal = target,
                                 !.job = IF c.op = "close" THEN "direct" ELSE "set",
                                 !.marks = Marked("hit", Reached(c.op, target, status))
                                     \cup Marked("clear", ~kids \/ ParentClosed(status)),
                                 !.pc = CASE c.op = "close" -> EntryClose
                                          [] c.op = "set" -> EntrySet
                                          [] OTHER -> EntryAdvance(c.op)]
       IN proc' = [proc EXCEPT ![p] =
              CASE c.caller # "orchestrator" -> End(start, "denied")
                [] c.caller = "orchestrator" /\ kind = "forgejo"
                     /\ c.op \in {"set", "advance"} /\ ~Selectable(target) ->
                        End(start, "error")
                [] OTHER -> start]
    /\ UNCHANGED <<kind, status, kids, others>>

\* A read that fails ends the command with an error (a climb reports its
\* direct error, see ClimbRead and AdvanceRead).
ReadFails(p) ==
    /\ proc[p].pc \in {"next", "select", "verify", "native_first", "native_fresh", "native_deps",
                       "local_close", "local_write"}
    /\ proc' = [proc EXCEPT ![p] = End(@, "error")]
    /\ UNCHANGED <<kind, status, kids, others, runs>>

-----------------------------------------------------------------------------
(* Redmine.                                                                   *)

\* A bare transition takes the first policy status the installation has.
TakeFirst(r, next, pc) ==
    IF next = <<>> THEN End(r, "noroute")
    ELSE [r EXCEPT !.target = Head(next), !.goal = Head(next), !.pc = pc,
                   !.marks = (@ \ {"hit"}) \cup Marked("hit", status = Head(next))]

StatusNext(p) ==
    /\ proc[p].pc = "next" /\ kind = "redmine"
    /\ proc' = [proc EXCEPT ![p] =
          TakeFirst(@, SelectSeq(CanonicalAllowedNext(status), Selectable), "advance")]
    /\ UNCHANGED <<kind, status, kids, others, runs>>

\* `status set` resolves its target in the installation's catalogue.
SelectTarget(p) ==
    /\ proc[p].pc = "select"
    /\ proc' = [proc EXCEPT ![p] =
          IF ~Selectable(@.target) THEN End(@, "error")
          ELSE [@ EXCEPT !.pc = IF proc[p].goal = CloseStatus THEN "kids" ELSE "put"]]
    /\ UNCHANGED <<kind, status, kids, others, runs>>

\* A write is done: a command that is not a climb ends, a climb goes on with its
\* next step and, behind the last one, with the close.
Onward(r, res) ==
    CASE r.job = "step" /\ res = "ok" ->
            IF Len(r.steps) = 1
            THEN [r EXCEPT !.job = "final", !.goal = CloseStatus, !.steps = <<>>, !.pc = "put",
                           !.marks = @ \ {"trusted"}]
            ELSE [r EXCEPT !.steps = Tail(@), !.goal = r.steps[2], !.pc = "advance",
                           !.marks = @ \ {"trusted"}]
      [] r.job \in {"step", "final"} /\ res # "ok" -> End(r, RefusedByWorkflow)
      [] OTHER -> End(r, res)

\* The policy's answer to a move, before anything is written.
Advised(r, next) ==
    LET verdict == EvaluateTransition(status, r.goal)
    IN CASE ~Selectable(r.goal) -> Onward(r, "error")
         [] Selectable(r.goal) /\ verdict = "noop" -> Onward(r, "ok")
         [] Selectable(r.goal) /\ verdict = "forbidden" -> Onward(r, "forbidden")
         [] OTHER -> [r EXCEPT !.read = status, !.pc = next]

\* One policy-checked move: the target is resolved, the status is read and the
\* policy asked. Also each step of a climb.
AdvanceRead(p) ==
    /\ proc[p].pc = "advance" /\ kind = "redmine"
    /\ proc' = [proc EXCEPT ![p] = Advised(@, IF @.goal = CloseStatus THEN "kids" ELSE "put")]
    /\ UNCHANGED <<kind, status, kids, others, runs>>

AdvanceReadFails(p) ==
    /\ proc[p].pc = "advance"
    /\ proc' = [proc EXCEPT ![p] = Onward(@, "error")]
    /\ UNCHANGED <<kind, status, kids, others, runs>>

\* No open child holds the close up.
Unhindered(r, answered) ==
    [r EXCEPT !.pc = "put", !.marks = @ \cup Marked("clear", ~answered)]

\* The open children are listed before a close status is written; a listing
\* that fails does not hold the close up.
ListOpenChildren(p, answered) ==
    /\ proc[p].pc = "kids"
    /\ proc' = [proc EXCEPT ![p] = IF answered /\ kids THEN [@ EXCEPT !.pc = "parent"]
                                   ELSE Unhindered(@, answered)]
    /\ UNCHANGED <<kind, status, kids, others, runs>>

\* With an open child, only a parent that is already closed is written.
ReadParent(p, answered) ==
    /\ proc[p].pc = "parent"
    /\ proc' = [proc EXCEPT ![p] =
          IF answered /\ ParentClosed(status)
          THEN [@ EXCEPT !.pc = "put"] ELSE Onward(@, "children")]
    /\ UNCHANGED <<kind, status, kids, others, runs>>

\* The verdict on an answer that shows the status `observed`. A status update
\* needs the very id, a close a closed status; an answer without a usable sign
\* is trusted.
Judge(r, shape, observed) ==
    LET verdict == IF r.job \in {"direct", "final"} THEN VerifyCloseStatus(shape, observed)
                   ELSE CASE shape = "id" /\ observed = r.goal -> "confirmed"
                          [] shape = "id" /\ observed # r.goal -> "mismatch"
                          [] OTHER -> "indeterminate"
    IN CASE verdict = "mismatch" /\ r.job = "direct" -> [r EXCEPT !.pc = "climb"]
         [] verdict = "mismatch" /\ r.job # "direct" -> Onward(r, "error")
         [] OTHER -> Onward([r EXCEPT !.marks = (@ \ {"trusted"})
                             \cup Marked("trusted", verdict = "indeterminate")], "ok")

\* Mutant of PutAnswer: an empty answer is taken for a success.
PutAnswerUnread(r, outcome, shape, s) ==
    IF shape = "empty" /\ outcome \in {"applied", "ignored"} THEN Onward(r, "ok")
    ELSE IF outcome \in {"applied", "ignored"} THEN Judge(r, shape, s)
    ELSE Onward(r, "error")

\* What the command makes of the answer to its PUT. Mutations are never sent
\* again; a direct close refused by the workflow is climbed.
PutAnswer(r, outcome, shape, s) ==
    CASE outcome \in {"applied", "ignored"} /\ shape = "empty" -> [r EXCEPT !.pc = "verify"]
      [] outcome \in {"applied", "ignored"} /\ shape # "empty" -> Judge(r, shape, s)
      [] ClassifyRedmineError(outcome) = "workflow_not_allowed" /\ r.job = "direct" ->
            [r EXCEPT !.pc = "climb"]
      [] OTHER -> Onward(r, "error")

\* The PUT: applied, refused by the workflow, ignored behind a 200, failed, or
\* applied with the answer lost.
Put(p, outcome, shape) ==
    /\ proc[p].pc = "put"
    /\ LET applied == outcome \in {"applied", "lost"}
           s == IF applied THEN proc[p].goal ELSE status
       IN /\ status' = s
          /\ LET ps == Moved(proc, s)
             IN proc' = [ps EXCEPT ![p] = PutAnswer(Wrote(@), outcome, shape, s)]
    /\ UNCHANGED <<kind, kids, others, runs>>

\* The read after an empty answer.
Verify(p, shape) ==
    /\ proc[p].pc = "verify"
    /\ proc' = [proc EXCEPT ![p] = Judge(@, shape, status)]
    /\ UNCHANGED <<kind, status, kids, others, runs>>

\* The climb behind a refused direct close: its reads may fail, the issue may
\* be closed by now, and a terminal or resolved issue has no way to climb.
ClimbRead(p, answered, shape) ==
    /\ proc[p].pc = "climb"
    /\ LET r == [proc[p] EXCEPT !.read = status]
           steps == CloseClimbSteps(status)
       IN proc' = [proc EXCEPT ![p] =
              CASE ~answered -> End(r, RefusedByWorkflow)
                [] answered /\ VerifyCloseStatus(shape, status) = "confirmed" ->
                      [r EXCEPT !.pc = "closed"]
                [] answered /\ VerifyCloseStatus(shape, status) # "confirmed" /\ steps = <<>> ->
                      End(r, RefusedByWorkflow)
                [] OTHER -> [r EXCEPT !.job = "step", !.steps = steps, !.goal = Head(steps),
                                      !.pc = "advance"]]
    /\ UNCHANGED <<kind, status, kids, others, runs>>

\* The summary of the closed issue is read once more.
ClimbClosed(p, answered) ==
    /\ proc[p].pc = "closed"
    /\ proc' = [proc EXCEPT ![p] = End(@, IF answered THEN "ok" ELSE RefusedByWorkflow)]
    /\ UNCHANGED <<kind, status, kids, others, runs>>

-----------------------------------------------------------------------------
(* Forgejo: the native open and closed states.                                *)

NativeNext(p) ==
    /\ proc[p].pc = "next" /\ kind = "forgejo"
    /\ proc' = [proc EXCEPT ![p] =
          TakeFirst(@, <<IF status = "Closed" THEN "Open" ELSE "Closed">>, "native_first")]
    /\ UNCHANGED <<kind, status, kids, others, runs>>

NativeFirst(p) ==
    /\ proc[p].pc = "native_first"
    /\ proc' = [proc EXCEPT ![p] =
          CASE status = @.target -> End(@, "ok")
            [] status # @.target /\ @.target = "Closed" ->
                  [@ EXCEPT !.read = status, !.pc = "native_deps"]
            [] OTHER -> [@ EXCEPT !.read = status, !.pc = "native_fresh"]]
    /\ UNCHANGED <<kind, status, kids, others, runs>>

\* A close needs every dependency closed.
NativeDependencies(p) ==
    /\ proc[p].pc = "native_deps"
    /\ proc' = [proc EXCEPT ![p] = IF kids THEN End(@, "children")
                                   ELSE [@ EXCEPT !.pc = "native_fresh"]]
    /\ UNCHANGED <<kind, status, kids, others, runs>>

\* The issue is read again and must not have moved.
NativeFresh(p) ==
    /\ proc[p].pc = "native_fresh"
    /\ proc' = [proc EXCEPT ![p] = IF status # @.read THEN End(@, "error")
                                   ELSE [@ EXCEPT !.pc = "native_patch"]]
    /\ UNCHANGED <<kind, status, kids, others, runs>>

\* The PATCH; its answer must show the target.
NativePatch(p, outcome) ==
    /\ proc[p].pc = "native_patch"
    /\ LET s == IF outcome \in {"applied", "lost"} THEN proc[p].target ELSE status
       IN /\ status' = s
          /\ LET ps == Moved(proc, s)
             IN proc' = [ps EXCEPT ![p] = End(Wrote(@),
                    IF outcome \in {"applied", "ignored"} /\ s = @.target THEN "ok" ELSE "error")]
    /\ UNCHANGED <<kind, kids, others, runs>>

-----------------------------------------------------------------------------
(* The local tracker: a read and an UPDATE of the row.                        *)

LocalNext(p) ==
    /\ proc[p].pc = "next" /\ kind = "local"
    /\ proc' = [proc EXCEPT ![p] =
          TakeFirst(@, SelectSeq(CanonicalAllowedNext(status), Selectable), "advance")]
    /\ UNCHANGED <<kind, status, kids, others, runs>>

LocalAdvance(p) ==
    /\ proc[p].pc = "advance" /\ kind = "local"
    /\ proc' = [proc EXCEPT ![p] = Advised(@, "local_write")]
    /\ UNCHANGED <<kind, status, kids, others, runs>>

LocalClose(p) ==
    /\ proc[p].pc = "local_close"
    /\ proc' = [proc EXCEPT ![p] =
          CASE status = "Closed" -> End(@, "ok")
            [] EvaluateTransition(status, "Closed") = "allowed" ->
                  [@ EXCEPT !.read = status, !.pc = "local_write"]
            [] OTHER -> End(@, "forbidden")]
    /\ UNCHANGED <<kind, status, kids, others, runs>>

LocalWrite(p) ==
    /\ proc[p].pc = "local_write"
    /\ IF ~Selectable(proc[p].goal)
       THEN /\ proc' = [proc EXCEPT ![p] = End(@, "error")]
            /\ UNCHANGED status
       ELSE /\ status' = proc[p].goal
            /\ LET ps == Moved(proc, proc[p].goal)
               IN proc' = [ps EXCEPT ![p] = End(Wrote(@), "ok")]
    /\ UNCHANGED <<kind, kids, others, runs>>

-----------------------------------------------------------------------------
(* Other users of the tracker.                                                *)

OthersMove(s) ==
    /\ others < MaxOthers /\ s # status
    /\ s \in IF kind = "forgejo" THEN Native ELSE Installed
    /\ others' = others + 1
    /\ status' = s
    /\ proc' = Moved(proc, s)
    /\ UNCHANGED <<kind, kids, runs>>

OthersChild ==
    /\ others < MaxOthers /\ kind # "local"
    /\ others' = others + 1
    /\ kids' = ~kids
    /\ proc' = [q \in Procs |-> IF proc[q].pc = "idle" THEN proc[q]
                                ELSE [proc[q] EXCEPT !.marks = @ \cup Marked("clear", ~kids')]]
    /\ UNCHANGED <<kind, status, runs>>

Step(p) ==
    \/ ReadFails(p)
    \/ StatusNext(p) \/ SelectTarget(p)
    \/ AdvanceRead(p) \/ AdvanceReadFails(p)
    \/ \E a \in BOOLEAN : ListOpenChildren(p, a) \/ ReadParent(p, a) \/ ClimbClosed(p, a)
    \/ \E o \in {"applied", "ignored"}, h \in Shapes \cup {"empty"} : Put(p, o, h)
    \/ \E o \in {"refused", "failed", "lost"} : Put(p, o, "empty")
    \/ \E h \in Shapes : Verify(p, h)
    \/ \E a \in BOOLEAN, h \in Shapes : ClimbRead(p, a, h)
    \/ NativeNext(p) \/ NativeFirst(p) \/ NativeDependencies(p) \/ NativeFresh(p)
    \/ \E o \in {"applied", "ignored", "failed", "lost"} : NativePatch(p, o)
    \/ LocalNext(p) \/ LocalAdvance(p) \/ LocalClose(p) \/ LocalWrite(p)

Next ==
    \/ \E p \in Procs : Step(p) \/ \E c \in Commands : Begin(p, c)
    \/ \E s \in Installed \cup Native : OthersMove(s)
    \/ OthersChild

Spec == Init /\ [][Next]_vars /\ \A p \in Procs : WF_vars(Step(p))

-----------------------------------------------------------------------------

TypeOK ==
    /\ kind \in Providers
    /\ status \in IF kind = "forgejo" THEN Native ELSE Installed
    /\ kids \in BOOLEAN
    /\ others \in 0..MaxOthers /\ runs \in 0..MaxRuns
    /\ \A p \in Procs :
          /\ proc[p].res \in {None, "ok", "error", RefusedByWorkflow} \cup RefusedUnwritten
          /\ Running(p) => proc[p].res = None
          /\ proc[p].steps # <<>> <=> proc[p].job = "step"

(* A command that reports success has seen its target reached: the issue held *)
(* the status (for a close, a closed one) at some time while it ran, unless   *)
(* the tracker's answer carried no status to check and is trusted.            *)
SuccessIsReal ==
    \A p \in Procs : proc[p].res = "ok" => proc[p].marks \cap {"hit", "trusted"} # {}

(* A refusal that says nothing was written wrote nothing: the policy's        *)
(* "rejected before any write", the open-children refusal ("sent no parent    *)
(* status update"), and a denied role.                                        *)
RefusedBeforeAnyWrite ==
    \A p \in Procs :
        proc[p].res \in RefusedUnwritten => "wrote" \notin proc[p].marks

(* The close status is written by `issue close`, `status set` and             *)
(* `status advance` alike only when, since the command began, there was a     *)
(* time without an open child (Forgejo: dependency) or with the parent        *)
(* closed, or the children could not be listed.                               *)
ClosePreflight ==
    \A p \in Procs :
        \/ proc[p].pc = "put" /\ proc[p].goal = CloseStatus /\ proc[p].job # "final"
        \/ proc[p].pc = "native_patch" /\ proc[p].target = "Closed"
        => "clear" \in proc[p].marks

(* What a status command says it did, it did: a success was seen, a refusal   *)
(* sent nothing, and a close looked at the children first.                    *)
MovesAreReal == SuccessIsReal /\ RefusedBeforeAnyWrite /\ ClosePreflight
=============================================================================

---------------------------- MODULE TrackerProofs ----------------------------
(***************************************************************************)
(* Proofs about the status commands and `issue close`, for any number of   *)
(* commands and of changes by other users, any installed statuses and any  *)
(* close status among them, and answers that are lost, refused or show     *)
(* nothing:                                                                *)
(*                                                                         *)
(*   SuccessIsReal          a success was true at some time of the run;    *)
(*   RefusedBeforeAnyWrite  a refusal that says so wrote nothing;          *)
(*   ClosePreflight         a close is checked before it is written.       *)
(*                                                                         *)
(* A command decides on what it read steps ago.  The inductive invariant   *)
(* says of a running command what its way so far makes of its target and   *)
(* its goal (Core, At), and that its histories hit and clear are up to     *)
(* date with the issue as it is now, so that what it finds in an answer    *)
(* has been seen by them.                                                  *)
(***************************************************************************)
EXTENDS Tracker, TLAPS

\* r is the state of a command, whatever its fields hold.
IsCall(r) ==
    r \in [pc : {r.pc}, op : {r.op}, target : {r.target}, job : {r.job}, goal : {r.goal},
           steps : {r.steps}, read : {r.read}, marks : {r.marks}, res : {r.res}]

Results == {None, "ok", "error", RefusedByWorkflow} \cup RefusedUnwritten

\* A command that has ended, or has not begun.
Ended(r) ==
    /\ IsCall(r)
    /\ r.pc = "idle" /\ r.steps = <<>> /\ r.job # "step" /\ r.res \in Results
    /\ r.res = "ok" => r.marks \cap {"hit", "trusted"} # {}
    /\ r.res \in RefusedUnwritten => "wrote" \notin r.marks

\* A running command against a tracker of kind k, with the issue in status s
\* and c saying whether it has an open child.
Core(r, k, s, c) ==
    /\ IsCall(r)
    /\ r.res = None
    /\ r.op \in {"set", "advance", "auto", "close"}
    /\ r.job \in {"set", "direct", "step", "final"}
    /\ r.job = "set" <=> r.op # "close"
    /\ r.job \in {"set", "direct"} => r.goal = r.target
    /\ r.op = "close" => r.target = IF k = "redmine" THEN CloseStatus ELSE "Closed"
    /\ r.job \in {"step", "final"} => k = "redmine"
    /\ r.job = "step" => r.steps \in Seq(Canonical)
    /\ r.job = "step" <=> r.steps # <<>>
    /\ Reached(r.op, r.target, s) => "hit" \in r.marks
    /\ ~c \/ ParentClosed(s) => "clear" \in r.marks

\* What holds at the step it is about to take.
At(r, k) ==
    /\ r.pc \in {"next", "select", "advance", "kids", "parent", "put", "verify", "climb",
                 "closed", "native_first", "native_deps", "native_fresh", "native_patch",
                 "local_close", "local_write"}
    /\ r.pc \in {"select", "kids", "parent", "put", "verify", "climb", "closed"} =>
         k = "redmine"
    /\ r.pc \in {"native_first", "native_deps", "native_fresh", "native_patch"} =>
         k = "forgejo" /\ r.target \in Native
    /\ r.pc \in {"local_close", "local_write"} => k = "local"
    /\ r.pc = "local_close" => r.op = "close"
    /\ r.pc \in {"kids", "parent", "put"} => r.goal \in Installed
    /\ r.pc = "next" => r.op = "auto"
    /\ r.pc = "select" => r.job = "set"
    /\ r.pc = "advance" => r.job \in {"set", "step"}
    /\ r.pc = "climb" => r.job = "direct"
    /\ r.pc = "closed" => "hit" \in r.marks
    /\ r.pc \in {"next", "select", "advance", "kids", "parent", "native_first",
                 "native_deps", "local_close"} /\ r.job \notin {"step", "final"}
         => "wrote" \notin r.marks
    /\ r.pc = "put" /\ r.goal = CloseStatus /\ r.job # "final" => "clear" \in r.marks
    /\ r.pc \in {"native_fresh", "native_patch"} /\ r.target = "Closed"
         => "clear" \in r.marks

Sound(r, k, s, c) == Ended(r) \/ (Core(r, k, s, c) /\ At(r, k))

TInv ==
    /\ kind \in Providers
    /\ status \in IF kind = "forgejo" THEN Native ELSE Installed
    /\ kids \in BOOLEAN
    /\ others \in 0..MaxOthers /\ runs \in 0..MaxRuns
    /\ DOMAIN proc = Procs /\ proc = [p \in Procs |-> proc[p]]
    /\ \A p \in Procs : Sound(proc[p], kind, status, kids)
-----------------------------------------------------------------------------
(* What the operators make of a command.                                   *)

\* What is left of two steps or more.
LEMMA TailOfMore ==
    ASSUME NEW q, q \in Seq(Canonical), q # <<>>, Len(q) # 1
    PROVE  Tail(q) \in Seq(Canonical) /\ Tail(q) # <<>>
  <1>1. Len(q) \in Nat /\ Len(q) # 0
    OBVIOUS
  <1>2. Tail(q) \in Seq(Canonical) /\ Len(Tail(q)) = Len(q) - 1
    BY <1>1
  <1>3. Len(Tail(q)) # 0
    BY <1>1, <1>2
  <1>4. Len(<<>>) = 0
    OBVIOUS
  <1>5. Tail(q) # <<>>
    BY <1>3, <1>4, Zenon
  <1> QED
    BY <1>2, <1>5

LEMMA IdleCall ==
    /\ IsCall(Idle)
    /\ Idle.pc = "idle" /\ Idle.op = None /\ Idle.target = None /\ Idle.job = None
    /\ Idle.goal = None /\ Idle.steps = <<>> /\ Idle.read = None
    /\ Idle.marks = {} /\ Idle.res = None
  BY DEF IsCall, Idle

\* A command that goes to another step stays what it is.
LEMMA PcMoves ==
    ASSUME NEW r, NEW k, NEW s, NEW c, Core(r, k, s, c), NEW x,
           NEW u, u = [r EXCEPT !.pc = x]
    PROVE  /\ Core(u, k, s, c)
           /\ u.pc = x /\ u.op = r.op /\ u.target = r.target /\ u.job = r.job
           /\ u.goal = r.goal /\ u.marks = r.marks
  <1>1. /\ IsCall(u)
        /\ u.pc = x /\ u.op = r.op /\ u.target = r.target /\ u.job = r.job /\ u.goal = r.goal
        /\ u.steps = r.steps /\ u.read = r.read /\ u.marks = r.marks /\ u.res = r.res
    BY DEF Core, IsCall
  <1> QED
    BY <1>1 DEF Core

\* A command keeps its way when its marks grow, or only `trusted` changes.
LEMMA MarksMove ==
    ASSUME NEW r, NEW k, NEW s, NEW c, Core(r, k, s, c),
           NEW m, "hit" \in r.marks => "hit" \in m, "clear" \in r.marks => "clear" \in m,
           NEW u, u = [r EXCEPT !.marks = m]
    PROVE  /\ Core(u, k, s, c)
           /\ u.pc = r.pc /\ u.op = r.op /\ u.target = r.target /\ u.job = r.job
           /\ u.goal = r.goal /\ u.marks = m
  <1>1. /\ IsCall(u)
        /\ u.pc = r.pc /\ u.op = r.op /\ u.target = r.target /\ u.job = r.job /\ u.goal = r.goal
        /\ u.steps = r.steps /\ u.read = r.read /\ u.marks = m /\ u.res = r.res
    BY DEF Core, IsCall
  <1> QED
    BY <1>1 DEF Core

\* A command ends well when its success is real and its refusal is clean.
LEMMA EndSound ==
    ASSUME NEW r, NEW res \in Results,
           res = "ok" => r.marks \cap {"hit", "trusted"} # {},
           res \in RefusedUnwritten => "wrote" \notin r.marks
    PROVE  Ended(End(r, res))
  <1> DEFINE u == End(r, res)
  <1>1. /\ IsCall(u) /\ u.pc = "idle" /\ u.job = None /\ u.steps = <<>>
        /\ u.res = res /\ u.marks = r.marks \ {"clear"}
    BY IdleCall DEF End, IsCall
  <1>2. None # "step"
    BY TrackerAssumption
  <1> HIDE DEF u
  <1>3. /\ "wrote" \notin r.marks => "wrote" \notin u.marks
        /\ r.marks \cap {"hit", "trusted"} # {} => u.marks \cap {"hit", "trusted"} # {}
    BY <1>1
  <1>4. Ended(u)
    BY <1>1, <1>2, <1>3 DEF Ended
  <1> QED
    BY <1>4 DEF u

\* What a write that is done leads to.
LEMMA OnwardSound ==
    ASSUME NEW r, NEW k, NEW s, NEW c, Core(r, k, s, c), NEW res \in Results,
           r.job # "step" /\ res = "ok" => r.marks \cap {"hit", "trusted"} # {},
           r.job \in {"set", "direct"} /\ res \in RefusedUnwritten => "wrote" \notin r.marks
    PROVE  Sound(Onward(r, res), k, s, c)
  <1>1. CASE r.job = "step" /\ res = "ok" /\ Len(r.steps) = 1
    <2> DEFINE u == [r EXCEPT !.job = "final", !.goal = CloseStatus, !.steps = <<>>, !.pc = "put",
                              !.marks = @ \ {"trusted"}]
    <2>1. Onward(r, res) = u
      BY <1>1 DEF Onward
    <2>2. /\ IsCall(u)
          /\ u.pc = "put" /\ u.op = r.op /\ u.target = r.target /\ u.job = "final"
          /\ u.goal = CloseStatus /\ u.steps = <<>> /\ u.marks = r.marks \ {"trusted"}
          /\ u.res = r.res
      BY DEF Core, IsCall
    <2> HIDE DEF u
    <2>3. /\ "hit" \in r.marks => "hit" \in u.marks
          /\ "clear" \in r.marks => "clear" \in u.marks
      BY <2>2
    <2>4. Core(u, k, s, c)
      BY <1>1, <2>2, <2>3 DEF Core
    <2>5. At(u, k)
      BY <1>1, <2>2, TrackerAssumption DEF At, Core
    <2> QED
      BY <2>1, <2>4, <2>5 DEF Sound
  <1>2. CASE r.job = "step" /\ res = "ok" /\ Len(r.steps) # 1
    <2> DEFINE u == [r EXCEPT !.steps = Tail(@), !.goal = r.steps[2], !.pc = "advance",
                              !.marks = @ \ {"trusted"}]
    <2>1. Onward(r, res) = u
      BY <1>2 DEF Onward
    <2>2. /\ IsCall(u)
          /\ u.pc = "advance" /\ u.op = r.op /\ u.target = r.target /\ u.job = r.job
          /\ u.goal = r.steps[2] /\ u.steps = Tail(r.steps) /\ u.marks = r.marks \ {"trusted"}
          /\ u.res = r.res
      BY DEF Core, IsCall
    <2> HIDE DEF u
    <2>3. Tail(r.steps) \in Seq(Canonical) /\ Tail(r.steps) # <<>>
      <3>1. r.steps \in Seq(Canonical) /\ r.steps # <<>> /\ Len(r.steps) # 1
        BY <1>2 DEF Core
      <3> QED
        BY <3>1, TailOfMore
    <2>4. /\ "hit" \in r.marks => "hit" \in u.marks
          /\ "clear" \in r.marks => "clear" \in u.marks
      BY <2>2
    <2>5. Core(u, k, s, c)
      BY <1>2, <2>2, <2>3, <2>4 DEF Core
    <2>6. At(u, k)
      BY <1>2, <2>2 DEF At, Core
    <2> QED
      BY <2>1, <2>5, <2>6 DEF Sound
  <1>3. CASE r.job \in {"step", "final"} /\ res # "ok"
    <2>1. Onward(r, res) = End(r, RefusedByWorkflow)
      BY <1>3 DEF Onward
    <2>2. Ended(End(r, RefusedByWorkflow))
      BY EndSound DEF Results, RefusedByWorkflow, RefusedUnwritten
    <2> QED
      BY <2>1, <2>2 DEF Sound
  <1>4. CASE r.job \in {"set", "direct"} \/ (r.job = "final" /\ res = "ok")
    <2>1. Onward(r, res) = End(r, res)
      BY <1>4 DEF Onward
    <2>2. Ended(End(r, res))
      <3>1. res \in RefusedUnwritten => res # "ok"
        BY DEF RefusedUnwritten
      <3> QED
        BY <1>4, <3>1, EndSound
    <2> QED
      BY <2>1, <2>2 DEF Sound
  <1> QED
    BY <1>1, <1>2, <1>3, <1>4 DEF Core

\* A failure is nobody's success.
LEMMA ErrorSound ==
    ASSUME NEW r, NEW k, NEW s, NEW c, Core(r, k, s, c)
    PROVE  /\ Sound(Onward(r, "error"), k, s, c)
           /\ Sound(End(r, "error"), k, s, c)
           /\ Sound(End(r, RefusedByWorkflow), k, s, c)
  <1>1. "error" \in Results /\ "error" # "ok" /\ "error" \notin RefusedUnwritten
    BY DEF Results, RefusedUnwritten
  <1>2. RefusedByWorkflow \in Results /\ RefusedByWorkflow \notin RefusedUnwritten
        /\ RefusedByWorkflow # "ok"
    BY DEF Results, RefusedUnwritten, RefusedByWorkflow
  <1>3. Sound(Onward(r, "error"), k, s, c)
    BY <1>1, OnwardSound
  <1> QED
    BY <1>1, <1>2, <1>3, EndSound DEF Sound

\* An answer that confirms a status shows one that makes the command true.
LEMMA JudgeSound ==
    ASSUME NEW r, NEW s, NEW c, Core(r, "redmine", s, c), NEW shape \in Shapes
    PROVE  Sound(Judge(r, shape, s), "redmine", s, c)
  <1> DEFINE verdict == IF r.job \in {"direct", "final"} THEN VerifyCloseStatus(shape, s)
                        ELSE CASE shape = "id" /\ s = r.goal -> "confirmed"
                               [] shape = "id" /\ s # r.goal -> "mismatch"
                               [] OTHER -> "indeterminate"
  <1>1. verdict \in {"confirmed", "mismatch", "indeterminate"}
    BY DEF VerifyCloseStatus
  <1>2. ASSUME verdict = "confirmed", r.job # "step"
        PROVE  "hit" \in r.marks
    <2>1. CASE r.job = "set"
      BY <1>2, <2>1 DEF Core, Reached
    <2>2. CASE r.job \in {"direct", "final"}
      <3>1. s = CloseStatus \/ IsClosed(s)
        BY <1>2, <2>2 DEF VerifyCloseStatus
      <3>2. r.op = "close" /\ r.target = CloseStatus
        BY <2>2 DEF Core
      <3> QED
        BY <3>1, <3>2 DEF Core, Reached
    <2> QED
      BY <1>2, <2>1, <2>2 DEF Core
  <1>3. CASE verdict = "mismatch" /\ r.job = "direct"
    <2> DEFINE u == [r EXCEPT !.pc = "climb"]
    <2>1. Judge(r, shape, s) = u
      BY <1>3 DEF Judge
    <2>2. Core(u, "redmine", s, c) /\ u.pc = "climb" /\ u.job = r.job
      BY PcMoves
    <2> HIDE DEF u
    <2>3. At(u, "redmine")
      BY <1>3, <2>2 DEF At
    <2> QED
      BY <2>1, <2>2, <2>3 DEF Sound
  <1>4. CASE verdict = "mismatch" /\ r.job # "direct"
    BY <1>4, ErrorSound DEF Judge
  <1>5. CASE verdict # "mismatch"
    <2> DEFINE m == (r.marks \ {"trusted"}) \cup Marked("trusted", verdict = "indeterminate")
               u == [r EXCEPT !.marks = m]
    <2>1. Judge(r, shape, s) = Onward(u, "ok")
      BY <1>5 DEF Judge
    <2>2. Core(u, "redmine", s, c) /\ u.job = r.job /\ u.marks = m
      <3>1. /\ "hit" \in r.marks => "hit" \in m
            /\ "clear" \in r.marks => "clear" \in m
        OBVIOUS
      <3>2. u = [r EXCEPT !.marks = m]
        OBVIOUS
      <3> HIDE DEF m, u
      <3> QED
        BY <3>1, <3>2, MarksMove
    <2>3. r.job # "step" => m \cap {"hit", "trusted"} # {}
      BY <1>1, <1>2, <1>5 DEF Marked
    <2> HIDE DEF m, u
    <2>4. "ok" \in Results /\ "ok" \notin RefusedUnwritten
      BY DEF Results, RefusedUnwritten
    <2> QED
      BY <2>1, <2>2, <2>3, <2>4, OnwardSound
  <1> QED
    BY <1>3, <1>4, <1>5

\* What a PUT leads to, with the issue as the PUT left it.
LEMMA PutAnswerSound ==
    ASSUME NEW r, NEW s, NEW c, Core(r, "redmine", s, c), NEW outcome,
           NEW shape \in Shapes \cup {"empty"},
           outcome \in {"applied", "ignored", "refused", "failed", "lost"}
    PROVE  Sound(PutAnswer(r, outcome, shape, s), "redmine", s, c)
  <1>1. ASSUME NEW x \in {"verify", "climb"}, x = "climb" => r.job = "direct",
               PutAnswer(r, outcome, shape, s) = [r EXCEPT !.pc = x]
        PROVE  Sound(PutAnswer(r, outcome, shape, s), "redmine", s, c)
    <2> DEFINE u == [r EXCEPT !.pc = x]
    <2>1. Core(u, "redmine", s, c) /\ u.pc = x /\ u.job = r.job
      BY PcMoves
    <2> HIDE DEF u
    <2>2. At(u, "redmine")
      BY <1>1, <2>1 DEF At
    <2> QED
      BY <1>1, <2>1, <2>2 DEF Sound, u
  <1>2. CASE outcome \in {"applied", "ignored"} /\ shape = "empty"
    <2>1. PutAnswer(r, outcome, shape, s) = [r EXCEPT !.pc = "verify"]
      BY <1>2 DEF PutAnswer, ClassifyRedmineError
    <2> QED
      BY <1>1, <2>1
  <1>3. CASE outcome \in {"applied", "ignored"} /\ shape # "empty"
    <2>1. PutAnswer(r, outcome, shape, s) = Judge(r, shape, s) /\ shape \in Shapes
      BY <1>3 DEF PutAnswer, ClassifyRedmineError
    <2> QED
      BY <2>1, JudgeSound
  <1>4. CASE outcome \notin {"applied", "ignored"} /\ outcome = "refused" /\ r.job = "direct"
    <2>1. PutAnswer(r, outcome, shape, s) = [r EXCEPT !.pc = "climb"]
      BY <1>4 DEF PutAnswer, ClassifyRedmineError
    <2> QED
      BY <1>1, <1>4, <2>1
  <1>5. CASE outcome \notin {"applied", "ignored"} /\ ~(outcome = "refused" /\ r.job = "direct")
    <2>1. PutAnswer(r, outcome, shape, s) = Onward(r, "error")
      BY <1>5 DEF PutAnswer, ClassifyRedmineError
    <2> QED
      BY <2>1, ErrorSound
  <1> QED
    BY <1>2, <1>3, <1>4, <1>5

-----------------------------------------------------------------------------
(* Steps of one command, and of the issue under all of them.               *)

LEMMA Acts ==
    ASSUME TInv, NEW p \in Procs, proc[p].pc # "idle"
    PROVE  Core(proc[p], kind, status, kids) /\ At(proc[p], kind)
  BY DEF TInv, Sound, Ended

LEMMA OneMoves ==
    ASSUME TInv, NEW p \in Procs, NEW u, Sound(u, kind, status, kids),
           proc' = [proc EXCEPT ![p] = u],
           UNCHANGED <<kind, status, kids, others, runs>>
    PROVE  TInv'
  <1>1. DOMAIN proc' = Procs /\ proc' = [q \in Procs |-> proc'[q]]
    BY DEF TInv
  <1>2. ASSUME NEW q \in Procs
        PROVE  Sound(proc'[q], kind, status, kids)
    BY DEF TInv
  <1>3. \A q \in Procs : Sound(proc'[q], kind', status', kids')
    BY <1>2, Zenon
  <1> QED
    BY <1>1, <1>3 DEF TInv

\* A command lives through a move of the issue.
LEMMA LivesOn ==
    ASSUME NEW r, NEW k, NEW old, NEW c, Core(r, k, old, c), At(r, k), NEW s,
           NEW u, u = [r EXCEPT !.marks = @ \cup Marked("hit", Reached(r.op, r.target, s))
                                            \cup Marked("clear", ParentClosed(s))]
    PROVE  /\ Core(u, k, s, c) /\ At(u, k)
           /\ u.pc = r.pc /\ u.op = r.op /\ u.target = r.target /\ u.job = r.job
           /\ u.goal = r.goal
  <1> DEFINE m == r.marks \cup Marked("hit", Reached(r.op, r.target, s))
                          \cup Marked("clear", ParentClosed(s))
  <1>1. /\ IsCall(u)
        /\ u.pc = r.pc /\ u.op = r.op /\ u.target = r.target /\ u.job = r.job /\ u.goal = r.goal
        /\ u.steps = r.steps /\ u.read = r.read /\ u.marks = m /\ u.res = r.res
    BY DEF Core, IsCall
  <1>2. /\ Reached(r.op, r.target, s) => "hit" \in m
        /\ ParentClosed(s) => "clear" \in m
        /\ "hit" \in r.marks => "hit" \in m
        /\ "clear" \in r.marks => "clear" \in m
        /\ "wrote" \in m => "wrote" \in r.marks
    BY DEF Marked
  <1> HIDE DEF m
  <1>3. Core(u, k, s, c)
    BY <1>1, <1>2 DEF Core
  <1>4. At(u, k)
    BY <1>1, <1>2 DEF At
  <1> QED
    BY <1>1, <1>3, <1>4

LEMMA MovedSound ==
    ASSUME TInv, NEW s, NEW q \in Procs
    PROVE  /\ DOMAIN Moved(proc, s) = Procs
           /\ Moved(proc, s) = [p \in Procs |-> Moved(proc, s)[p]]
           /\ Sound(Moved(proc, s)[q], kind, s, kids)
           /\ proc[q].pc # "idle" =>
                /\ Core(Moved(proc, s)[q], kind, s, kids) /\ At(Moved(proc, s)[q], kind)
                /\ Moved(proc, s)[q].pc = proc[q].pc /\ Moved(proc, s)[q].job = proc[q].job
                /\ Moved(proc, s)[q].goal = proc[q].goal
                /\ Moved(proc, s)[q].target = proc[q].target
                /\ Moved(proc, s)[q].op = proc[q].op
  <1>1. DOMAIN Moved(proc, s) = Procs /\ Moved(proc, s) = [p \in Procs |-> Moved(proc, s)[p]]
    BY DEF Moved
  <1>2. CASE proc[q].pc = "idle"
    <2>1. Moved(proc, s)[q] = proc[q]
      BY <1>2 DEF Moved
    <2>2. Ended(proc[q])
      BY <1>2 DEF TInv, Sound, At
    <2> QED
      BY <1>1, <1>2, <2>1, <2>2 DEF Sound
  <1>3. CASE proc[q].pc # "idle"
    <2> DEFINE u == [proc[q] EXCEPT !.marks =
                        @ \cup Marked("hit", Reached(proc[q].op, proc[q].target, s))
                          \cup Marked("clear", ParentClosed(s))]
    <2>1. Moved(proc, s)[q] = u
      BY <1>3 DEF Moved
    <2>2. /\ Core(u, kind, s, kids) /\ At(u, kind)
          /\ u.pc = proc[q].pc /\ u.op = proc[q].op /\ u.target = proc[q].target
          /\ u.job = proc[q].job /\ u.goal = proc[q].goal
      BY <1>3, Acts, LivesOn
    <2> HIDE DEF u
    <2> QED
      BY <1>1, <2>1, <2>2 DEF Sound
  <1> QED
    BY <1>2, <1>3

\* A write of one command: the issue moves under the others.
LEMMA WriteMoves ==
    ASSUME TInv, NEW p \in Procs, NEW s, s \in IF kind = "forgejo" THEN Native ELSE Installed,
           NEW u, Sound(u, kind, s, kids),
           proc' = [Moved(proc, s) EXCEPT ![p] = u], status' = s,
           UNCHANGED <<kind, kids, others, runs>>
    PROVE  TInv'
  <1>1. DOMAIN Moved(proc, s) = Procs
    BY MovedSound
  <1>2. DOMAIN proc' = Procs /\ proc' = [q \in Procs |-> proc'[q]]
    BY <1>1
  <1>3. ASSUME NEW q \in Procs
        PROVE  Sound(proc'[q], kind, s, kids)
    BY <1>1, MovedSound
  <1>4. \A q \in Procs : Sound(proc'[q], kind', status', kids')
    BY <1>3, Zenon
  <1> QED
    BY <1>2, <1>4 DEF TInv

\* The command that writes, after the issue has moved.
LEMMA Writes ==
    ASSUME TInv, NEW p \in Procs, proc[p].pc # "idle", NEW s,
           NEW u, u = Wrote(Moved(proc, s)[p])
    PROVE  /\ Core(u, kind, s, kids)
           /\ u.pc = proc[p].pc /\ u.op = proc[p].op /\ u.target = proc[p].target
           /\ u.job = proc[p].job /\ u.goal = proc[p].goal
  <1> DEFINE r == Moved(proc, s)[p]
             m == r.marks \cup {"wrote"}
  <1>1. /\ Core(r, kind, s, kids)
        /\ r.pc = proc[p].pc /\ r.op = proc[p].op /\ r.target = proc[p].target
        /\ r.job = proc[p].job /\ r.goal = proc[p].goal
    BY MovedSound
  <1>2. u = [r EXCEPT !.marks = m]
    BY DEF Wrote
  <1>3. /\ "hit" \in r.marks => "hit" \in m
        /\ "clear" \in r.marks => "clear" \in m
    OBVIOUS
  <1> HIDE DEF r, m
  <1> QED
    BY <1>1, <1>2, <1>3, MarksMove

-----------------------------------------------------------------------------
(* The actions.                                                            *)

LEMMA InitInv ==
    ASSUME Init
    PROVE  TInv
  <1>1. Ended(Idle)
    <2>1. None # "step" /\ None # "ok" /\ None \notin RefusedUnwritten
      BY TrackerAssumption DEF RefusedUnwritten
    <2> QED
      BY <2>1, IdleCall DEF Ended, Results
  <1>2. \A p \in Procs : Sound(proc[p], kind, status, kids)
    BY <1>1 DEF Init, Sound
  <1> QED
    BY <1>2, TrackerAssumption DEF Init, TInv, Native

\* A refusal before the first request, and a command that starts.
LEMMA BeginKeeps ==
    ASSUME TInv, NEW p \in Procs, NEW c \in Commands, Begin(p, c)
    PROVE  TInv'
  <1> DEFINE target == IF c.op = "close" THEN IF kind = "redmine" THEN CloseStatus ELSE "Closed"
                       ELSE c.target
             first == CASE c.op = "close" -> EntryClose
                        [] c.op = "set" -> EntrySet
                        [] OTHER -> EntryAdvance(c.op)
             job == IF c.op = "close" THEN "direct" ELSE "set"
             m == Marked("hit", Reached(c.op, target, status))
                    \cup Marked("clear", ~kids \/ ParentClosed(status))
             start == [Idle EXCEPT !.op = c.op, !.target = target, !.goal = target,
                                   !.job = job, !.marks = m, !.pc = first]
             u == CASE c.caller # "orchestrator" -> End(start, "denied")
                    [] c.caller = "orchestrator" /\ kind = "forgejo"
                         /\ c.op \in {"set", "advance"} /\ ~Selectable(target) ->
                            End(start, "error")
                    [] OTHER -> start
  <1>1. proc' = [proc EXCEPT ![p] = u] /\ UNCHANGED <<kind, status, kids, others>>
    BY DEF Begin
  <1>2. runs' \in 0..MaxRuns
    BY TrackerAssumption DEF Begin, TInv
  <1>3. c.op \in {"set", "advance", "auto", "close"}
    BY TrackerAssumption
  <1>4. /\ IsCall(start)
        /\ start.pc = first /\ start.op = c.op /\ start.target = target /\ start.job = job
        /\ start.goal = target /\ start.steps = <<>> /\ start.read = None /\ start.marks = m
        /\ start.res = None
    BY IdleCall DEF IsCall
  <1>5. /\ Reached(c.op, target, status) => "hit" \in m
        /\ ~kids \/ ParentClosed(status) => "clear" \in m
        /\ "wrote" \notin m
    BY DEF Marked
  <1> HIDE DEF m, start
  <1>6. Core(start, kind, status, kids)
    BY <1>3, <1>4, <1>5 DEF Core
  <1>7. Sound(u, kind, status, kids)
    <2>1. CASE c.caller # "orchestrator"
      <3>1. "denied" \in Results /\ "denied" # "ok"
        BY DEF Results, RefusedUnwritten
      <3>2. Ended(End(start, "denied"))
        BY <1>4, <1>5, <3>1, EndSound
      <3> QED
        BY <2>1, <3>2 DEF Sound
    <2>2. CASE /\ c.caller = "orchestrator" /\ kind = "forgejo"
               /\ c.op \in {"set", "advance"} /\ ~Selectable(target)
      BY <2>2, <1>6, ErrorSound
    <2>3. CASE /\ c.caller = "orchestrator"
               /\ ~(kind = "forgejo" /\ c.op \in {"set", "advance"} /\ ~Selectable(target))
      <3>1. u = start
        BY <2>3
      <3>2. kind \in {"redmine", "forgejo", "local"}
        BY TrackerAssumption DEF TInv
      <3>3. CloseStatus \in Installed
        BY TrackerAssumption
      <3>4. At(start, kind)
        BY <1>3, <1>4, <1>5, <2>3, <3>2, <3>3
           DEF At, EntryClose, EntrySet, EntryAdvance, Selectable, Native
      <3> QED
        BY <1>6, <3>1, <3>4 DEF Sound
    <2> QED
      BY <2>1, <2>2, <2>3
  <1> HIDE DEF u
  <1>8. DOMAIN proc' = Procs /\ proc' = [q \in Procs |-> proc'[q]]
    BY <1>1 DEF TInv
  <1>9. \A q \in Procs : Sound(proc'[q], kind, status, kids)
    BY <1>1, <1>7 DEF TInv
  <1>10. \A q \in Procs : Sound(proc'[q], kind', status', kids')
    BY <1>1, <1>9, Zenon
  <1> QED
    BY <1>1, <1>2, <1>8, <1>10 DEF TInv

LEMMA ReadFailsKeeps ==
    ASSUME TInv, NEW p \in Procs, ReadFails(p)
    PROVE  TInv'
  <1>1. Core(proc[p], kind, status, kids)
    BY Acts DEF ReadFails
  <1>2. proc' = [proc EXCEPT ![p] = End(proc[p], "error")]
    BY DEF ReadFails
  <1>3. Sound(End(proc[p], "error"), kind, status, kids)
    BY <1>1, ErrorSound
  <1> QED
    BY <1>2, <1>3, OneMoves DEF ReadFails

\* The next status of a bare transition becomes its target.
LEMMA TakeFirstSound ==
    ASSUME TInv, NEW p \in Procs, proc[p].pc = "next", NEW next, NEW pc,
           \/ pc = "advance"
           \/ pc = "native_first" /\ kind = "forgejo" /\ (next # <<>> => Head(next) \in Native)
    PROVE  Sound(TakeFirst(proc[p], next, pc), kind, status, kids)
  <1> DEFINE r == proc[p]
             t == Head(next)
             m == (r.marks \ {"hit"}) \cup Marked("hit", status = t)
             u == [r EXCEPT !.target = t, !.goal = t, !.pc = pc, !.marks = m]
  <1>1. Core(r, kind, status, kids) /\ r.op = "auto" /\ r.job = "set" /\ "wrote" \notin r.marks
    <2>1. Core(r, kind, status, kids) /\ At(r, kind)
      BY Acts
    <2> QED
      BY <2>1 DEF At, Core
  <1>2. CASE next = <<>>
    <2>1. "noroute" \in Results /\ "noroute" # "ok"
      BY DEF Results, RefusedUnwritten
    <2>2. Ended(End(r, "noroute"))
      BY <1>1, <2>1, EndSound
    <2> QED
      BY <1>2, <2>2 DEF TakeFirst, Sound
  <1>3. CASE next # <<>>
    <2>1. TakeFirst(r, next, pc) = u
      BY <1>3 DEF TakeFirst
    <2>2. /\ IsCall(u)
          /\ u.pc = pc /\ u.op = r.op /\ u.target = t /\ u.job = r.job /\ u.goal = t
          /\ u.steps = r.steps /\ u.read = r.read /\ u.marks = m /\ u.res = r.res
      BY <1>1 DEF Core, IsCall
    <2>3. /\ status = t => "hit" \in m
          /\ "clear" \in r.marks => "clear" \in m
          /\ "wrote" \notin m
      BY <1>1 DEF Marked
    <2> HIDE DEF m, u, t
    <2>4. Core(u, kind, status, kids)
      BY <1>1, <2>2, <2>3 DEF Core, Reached
    <2>5. At(u, kind)
      BY <1>1, <1>3, <2>2, <2>3 DEF At, t
    <2> QED
      BY <2>1, <2>4, <2>5 DEF Sound
  <1> QED
    BY <1>2, <1>3

LEMMA NextKeeps ==
    ASSUME TInv, NEW p \in Procs, StatusNext(p) \/ LocalNext(p) \/ NativeNext(p)
    PROVE  TInv'
  <1>1. CASE StatusNext(p) \/ LocalNext(p)
    <2> DEFINE u == TakeFirst(proc[p], SelectSeq(CanonicalAllowedNext(status), Selectable),
                              "advance")
    <2>1. proc' = [proc EXCEPT ![p] = u] /\ UNCHANGED <<kind, status, kids, others, runs>>
      BY <1>1 DEF StatusNext, LocalNext
    <2>2. Sound(u, kind, status, kids)
      BY <1>1, TakeFirstSound DEF StatusNext, LocalNext
    <2> QED
      BY <2>1, <2>2, OneMoves
  <1>2. CASE NativeNext(p)
    <2> DEFINE next == <<IF status = "Closed" THEN "Open" ELSE "Closed">>
               u == TakeFirst(proc[p], next, "native_first")
    <2>1. proc' = [proc EXCEPT ![p] = u] /\ UNCHANGED <<kind, status, kids, others, runs>>
      BY <1>2 DEF NativeNext
    <2>2. Head(next) \in Native
      BY DEF Native
    <2>3. Sound(u, kind, status, kids)
      <3> HIDE DEF next
      <3> QED
        BY <1>2, <2>2, TakeFirstSound DEF NativeNext
    <2> QED
      BY <2>1, <2>3, OneMoves
  <1> QED
    BY <1>1, <1>2

LEMMA SelectKeeps ==
    ASSUME TInv, NEW p \in Procs, SelectTarget(p)
    PROVE  TInv'
  <1> DEFINE r == proc[p]
             pc == IF r.goal = CloseStatus THEN "kids" ELSE "put"
             u == [r EXCEPT !.pc = pc]
  <1>1. /\ Core(r, kind, status, kids) /\ At(r, kind) /\ r.pc = "select"
        /\ UNCHANGED <<kind, status, kids, others, runs>>
    BY Acts DEF SelectTarget
  <1>2. CASE ~Selectable(r.target)
    <2>1. proc' = [proc EXCEPT ![p] = End(r, "error")]
      BY <1>2 DEF SelectTarget
    <2> QED
      BY <1>1, <2>1, ErrorSound, OneMoves
  <1>3. CASE Selectable(r.target)
    <2>1. proc' = [proc EXCEPT ![p] = u]
      BY <1>3 DEF SelectTarget
    <2>2. kind = "redmine" /\ r.job = "set" /\ r.goal = r.target /\ "wrote" \notin r.marks
      BY <1>1 DEF At, Core
    <2>3. /\ Core(u, kind, status, kids)
          /\ u.pc = pc /\ u.job = r.job /\ u.goal = r.goal /\ u.marks = r.marks
      BY <1>1, PcMoves
    <2> HIDE DEF u
    <2>4. At(u, kind)
      BY <1>3, <2>2, <2>3 DEF At, Selectable
    <2> QED
      BY <1>1, <2>1, <2>3, <2>4, OneMoves DEF Sound
  <1> QED
    BY <1>2, <1>3

\* The policy's verdict on a move.
LEMMA AdvisedSound ==
    ASSUME TInv, NEW p \in Procs, proc[p].pc = "advance", NEW next,
           \/ kind = "redmine" /\ next = IF proc[p].goal = CloseStatus THEN "kids" ELSE "put"
           \/ kind = "local" /\ next = "local_write"
    PROVE  Sound(Advised(proc[p], next), kind, status, kids)
  <1> DEFINE r == proc[p]
             verdict == EvaluateTransition(status, r.goal)
             u == [r EXCEPT !.read = status, !.pc = next]
  <1>1. /\ Core(r, kind, status, kids) /\ At(r, kind)
        /\ r.job \in {"set", "step"} /\ (r.job = "set" => "wrote" \notin r.marks)
        /\ r.job = "set" => r.goal = r.target
    <2>1. Core(r, kind, status, kids) /\ At(r, kind)
      BY Acts
    <2> QED
      BY <2>1 DEF At, Core
  <1>2. CASE ~Selectable(r.goal)
    BY <1>1, <1>2, ErrorSound DEF Advised
  <1>3. CASE Selectable(r.goal) /\ verdict = "noop"
    <2>1. Advised(r, next) = Onward(r, "ok")
      BY <1>3 DEF Advised
    <2>2. status = r.goal
      BY <1>3 DEF EvaluateTransition
    <2>3. r.job # "step" => "hit" \in r.marks
      BY <1>1, <2>2 DEF Core, Reached
    <2>4. "ok" \in Results /\ "ok" \notin RefusedUnwritten
      BY DEF Results, RefusedUnwritten
    <2> QED
      BY <1>1, <2>1, <2>3, <2>4, OnwardSound
  <1>4. CASE Selectable(r.goal) /\ verdict = "forbidden"
    <2>1. Advised(r, next) = Onward(r, "forbidden")
      BY <1>4 DEF Advised
    <2>2. "forbidden" \in Results /\ "forbidden" # "ok"
      BY DEF Results, RefusedUnwritten
    <2> QED
      BY <1>1, <2>1, <2>2, OnwardSound
  <1>5. CASE Selectable(r.goal) /\ verdict \notin {"noop", "forbidden"}
    <2>1. Advised(r, next) = u
      BY <1>5 DEF Advised
    <2>2. /\ IsCall(u)
          /\ u.pc = next /\ u.op = r.op /\ u.target = r.target /\ u.job = r.job
          /\ u.goal = r.goal /\ u.steps = r.steps /\ u.marks = r.marks /\ u.res = r.res
      BY <1>1 DEF Core, IsCall
    <2> HIDE DEF u
    <2>3. Core(u, kind, status, kids) /\ At(u, kind)
      BY <1>1, <1>5, <2>2 DEF At, Core, Selectable
    <2> QED
      BY <2>1, <2>3 DEF Sound
  <1> QED
    BY <1>2, <1>3, <1>4, <1>5

LEMMA AdvanceKeeps ==
    ASSUME TInv, NEW p \in Procs, AdvanceRead(p) \/ LocalAdvance(p) \/ AdvanceReadFails(p)
    PROVE  TInv'
  <1>1. CASE AdvanceRead(p)
    <2> DEFINE next == IF proc[p].goal = CloseStatus THEN "kids" ELSE "put"
    <2>1. /\ proc' = [proc EXCEPT ![p] = Advised(proc[p], next)]
          /\ proc[p].pc = "advance" /\ kind = "redmine"
          /\ UNCHANGED <<kind, status, kids, others, runs>>
      BY <1>1 DEF AdvanceRead
    <2> QED
      BY <2>1, AdvisedSound, OneMoves
  <1>2. CASE LocalAdvance(p)
    <2>1. /\ proc' = [proc EXCEPT ![p] = Advised(proc[p], "local_write")]
          /\ proc[p].pc = "advance" /\ kind = "local"
          /\ UNCHANGED <<kind, status, kids, others, runs>>
      BY <1>2 DEF LocalAdvance
    <2> QED
      BY <2>1, AdvisedSound, OneMoves
  <1>3. CASE AdvanceReadFails(p)
    <2>1. /\ proc' = [proc EXCEPT ![p] = Onward(proc[p], "error")]
          /\ proc[p].pc = "advance"
          /\ UNCHANGED <<kind, status, kids, others, runs>>
      BY <1>3 DEF AdvanceReadFails
    <2> QED
      BY <2>1, Acts, ErrorSound, OneMoves
  <1> QED
    BY <1>1, <1>2, <1>3

\* The children are asked for, and the parent behind an open child.
LEMMA ChildrenKeep ==
    ASSUME TInv, NEW p \in Procs, NEW answered \in BOOLEAN, ListOpenChildren(p, answered)
    PROVE  TInv'
  <1> DEFINE r == proc[p]
             m == r.marks \cup Marked("clear", ~answered)
             v == [r EXCEPT !.pc = "put", !.marks = m]
             u == [r EXCEPT !.pc = "parent"]
  <1>1. /\ Core(r, kind, status, kids) /\ At(r, kind) /\ r.pc = "kids"
        /\ UNCHANGED <<kind, status, kids, others, runs>>
    BY Acts DEF ListOpenChildren
  <1>2. CASE answered /\ kids
    <2>1. proc' = [proc EXCEPT ![p] = u]
      BY <1>2 DEF ListOpenChildren
    <2>2. /\ Core(u, kind, status, kids)
          /\ u.pc = "parent" /\ u.job = r.job /\ u.goal = r.goal /\ u.marks = r.marks
      BY <1>1, PcMoves
    <2> HIDE DEF u
    <2>3. At(u, kind)
      BY <1>1, <2>2 DEF At
    <2> QED
      BY <1>1, <2>1, <2>2, <2>3, OneMoves DEF Sound
  <1>3. CASE ~(answered /\ kids)
    <2>1. proc' = [proc EXCEPT ![p] = v]
      BY <1>3 DEF ListOpenChildren, Unhindered
    <2>2. /\ IsCall(v)
          /\ v.pc = "put" /\ v.op = r.op /\ v.target = r.target /\ v.job = r.job /\ v.goal = r.goal
          /\ v.steps = r.steps /\ v.read = r.read /\ v.marks = m /\ v.res = r.res
      BY <1>1 DEF Core, IsCall
    <2>3. "clear" \in m /\ ("hit" \in r.marks => "hit" \in m)
      BY <1>1, <1>3 DEF Marked, Core, TInv
    <2> HIDE DEF m, v
    <2>4. Core(v, kind, status, kids)
      BY <1>1, <2>2, <2>3 DEF Core
    <2>5. At(v, kind)
      BY <1>1, <2>2, <2>3 DEF At
    <2> QED
      BY <1>1, <2>1, <2>4, <2>5, OneMoves DEF Sound
  <1> QED
    BY <1>2, <1>3

LEMMA ParentKeeps ==
    ASSUME TInv, NEW p \in Procs, NEW answered \in BOOLEAN, ReadParent(p, answered)
    PROVE  TInv'
  <1> DEFINE r == proc[p]
             u == [r EXCEPT !.pc = "put"]
  <1>1. /\ Core(r, kind, status, kids) /\ At(r, kind) /\ r.pc = "parent"
        /\ UNCHANGED <<kind, status, kids, others, runs>>
    BY Acts DEF ReadParent
  <1>2. CASE answered /\ ParentClosed(status)
    <2>1. proc' = [proc EXCEPT ![p] = u]
      BY <1>2 DEF ReadParent
    <2>2. /\ Core(u, kind, status, kids)
          /\ u.pc = "put" /\ u.job = r.job /\ u.goal = r.goal /\ u.marks = r.marks
      BY <1>1, PcMoves
    <2>3. "clear" \in r.marks
      BY <1>1, <1>2 DEF Core
    <2> HIDE DEF u
    <2>4. At(u, kind)
      BY <1>1, <2>2, <2>3 DEF At
    <2> QED
      BY <1>1, <2>1, <2>2, <2>4, OneMoves DEF Sound
  <1>3. CASE ~(answered /\ ParentClosed(status))
    <2>1. proc' = [proc EXCEPT ![p] = Onward(r, "children")]
      BY <1>3 DEF ReadParent
    <2>2. "children" \in Results /\ "children" # "ok"
      BY DEF Results, RefusedUnwritten
    <2>3. r.job \in {"set", "direct"} => "wrote" \notin r.marks
      BY <1>1 DEF At
    <2>4. Sound(Onward(r, "children"), kind, status, kids)
      BY <1>1, <2>2, <2>3, OnwardSound
    <2> QED
      BY <1>1, <2>1, <2>4, OneMoves
  <1> QED
    BY <1>2, <1>3

\* The PUT and what its answer makes of the command.
LEMMA PutKeeps ==
    ASSUME TInv, NEW p \in Procs, NEW outcome, NEW shape \in Shapes \cup {"empty"},
           outcome \in {"applied", "ignored", "refused", "failed", "lost"},
           Put(p, outcome, shape)
    PROVE  TInv'
  <1> DEFINE s == IF outcome \in {"applied", "lost"} THEN proc[p].goal ELSE status
             w == Wrote(Moved(proc, s)[p])
             u == PutAnswer(w, outcome, shape, s)
  <1>1. proc[p].pc = "put" /\ status' = s /\ UNCHANGED <<kind, kids, others, runs>>
    BY DEF Put
  <1>2. proc' = [Moved(proc, s) EXCEPT ![p] = u]
    <2>1. DOMAIN Moved(proc, s) = Procs
      BY MovedSound
    <2> QED
      BY <2>1 DEF Put
  <1>3. kind = "redmine" /\ proc[p].goal \in Installed
    <2>1. At(proc[p], kind)
      BY <1>1, Acts
    <2> QED
      BY <1>1, <2>1 DEF At
  <1>4. s \in Installed
    BY <1>3 DEF TInv
  <1> HIDE DEF s
  <1>5. Core(w, kind, s, kids)
    BY <1>1, Writes
  <1> HIDE DEF w
  <1>6. Sound(u, kind, s, kids)
    BY <1>3, <1>5, PutAnswerSound
  <1> HIDE DEF u
  <1> QED
    BY <1>1, <1>2, <1>3, <1>4, <1>6, WriteMoves

LEMMA VerifyKeeps ==
    ASSUME TInv, NEW p \in Procs, NEW shape \in Shapes, Verify(p, shape)
    PROVE  TInv'
  <1>1. /\ Core(proc[p], kind, status, kids) /\ At(proc[p], kind) /\ proc[p].pc = "verify"
        /\ UNCHANGED <<kind, status, kids, others, runs>>
        /\ proc' = [proc EXCEPT ![p] = Judge(proc[p], shape, status)]
    BY Acts DEF Verify
  <1>2. kind = "redmine"
    BY <1>1 DEF At
  <1> QED
    BY <1>1, <1>2, JudgeSound, OneMoves

LEMMA TuplesAreSequences ==
    ASSUME NEW S
    PROVE  /\ <<>> \in Seq(S)
           /\ \A a \in S : <<a>> \in Seq(S)
           /\ \A a \in S, b \in S : <<a, b>> \in Seq(S)
           /\ \A a \in S, b \in S, c \in S : <<a, b, c>> \in Seq(S)
  OBVIOUS

LEMMA StepsToClimb ==
    ASSUME NEW s
    PROVE  CloseClimbSteps(s) \in Seq(Canonical)
  <1>1. CloseClimbSteps(s) \in {<<"In Progress", "In Review", "Resolved">>,
                                <<"In Review", "Resolved">>, <<>>, <<"Resolved">>}
    BY DEF CloseClimbSteps
  <1>2. /\ "In Progress" \in Canonical /\ "In Review" \in Canonical
        /\ "Resolved" \in Canonical
    BY DEF Canonical
  <1>3. /\ <<"In Progress", "In Review", "Resolved">> \in Seq(Canonical)
        /\ <<"In Review", "Resolved">> \in Seq(Canonical)
        /\ <<>> \in Seq(Canonical) /\ <<"Resolved">> \in Seq(Canonical)
    BY <1>2, TuplesAreSequences
  <1> QED
    BY <1>1, <1>3

\* A climb starts, finds the issue closed, or has nowhere to go.
LEMMA ClimbKeeps ==
    ASSUME TInv, NEW p \in Procs, NEW answered \in BOOLEAN, NEW shape \in Shapes,
           ClimbRead(p, answered, shape)
    PROVE  TInv'
  <1> DEFINE q == proc[p]
             r == [q EXCEPT !.read = status]
             steps == CloseClimbSteps(status)
             seen == VerifyCloseStatus(shape, status) = "confirmed"
             closed == [r EXCEPT !.pc = "closed"]
             first == [r EXCEPT !.job = "step", !.steps = steps, !.goal = Head(steps),
                                !.pc = "advance"]
             u == CASE ~answered -> End(r, RefusedByWorkflow)
                    [] answered /\ seen -> closed
                    [] answered /\ ~seen /\ steps = <<>> -> End(r, RefusedByWorkflow)
                    [] OTHER -> first
  <1>1. /\ Core(q, kind, status, kids) /\ At(q, kind) /\ q.pc = "climb"
        /\ UNCHANGED <<kind, status, kids, others, runs>>
        /\ proc' = [proc EXCEPT ![p] = u]
    BY Acts DEF ClimbRead
  <1>2. /\ kind = "redmine" /\ q.job = "direct" /\ q.op = "close" /\ q.target = CloseStatus
    BY <1>1 DEF At, Core
  <1>3. /\ IsCall(r)
        /\ r.pc = q.pc /\ r.op = q.op /\ r.target = q.target /\ r.job = q.job /\ r.goal = q.goal
        /\ r.steps = q.steps /\ r.marks = q.marks /\ r.res = q.res
    BY <1>1 DEF Core, IsCall
  <1> HIDE DEF r
  <1>4. Core(r, kind, status, kids)
    BY <1>1, <1>3 DEF Core
  <1>5. CASE ~answered \/ (answered /\ ~seen /\ steps = <<>>)
    <2>1. u = End(r, RefusedByWorkflow)
      BY <1>5
    <2> HIDE DEF u
    <2> QED
      BY <1>1, <1>4, <2>1, ErrorSound, OneMoves
  <1>6. CASE answered /\ seen
    <2>1. u = closed
      BY <1>6
    <2>2. /\ Core(closed, kind, status, kids)
          /\ closed.pc = "closed" /\ closed.job = r.job /\ closed.marks = r.marks
      BY <1>4, PcMoves
    <2>3. "hit" \in r.marks
      <3>1. status = CloseStatus \/ IsClosed(status)
        BY <1>6 DEF VerifyCloseStatus
      <3> QED
        BY <1>2, <1>3, <1>4, <3>1 DEF Core, Reached
    <2> HIDE DEF u, closed
    <2>4. At(closed, kind)
      BY <1>2, <2>2, <2>3 DEF At
    <2> QED
      BY <1>1, <2>1, <2>2, <2>4, OneMoves DEF Sound
  <1>7. CASE answered /\ ~seen /\ steps # <<>>
    <2>1. u = first
      BY <1>7
    <2>2. /\ IsCall(first)
          /\ first.pc = "advance" /\ first.op = r.op /\ first.target = r.target
          /\ first.job = "step" /\ first.goal = Head(steps) /\ first.steps = steps
          /\ first.marks = r.marks /\ first.res = r.res
      BY <1>3 DEF IsCall
    <2>3. steps \in Seq(Canonical) /\ steps # <<>>
      BY <1>7, StepsToClimb
    <2> HIDE DEF u, first, steps
    <2>4. Core(first, kind, status, kids)
      BY <1>2, <1>3, <1>4, <2>2, <2>3 DEF Core
    <2>5. At(first, kind)
      BY <1>2, <2>2 DEF At
    <2> QED
      BY <1>1, <2>1, <2>4, <2>5, OneMoves DEF Sound
  <1> QED
    BY <1>5, <1>6, <1>7

LEMMA ClimbClosedKeeps ==
    ASSUME TInv, NEW p \in Procs, NEW answered \in BOOLEAN, ClimbClosed(p, answered)
    PROVE  TInv'
  <1> DEFINE res == IF answered THEN "ok" ELSE RefusedByWorkflow
  <1>1. /\ Core(proc[p], kind, status, kids) /\ At(proc[p], kind) /\ proc[p].pc = "closed"
        /\ UNCHANGED <<kind, status, kids, others, runs>>
        /\ proc' = [proc EXCEPT ![p] = End(proc[p], res)]
    BY Acts DEF ClimbClosed
  <1>2. "hit" \in proc[p].marks
    BY <1>1 DEF At
  <1>3. res \in Results /\ res \notin RefusedUnwritten
    BY DEF Results, RefusedUnwritten, RefusedByWorkflow
  <1> HIDE DEF res
  <1>4. Ended(End(proc[p], res))
    BY <1>2, <1>3, EndSound
  <1> QED
    BY <1>1, <1>4, OneMoves DEF Sound

\* Forgejo's move: two reads, the dependencies of a close, and the PATCH.
LEMMA NativeReadsKeep ==
    ASSUME TInv, NEW p \in Procs, NativeFirst(p) \/ NativeDependencies(p) \/ NativeFresh(p)
    PROVE  TInv'
  <1> DEFINE r == proc[p]
  <1>1. /\ Core(r, kind, status, kids) /\ At(r, kind)
        /\ r.pc \in {"native_first", "native_deps", "native_fresh"}
        /\ UNCHANGED <<kind, status, kids, others, runs>>
    BY Acts DEF NativeFirst, NativeDependencies, NativeFresh
  <1>2. kind = "forgejo" /\ r.target \in Native /\ r.job \notin {"step", "final"}
    BY <1>1 DEF At, Core
  <1>3. "ok" \in Results /\ "children" \in Results /\ "ok" \notin RefusedUnwritten
        /\ "children" # "ok"
    BY DEF Results, RefusedUnwritten
  <1>4. CASE NativeFirst(p)
    <2> DEFINE pc == IF r.target = "Closed" THEN "native_deps" ELSE "native_fresh"
               u == [r EXCEPT !.read = status, !.pc = pc]
    <2>1. r.pc = "native_first" /\ "wrote" \notin r.marks
      BY <1>1, <1>2, <1>4 DEF NativeFirst, At
    <2>2. CASE status = r.target
      <3>1. proc' = [proc EXCEPT ![p] = End(r, "ok")]
        BY <1>4, <2>2 DEF NativeFirst
      <3>2. "hit" \in r.marks
        BY <1>1, <2>2 DEF Core, Reached
      <3>3. Ended(End(r, "ok"))
        BY <1>3, <3>2, EndSound
      <3> QED
        BY <1>1, <3>1, <3>3, OneMoves DEF Sound
    <2>3. CASE status # r.target
      <3>1. proc' = [proc EXCEPT ![p] = u]
        BY <1>4, <2>3 DEF NativeFirst
      <3>2. /\ IsCall(u)
            /\ u.pc = pc /\ u.op = r.op /\ u.target = r.target /\ u.job = r.job
            /\ u.goal = r.goal /\ u.steps = r.steps /\ u.marks = r.marks /\ u.res = r.res
        BY <1>1 DEF Core, IsCall
      <3> HIDE DEF u
      <3>3. Core(u, kind, status, kids)
        BY <1>1, <3>2 DEF Core
      <3>4. At(u, kind)
        BY <1>1, <1>2, <2>1, <3>2 DEF At
      <3> QED
        BY <1>1, <3>1, <3>3, <3>4, OneMoves DEF Sound
    <2> QED
      BY <2>2, <2>3
  <1>5. CASE NativeDependencies(p)
    <2> DEFINE u == [r EXCEPT !.pc = "native_fresh"]
    <2>1. r.pc = "native_deps" /\ "wrote" \notin r.marks
      BY <1>1, <1>2, <1>5 DEF NativeDependencies, At
    <2>2. CASE kids
      <3>1. proc' = [proc EXCEPT ![p] = End(r, "children")]
        BY <1>5, <2>2 DEF NativeDependencies
      <3>2. Ended(End(r, "children"))
        BY <1>3, <2>1, EndSound
      <3> QED
        BY <1>1, <3>1, <3>2, OneMoves DEF Sound
    <2>3. CASE ~kids
      <3>1. proc' = [proc EXCEPT ![p] = u]
        BY <1>5, <2>3 DEF NativeDependencies
      <3>2. /\ Core(u, kind, status, kids)
            /\ u.pc = "native_fresh" /\ u.target = r.target /\ u.job = r.job /\ u.marks = r.marks
        BY <1>1, PcMoves
      <3>3. "clear" \in r.marks
        BY <1>1, <2>3 DEF Core
      <3> HIDE DEF u
      <3>4. At(u, kind)
        BY <1>2, <3>2, <3>3 DEF At
      <3> QED
        BY <1>1, <3>1, <3>2, <3>4, OneMoves DEF Sound
    <2> QED
      BY <2>2, <2>3
  <1>6. CASE NativeFresh(p)
    <2> DEFINE u == [r EXCEPT !.pc = "native_patch"]
    <2>1. CASE status # r.read
      <3>1. proc' = [proc EXCEPT ![p] = End(r, "error")]
        BY <1>6, <2>1 DEF NativeFresh
      <3> QED
        BY <1>1, <3>1, ErrorSound, OneMoves
    <2>2. CASE status = r.read
      <3>1. proc' = [proc EXCEPT ![p] = u] /\ r.pc = "native_fresh"
        BY <1>6, <2>2 DEF NativeFresh
      <3>2. /\ Core(u, kind, status, kids)
            /\ u.pc = "native_patch" /\ u.target = r.target /\ u.job = r.job /\ u.marks = r.marks
        BY <1>1, PcMoves
      <3> HIDE DEF u
      <3>3. At(u, kind)
        BY <1>1, <1>2, <3>1, <3>2 DEF At
      <3> QED
        BY <1>1, <3>1, <3>2, <3>3, OneMoves DEF Sound
    <2> QED
      BY <2>1, <2>2
  <1> QED
    BY <1>4, <1>5, <1>6

LEMMA PatchKeeps ==
    ASSUME TInv, NEW p \in Procs, NEW outcome, NativePatch(p, outcome)
    PROVE  TInv'
  <1> DEFINE s == IF outcome \in {"applied", "lost"} THEN proc[p].target ELSE status
             w == Wrote(Moved(proc, s)[p])
             res == IF outcome \in {"applied", "ignored"} /\ s = w.target THEN "ok" ELSE "error"
  <1>1. proc[p].pc = "native_patch" /\ status' = s /\ UNCHANGED <<kind, kids, others, runs>>
    BY DEF NativePatch
  <1>2. kind = "forgejo" /\ proc[p].target \in Native
    <2>1. At(proc[p], kind)
      BY <1>1, Acts
    <2> QED
      BY <1>1, <2>1 DEF At
  <1>3. s \in Native
    BY <1>2 DEF TInv
  <1>4. Core(w, kind, s, kids) /\ w.target = proc[p].target
    BY <1>1, Writes
  <1>5. proc' = [Moved(proc, s) EXCEPT ![p] = End(w, res)]
    <2>1. DOMAIN Moved(proc, s) = Procs
      BY MovedSound
    <2>2. Moved(proc, s)[p].target = w.target
      BY <1>1, <1>4, MovedSound
    <2> QED
      BY <2>1, <2>2 DEF NativePatch
  <1> HIDE DEF s, w
  <1>6. res = "ok" => "hit" \in w.marks
    BY <1>4 DEF Core, Reached
  <1>7. res \in Results /\ res \notin RefusedUnwritten
    BY DEF Results, RefusedUnwritten
  <1> HIDE DEF res
  <1>8. Ended(End(w, res))
    BY <1>6, <1>7, EndSound
  <1>9. Sound(End(w, res), kind, s, kids)
    BY <1>8 DEF Sound
  <1> QED
    BY <1>1, <1>2, <1>3, <1>5, <1>9, WriteMoves

\* The local tracker: a read, and the UPDATE of the row.
LEMMA LocalCloseKeeps ==
    ASSUME TInv, NEW p \in Procs, LocalClose(p)
    PROVE  TInv'
  <1> DEFINE r == proc[p]
             u == [r EXCEPT !.read = status, !.pc = "local_write"]
             verdict == EvaluateTransition(status, "Closed")
  <1>1. /\ Core(r, kind, status, kids) /\ At(r, kind) /\ r.pc = "local_close"
        /\ UNCHANGED <<kind, status, kids, others, runs>>
    BY Acts DEF LocalClose
  <1>2. /\ kind = "local" /\ r.op = "close" /\ r.target = "Closed" /\ r.job # "step"
        /\ "wrote" \notin r.marks
    BY <1>1 DEF At, Core
  <1>3. "ok" \in Results /\ "forbidden" \in Results /\ "ok" \notin RefusedUnwritten
        /\ "forbidden" # "ok"
    BY DEF Results, RefusedUnwritten
  <1>4. CASE status = "Closed"
    <2>1. proc' = [proc EXCEPT ![p] = End(r, "ok")]
      <3>1. verdict # "allowed"
        BY <1>4 DEF EvaluateTransition
      <3> QED
        BY <1>4, <3>1 DEF LocalClose
    <2>2. "hit" \in r.marks
      BY <1>1, <1>2, <1>4 DEF Core, Reached
    <2>3. Ended(End(r, "ok"))
      BY <1>3, <2>2, EndSound
    <2> QED
      BY <1>1, <2>1, <2>3, OneMoves DEF Sound
  <1>5. CASE status # "Closed" /\ verdict = "allowed"
    <2>1. proc' = [proc EXCEPT ![p] = u]
      BY <1>5 DEF LocalClose
    <2>2. /\ IsCall(u)
          /\ u.pc = "local_write" /\ u.op = r.op /\ u.target = r.target /\ u.job = r.job
          /\ u.goal = r.goal /\ u.steps = r.steps /\ u.marks = r.marks /\ u.res = r.res
      BY <1>1 DEF Core, IsCall
    <2> HIDE DEF u
    <2>3. Core(u, kind, status, kids) /\ At(u, kind)
      BY <1>1, <1>2, <2>2 DEF At, Core
    <2> QED
      BY <1>1, <2>1, <2>3, OneMoves DEF Sound
  <1>6. CASE status # "Closed" /\ verdict # "allowed"
    <2>1. proc' = [proc EXCEPT ![p] = End(r, "forbidden")]
      BY <1>6 DEF LocalClose
    <2>2. Ended(End(r, "forbidden"))
      BY <1>2, <1>3, EndSound
    <2> QED
      BY <1>1, <2>1, <2>2, OneMoves DEF Sound
  <1> QED
    BY <1>4, <1>5, <1>6

LEMMA LocalWriteKeeps ==
    ASSUME TInv, NEW p \in Procs, LocalWrite(p)
    PROVE  TInv'
  <1> DEFINE s == proc[p].goal
             w == Wrote(Moved(proc, s)[p])
  <1>1. /\ Core(proc[p], kind, status, kids) /\ At(proc[p], kind) /\ proc[p].pc = "local_write"
        /\ UNCHANGED <<kind, kids, others, runs>>
    BY Acts DEF LocalWrite
  <1>2. kind = "local" /\ proc[p].goal = proc[p].target
    BY <1>1 DEF At, Core
  <1>3. CASE ~Selectable(s)
    <2>1. proc' = [proc EXCEPT ![p] = End(proc[p], "error")] /\ UNCHANGED status
      BY <1>3 DEF LocalWrite
    <2> QED
      BY <1>1, <2>1, ErrorSound, OneMoves
  <1>4. CASE Selectable(s)
    <2>1. /\ status' = s /\ proc' = [Moved(proc, s) EXCEPT ![p] = End(w, "ok")]
      <3>1. DOMAIN Moved(proc, s) = Procs
        BY MovedSound
      <3> QED
        BY <1>4, <3>1 DEF LocalWrite
    <2>2. s \in Installed
      BY <1>2, <1>4 DEF Selectable
    <2>3. Core(w, kind, s, kids) /\ w.target = proc[p].target
      BY <1>1, Writes
    <2> HIDE DEF w
    <2>4. "hit" \in w.marks
      BY <1>2, <2>3 DEF Core, Reached
    <2>5. "ok" \in Results /\ "ok" \notin RefusedUnwritten
      BY DEF Results, RefusedUnwritten
    <2>6. Ended(End(w, "ok"))
      BY <2>4, <2>5, EndSound
    <2>7. Sound(End(w, "ok"), kind, s, kids)
      BY <2>6 DEF Sound
    <2> HIDE DEF s
    <2> QED
      BY <1>1, <1>2, <2>1, <2>2, <2>7, WriteMoves
  <1> QED
    BY <1>3, <1>4

\* Other users move the issue and its children.
LEMMA OthersMoveKeeps ==
    ASSUME TInv, NEW s, OthersMove(s)
    PROVE  TInv'
  <1>1. /\ s \in IF kind = "forgejo" THEN Native ELSE Installed
        /\ status' = s /\ proc' = Moved(proc, s) /\ UNCHANGED <<kind, kids, runs>>
    BY DEF OthersMove
  <1>2. others' \in 0..MaxOthers
    BY TrackerAssumption DEF OthersMove, TInv
  <1>3. DOMAIN proc' = Procs /\ proc' = [p \in Procs |-> proc'[p]]
    BY <1>1 DEF Moved
  <1>4. \A q \in Procs : Sound(proc'[q], kind, s, kids)
    BY <1>1, MovedSound
  <1>5. \A q \in Procs : Sound(proc'[q], kind', status', kids')
    BY <1>1, <1>4, Zenon
  <1> QED
    BY <1>1, <1>2, <1>3, <1>5 DEF TInv

LEMMA OthersChildKeeps ==
    ASSUME TInv, OthersChild
    PROVE  TInv'
  <1>1. /\ UNCHANGED <<kind, status, runs>> /\ kids' \in BOOLEAN
        /\ proc' = [q \in Procs |-> IF proc[q].pc = "idle" THEN proc[q]
                                    ELSE [proc[q] EXCEPT !.marks = @ \cup Marked("clear", ~kids')]]
    BY DEF OthersChild, TInv
  <1>2. others' \in 0..MaxOthers
    BY TrackerAssumption DEF OthersChild, TInv
  <1>3. DOMAIN proc' = Procs /\ proc' = [p \in Procs |-> proc'[p]]
    BY <1>1
  <1>4. ASSUME NEW q \in Procs
        PROVE  Sound(proc'[q], kind, status, kids')
    <2>1. CASE proc[q].pc = "idle"
      <3>1. proc'[q] = proc[q]
        BY <1>1, <2>1
      <3>2. Ended(proc[q])
        BY <2>1 DEF TInv, Sound, At
      <3> QED
        BY <3>1, <3>2 DEF Sound
    <2>2. CASE proc[q].pc # "idle"
      <3> DEFINE r == proc[q]
                 m == r.marks \cup Marked("clear", ~kids')
                 u == [r EXCEPT !.marks = m]
      <3>1. proc'[q] = u
        BY <1>1, <2>2
      <3>2. Core(r, kind, status, kids) /\ At(r, kind)
        BY <2>2, Acts
      <3>3. /\ IsCall(u)
            /\ u.pc = r.pc /\ u.op = r.op /\ u.target = r.target /\ u.job = r.job
            /\ u.goal = r.goal /\ u.steps = r.steps /\ u.marks = m /\ u.res = r.res
        BY <3>2 DEF Core, IsCall
      <3>4. /\ "hit" \in r.marks => "hit" \in m
            /\ "clear" \in r.marks => "clear" \in m
            /\ ~kids' => "clear" \in m
            /\ "wrote" \in m => "wrote" \in r.marks
        BY DEF Marked
      <3> HIDE DEF m, u
      <3>5. Core(u, kind, status, kids')
        BY <3>2, <3>3, <3>4 DEF Core
      <3>6. At(u, kind)
        BY <3>2, <3>3, <3>4 DEF At
      <3> QED
        BY <3>1, <3>5, <3>6 DEF Sound
    <2> QED
      BY <2>1, <2>2
  <1>5. \A q \in Procs : Sound(proc'[q], kind', status', kids')
    BY <1>1, <1>4, Zenon
  <1> QED
    BY <1>1, <1>2, <1>3, <1>5 DEF TInv

-----------------------------------------------------------------------------
(* The theorems.                                                           *)

LEMMA StepKeeps ==
    ASSUME TInv, NEW p \in Procs, Step(p)
    PROVE  TInv'
  <1>1. CASE ReadFails(p)
    BY <1>1, ReadFailsKeeps
  <1>2. CASE StatusNext(p) \/ LocalNext(p) \/ NativeNext(p)
    BY <1>2, NextKeeps
  <1>3. CASE SelectTarget(p)
    BY <1>3, SelectKeeps
  <1>4. CASE AdvanceRead(p) \/ LocalAdvance(p) \/ AdvanceReadFails(p)
    BY <1>4, AdvanceKeeps
  <1>5. ASSUME NEW a \in BOOLEAN, ListOpenChildren(p, a) \/ ReadParent(p, a) \/ ClimbClosed(p, a)
        PROVE  TInv'
    BY <1>5, ChildrenKeep, ParentKeeps, ClimbClosedKeeps
  <1>6. ASSUME NEW o \in {"applied", "ignored"}, NEW h \in Shapes \cup {"empty"}, Put(p, o, h)
        PROVE  TInv'
    BY <1>6, PutKeeps
  <1>7. ASSUME NEW o \in {"refused", "failed", "lost"}, Put(p, o, "empty")
        PROVE  TInv'
    BY <1>7, PutKeeps
  <1>8. ASSUME NEW h \in Shapes, Verify(p, h)
        PROVE  TInv'
    BY <1>8, VerifyKeeps
  <1>9. ASSUME NEW a \in BOOLEAN, NEW h \in Shapes, ClimbRead(p, a, h)
        PROVE  TInv'
    BY <1>9, ClimbKeeps
  <1>10. CASE NativeFirst(p) \/ NativeDependencies(p) \/ NativeFresh(p)
    BY <1>10, NativeReadsKeep
  <1>11. ASSUME NEW o \in {"applied", "ignored", "failed", "lost"}, NativePatch(p, o)
         PROVE  TInv'
    BY <1>11, PatchKeeps
  <1>12. CASE LocalClose(p) \/ LocalWrite(p)
    BY <1>12, LocalCloseKeeps, LocalWriteKeeps
  <1> QED
    BY <1>1, <1>2, <1>3, <1>4, <1>5, <1>6, <1>7, <1>8, <1>9, <1>10, <1>11, <1>12 DEF Step

LEMMA NextInv ==
    ASSUME TInv, [Next]_vars
    PROVE  TInv'
  <1>1. ASSUME NEW p \in Procs, Step(p)
        PROVE  TInv'
    BY <1>1, StepKeeps
  <1>2. ASSUME NEW p \in Procs, NEW c \in Commands, Begin(p, c)
        PROVE  TInv'
    BY <1>2, BeginKeeps
  <1>3. ASSUME NEW s, OthersMove(s)
        PROVE  TInv'
    BY <1>3, OthersMoveKeeps
  <1>4. CASE OthersChild
    BY <1>4, OthersChildKeeps
  <1>5. CASE UNCHANGED vars
    BY <1>5 DEF vars, TInv
  <1> QED
    BY <1>1, <1>2, <1>3, <1>4, <1>5 DEF Next

(* In every state a running command is what its way so far made of it, and    *)
(* its history of the issue is up to date.                                    *)
THEOREM StatusKept == Spec => []TInv
  <1>1. Init => TInv
    BY InitInv
  <1>2. TInv /\ [Next]_vars => TInv'
    BY NextInv
  <1> QED
    BY <1>1, <1>2, PTL DEF Spec

\* The type invariant.
THEOREM TypeCorrect == Spec => []TypeOK
  <1>1. TInv => TypeOK
    <2>1. ASSUME TInv, NEW p \in Procs
          PROVE  /\ proc[p].res \in {None, "ok", "error", RefusedByWorkflow} \cup RefusedUnwritten
                 /\ Running(p) => proc[p].res = None
                 /\ proc[p].steps # <<>> <=> proc[p].job = "step"
      <3>1. CASE Ended(proc[p])
        BY <3>1 DEF Ended, Results, Running
      <3>2. CASE Core(proc[p], kind, status, kids)
        BY <3>2 DEF Core, Running
      <3> QED
        BY <2>1, <3>1, <3>2 DEF TInv, Sound
    <2> QED
      BY <2>1 DEF TInv, TypeOK
  <1> QED
    BY <1>1, StatusKept, PTL

(* A command of cli/status.rs or `issue close` that reports success has seen  *)
(* its target reached while it ran, or its tracker's answer showed no status. *)
THEOREM SuccessReal == Spec => []SuccessIsReal
  <1>1. TInv => SuccessIsReal
    <2>1. ASSUME TInv, NEW p \in Procs, proc[p].res = "ok"
          PROVE  proc[p].marks \cap {"hit", "trusted"} # {}
      <3>1. None # "ok"
        BY TrackerAssumption
      <3>2. Ended(proc[p])
        BY <2>1, <3>1 DEF TInv, Sound, Core
      <3> QED
        BY <2>1, <3>2 DEF Ended
    <2> QED
      BY <2>1 DEF SuccessIsReal
  <1> QED
    BY <1>1, StatusKept, PTL

(* The refusals whose message says that nothing was written ("rejected before *)
(* any write", "sent no parent status update") have sent no write, whatever   *)
(* reads came before them.                                                    *)
THEOREM RefusalClean == Spec => []RefusedBeforeAnyWrite
  <1>1. TInv => RefusedBeforeAnyWrite
    <2>1. ASSUME TInv, NEW p \in Procs, proc[p].res \in RefusedUnwritten
          PROVE  "wrote" \notin proc[p].marks
      <3>1. None \notin RefusedUnwritten
        BY TrackerAssumption DEF RefusedUnwritten
      <3>2. Ended(proc[p])
        BY <2>1, <3>1 DEF TInv, Sound, Core
      <3> QED
        BY <2>1, <3>2 DEF Ended
    <2> QED
      BY <2>1 DEF RefusedBeforeAnyWrite
  <1> QED
    BY <1>1, StatusKept, PTL

(* No status command and no `issue close` is about to write the close status  *)
(* unless the children (Forgejo: dependencies) left it free at some time of   *)
(* its run.                                                                   *)
THEOREM CloseChecked == Spec => []ClosePreflight
  <1>1. TInv => ClosePreflight
    <2>1. ASSUME TInv, NEW p \in Procs,
                 \/ proc[p].pc = "put" /\ proc[p].goal = CloseStatus /\ proc[p].job # "final"
                 \/ proc[p].pc = "native_patch" /\ proc[p].target = "Closed"
          PROVE  "clear" \in proc[p].marks
      <3>1. At(proc[p], kind)
        BY <2>1, Acts
      <3> QED
        BY <2>1, <3>1 DEF At
    <2> QED
      BY <2>1 DEF ClosePreflight
  <1> QED
    BY <1>1, StatusKept, PTL

(* A status command did what it says: it saw the success it reports, wrote    *)
(* nothing before the refusals that say so, and closes only what it checked.  *)
THEOREM MovesReal == Spec => []MovesAreReal
  BY SuccessReal, RefusalClean, CloseChecked, PTL DEF MovesAreReal
=============================================================================

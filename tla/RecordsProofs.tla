---------------------------- MODULE RecordsProofs ----------------------------
(***************************************************************************)
(* Proofs about the record commands, for any number of commands, requests, *)
(* issues and comments, writes that land late or never, and answers that   *)
(* are lost:                                                               *)
(*                                                                         *)
(*   AnswersAgree   a key has one meaning on an issue;                     *)
(*   WritesOnce     an invocation writes at most one comment;              *)
(*   BodyKept       a body file goes only when its text is on the issue.   *)
(*                                                                         *)
(* None of them is inductive.  Between the write and the confirming reads  *)
(* a command relies on what others may not do meanwhile, and the parts of  *)
(* RInv say what that is: a serial number is one command's (Serials), a    *)
(* write in flight is what its waiting sender asked for (Sent), and a      *)
(* command on its way to the deletion of its file has seen its text        *)
(* written (Held).                                                         *)
(***************************************************************************)
EXTENDS Records, TLAPS

Notes == [envelope : {"none", "broken", "record"},
          spec : {SpecOf(req) : req \in Requests} \cup {None},
          body : Texts \cup {None}]
Comments == [issue : {req.issue : req \in Requests}, serial : Nat, note : Notes]
Running == [pc : Steps, serial : Nat, req : Requests \cup {None},
            text : Texts \cup {None}, loaded : Texts \cup {None}, reads : Nat]

Types ==
    /\ provider \in Providers
    /\ comments \in Seq(Comments) /\ Len(comments) <= MaxComments
    /\ inflight \subseteq [by : Procs, what : Comments]
    /\ \A w \in inflight : w.what.note.envelope \in {"none", "record"}
    /\ file \in Texts \cup {None}
    /\ proc \in [Procs -> Running]
    /\ \A p \in Procs : /\ proc[p].reads <= RECOVERY_ATTEMPTS
                        /\ proc[p].pc = "idle" => proc[p] = Idle
                        /\ proc[p].pc # "idle" => proc[p].req \in Requests
                        /\ proc[p].pc \notin {"idle", "load"} => proc[p].text \in Texts
                        /\ proc[p].pc \in {"lookup", "confirm"} => proc[p].req.op # "comment"
    /\ calls \in 0..MaxCalls

\* The serial of a running command is its own, and until it sends its write
\* there is no comment of that serial, neither stored nor in flight.
Serials ==
    /\ \A p \in Procs : proc[p].pc # "idle" => proc[p].serial \in 1..calls
    /\ \A p, q \in Procs : /\ proc[p].pc # "idle" /\ proc[q].pc # "idle"
                           /\ proc[p].serial = proc[q].serial
                           => p = q
    /\ \A i \in DOMAIN comments : comments[i].serial \in 0..calls
    /\ \A w \in inflight : w.what.serial \in 1..calls
    /\ \A v, w \in inflight : v.what.serial = w.what.serial => v = w
    /\ \A w \in inflight, i \in DOMAIN comments : comments[i].serial # w.what.serial
    /\ \A p \in Procs :
          proc[p].pc \in {"load", "lookup", "send"} =>
            /\ \A i \in DOMAIN comments : comments[i].serial # proc[p].serial
            /\ \A w \in inflight : w.what.serial # proc[p].serial

\* A write in flight is the one its sender, while it still runs, asked for.
Sent == \A w \in inflight : proc[w.by].serial = w.what.serial => w.what = Content(w.by)

\* The text of p is on its issue.
OnIssue(p) == \E i \in Journal(proc[p].req.issue) : comments[i].note = Content(p).note
Held == \A p \in Procs : proc[p].pc \in {"posted", "cleanup", "unlink"} => OnIssue(p)

\* What an answer says is in the journal, under the key it was asked for.
Truth ==
    \A a \in answers :
        /\ a.id \in Journal(a.issue)
        /\ SameRequest(comments[a.id].note, a.spec, a.body)
        /\ a.spec.key = a.key
        /\ \A b \in answers : a.issue = b.issue /\ a.key = b.key => a.id = b.id

RInv == Types /\ Serials /\ WritesOnce /\ Sent /\ Held /\ Truth

-----------------------------------------------------------------------------
(* Operators.                                                              *)

\* Classify answers "match" only for the one record of the key, which is then
\* the owner and what the request asks for.
LEMMA MatchIsOwner ==
    ASSUME NEW issue, NEW spec, NEW text, Classify(issue, spec, text) = "match"
    PROVE  /\ OwnedByKey(issue, spec.key) = {Owner(issue, spec.key)}
           /\ SameRequest(comments[Owner(issue, spec.key)].note, spec, text)
  <1> DEFINE owned == OwnedByKey(issue, spec.key)
  <1>1. owned # {}
    BY DEF Classify
  <1>2. \E i \in owned : owned = {i} /\ SameRequest(comments[i].note, spec, text)
    <2>1. CASE \E i \in owned : owned = {i} /\ SameRequest(comments[i].note, spec, text)
      BY <2>1
    <2>2. CASE ~\E i \in owned : owned = {i} /\ SameRequest(comments[i].note, spec, text)
      BY <1>1, <2>2 DEF Classify
    <2> QED
      BY <2>1, <2>2
  <1>3. PICK i \in owned : owned = {i} /\ SameRequest(comments[i].note, spec, text)
    BY <1>2
  <1>4. Owner(issue, spec.key) = i
    BY <1>3 DEF Owner
  <1> QED
    BY <1>3, <1>4

\* What appending does to a sequence.
LEMMA Appended ==
    ASSUME NEW S, NEW s \in Seq(S), NEW x \in S
    PROVE  /\ Append(s, x) \in Seq(S)
           /\ Len(Append(s, x)) = Len(s) + 1
           /\ DOMAIN Append(s, x) = DOMAIN s \cup {Len(s) + 1}
           /\ Len(s) + 1 \notin DOMAIN s
           /\ \A i \in DOMAIN s : Append(s, x)[i] = s[i]
           /\ Append(s, x)[Len(s) + 1] = x
  OBVIOUS

\* The journal only grows.
Grows == \A i \in DOMAIN comments : i \in DOMAIN comments' /\ comments'[i] = comments[i]

LEMMA TruthGrows ==
    ASSUME Truth, Grows, answers' = answers
    PROVE  Truth'
  BY DEF Truth, Grows, Journal, SameRequest, EncodeBody

\* An answer by the owner of its key is true and agrees with those before it.
LEMMA TruthSucceeds ==
    ASSUME RInv, NEW p \in Procs, proc[p].pc \in {"lookup", "confirm"},
           comments' = comments,
           Classify(proc[p].req.issue, SpecOf(proc[p].req), proc[p].text) = "match",
           Succeed(p, Owner(proc[p].req.issue, proc[p].req.key))
    PROVE  /\ Truth'
           /\ OnIssue(p)
  <1> DEFINE req == proc[p].req
             id  == Owner(req.issue, req.key)
             new == [issue |-> req.issue, key |-> req.key, id |-> id,
                     spec |-> SpecOf(req), body |-> proc[p].text]
  <1>1. SpecOf(req).key = req.key
    BY DEF SpecOf
  <1>2. /\ OwnedByKey(req.issue, req.key) = {id}
        /\ SameRequest(comments[id].note, SpecOf(req), proc[p].text)
    BY <1>1, MatchIsOwner
  <1>3. id \in Journal(req.issue)
    BY <1>2 DEF OwnedByKey, RecordIds
  <1>4. answers' = answers \cup {new}
    BY DEF Succeed
  <1>5. ASSUME NEW a \in answers, a.issue = req.issue, a.key = req.key
        PROVE  a.id = id
    <2>1. a.id \in Journal(req.issue) /\ comments[a.id].note = EncodeBody(a.spec, a.body)
          /\ a.spec.key = req.key
      BY <1>5 DEF RInv, Truth, SameRequest
    <2>2. a.id \in OwnedByKey(req.issue, req.key)
      BY <2>1 DEF OwnedByKey, RecordIds, EncodeBody
    <2> QED
      BY <1>2, <2>2
  <1>6. Truth'
    <2> SUFFICES ASSUME NEW a \in answers'
                 PROVE  /\ a.id \in Journal(a.issue)
                        /\ SameRequest(comments[a.id].note, a.spec, a.body)
                        /\ a.spec.key = a.key
                        /\ \A b \in answers' : a.issue = b.issue /\ a.key = b.key => a.id = b.id
      BY DEF Truth, Journal, SameRequest, EncodeBody
    <2>1. CASE a \in answers
      BY <1>4, <1>5, <2>1 DEF RInv, Truth
    <2>2. CASE a = new
      BY <1>1, <1>2, <1>3, <1>4, <1>5, <2>2
    <2> QED
      BY <1>4, <2>1, <2>2
  <1>7. OnIssue(p)
    <2>1. req.op # "comment"
      BY DEF RInv, Types
    <2> QED
      BY <1>2, <1>3, <2>1 DEF OnIssue, Content, SameRequest
  <1> QED
    BY <1>6, <1>7

-----------------------------------------------------------------------------
(* A step that writes no comment and starts no call.                       *)

\* p goes on as r: it ends, or it keeps its call.
Goes(p, r) ==
    /\ r \in Running
    /\ r.reads <= RECOVERY_ATTEMPTS
    /\ \/ r = Idle
       \/ /\ proc[p].pc # "idle" /\ r.pc # "idle"
          /\ r.serial = proc[p].serial /\ r.req = proc[p].req
          /\ r.pc # "load" /\ r.text \in Texts
          /\ r.text = proc[p].text \/ proc[p].pc = "load"
          /\ r.pc \in {"lookup", "send"} => proc[p].pc \in {"load", "lookup"}
          /\ r.pc \in {"lookup", "confirm"} => proc[p].req.op # "comment"

LEMMA MoveTypes ==
    ASSUME RInv, NEW p \in Procs, NEW r, Goes(p, r), proc' = [proc EXCEPT ![p] = r],
           UNCHANGED <<provider, comments, calls>>, inflight' \subseteq inflight,
           file' \in Texts \cup {None}
    PROVE  Types'
  <1>1. proc' \in [Procs -> Running]
    BY DEF RInv, Types, Goes
  <1>2. ASSUME NEW q \in Procs
        PROVE  /\ proc'[q].reads <= RECOVERY_ATTEMPTS
               /\ proc'[q].pc = "idle" => proc'[q] = Idle
               /\ proc'[q].pc # "idle" => proc'[q].req \in Requests
               /\ proc'[q].pc \notin {"idle", "load"} => proc'[q].text \in Texts
               /\ proc'[q].pc \in {"lookup", "confirm"} => proc'[q].req.op # "comment"
    <2>1. CASE q # p
      BY <2>1 DEF RInv, Types
    <2>2. CASE q = p
      <3>1. proc'[q] = r
        BY <2>2 DEF RInv, Types
      <3>2. CASE r = Idle
        BY <3>1, <3>2 DEF Goes, Idle
      <3>3. CASE r # Idle
        BY <3>1, <3>3, <2>2 DEF Goes, RInv, Types
      <3> QED
        BY <3>2, <3>3
    <2> QED
      BY <2>1, <2>2
  <1> QED
    BY <1>1, <1>2 DEF RInv, Types

LEMMA MoveSerials ==
    ASSUME RInv, NEW p \in Procs, NEW r, Goes(p, r), proc' = [proc EXCEPT ![p] = r],
           UNCHANGED <<comments, calls>>, inflight' \subseteq inflight
    PROVE  Serials' /\ WritesOnce'
  <1>1. \A q \in Procs : proc'[q] = IF q = p THEN r ELSE proc[q]
    BY DEF RInv, Types
  <1>2. \A q \in Procs : proc'[q].pc # "idle" => /\ proc[q].pc # "idle"
                                                 /\ proc'[q].serial = proc[q].serial
    BY <1>1 DEF Goes, Idle
  <1>3. \A q \in Procs : proc'[q].pc \in {"load", "lookup", "send"} =>
                           proc[q].pc \in {"load", "lookup", "send"}
    BY <1>1 DEF Goes, Idle
  <1>4. WritesOnce'
    BY DEF RInv, WritesOnce
  <1>5. Serials'
    BY <1>2, <1>3 DEF RInv, Serials
  <1> QED
    BY <1>4, <1>5

LEMMA MoveSent ==
    ASSUME RInv, NEW p \in Procs, NEW r, Goes(p, r), proc' = [proc EXCEPT ![p] = r],
           inflight' \subseteq inflight
    PROVE  Sent'
  <1> SUFFICES ASSUME NEW w \in inflight', proc'[w.by].serial = w.what.serial
               PROVE  w.what = Content(w.by)'
    BY DEF Sent
  <1>1. w \in inflight /\ w.by \in Procs /\ w.what.serial \in 1..calls
    BY DEF RInv, Types, Serials
  <1>2. \A q \in Procs : proc'[q] = IF q = p THEN r ELSE proc[q]
    BY DEF RInv, Types
  <1>3. CASE w.by # p
    <2>1. w.what = Content(w.by)
      BY <1>1, <1>2, <1>3 DEF RInv, Sent
    <2> QED
      BY <1>1, <1>2, <1>3, <2>1 DEF Content
  <1>4. CASE w.by = p
    <2>1. r # Idle
      BY <1>1, <1>2, <1>4 DEF Idle, RInv, Types
    <2>2. proc[p].serial = w.what.serial
      BY <1>1, <1>2, <1>4, <2>1 DEF Goes
    <2>3. proc[p].pc # "load"
      BY <1>1, <2>2 DEF RInv, Serials
    <2>4. w.what = Content(p)
      BY <1>1, <1>4, <2>2 DEF RInv, Sent
    <2> QED
      BY <1>1, <1>2, <1>4, <2>1, <2>3, <2>4 DEF Goes, Content
  <1> QED
    BY <1>3, <1>4

\* A command is on the way to deleting its file only if its text is written,
\* and it stays written.
LEMMA MoveHeld ==
    ASSUME RInv, NEW p \in Procs, NEW r, Goes(p, r), proc' = [proc EXCEPT ![p] = r], Grows,
           r.pc \in {"posted", "cleanup", "unlink"} =>
             /\ r.text = proc[p].text
             /\ \E i \in DOMAIN comments' : /\ comments'[i].issue = proc[p].req.issue
                                            /\ comments'[i].note = Content(p).note
    PROVE  Held'
  <1> SUFFICES ASSUME NEW q \in Procs, proc'[q].pc \in {"posted", "cleanup", "unlink"}
               PROVE  OnIssue(q)'
    BY DEF Held
  <1>1. proc'[q] = IF q = p THEN r ELSE proc[q]
    BY DEF RInv, Types
  <1>2. CASE q # p
    <2>1. OnIssue(q)
      BY <1>1, <1>2 DEF RInv, Held
    <2> QED
      BY <1>1, <1>2, <2>1 DEF OnIssue, Journal, Content, Grows
  <1>3. CASE q = p
    <2>1. r # Idle
      BY <1>1, <1>3 DEF Idle
    <2>2. /\ r.req = proc[p].req /\ r.text = proc[p].text
          /\ \E i \in DOMAIN comments' : /\ comments'[i].issue = proc[p].req.issue
                                         /\ comments'[i].note = Content(p).note
      BY <1>1, <1>3, <2>1 DEF Goes
    <2>3. Content(q)'.note = Content(p).note /\ proc'[q].req.issue = proc[p].req.issue
      BY <1>1, <1>3, <2>2 DEF Content
    <2> QED
      BY <2>2, <2>3 DEF OnIssue, Journal
  <1> QED
    BY <1>2, <1>3

LEMMA Move ==
    ASSUME RInv, NEW p \in Procs, NEW r, Goes(p, r), proc' = [proc EXCEPT ![p] = r],
           UNCHANGED <<provider, comments, calls>>, inflight' \subseteq inflight,
           file' \in Texts \cup {None}, Truth',
           r.pc \in {"posted", "cleanup", "unlink"} => r.text = proc[p].text /\ OnIssue(p)
    PROVE  RInv'
  <1>1. Grows
    BY DEF Grows
  <1>2. Held'
    BY <1>1, MoveHeld DEF OnIssue, Journal
  <1> QED
    BY <1>2, MoveTypes, MoveSerials, MoveSent DEF RInv

-----------------------------------------------------------------------------
(* The steps.                                                              *)

\* A command that ends is idle, which is a move.
LEMMA EndMoves ==
    ASSUME NEW p \in Procs
    PROVE  /\ Goes(p, Idle)
           /\ Idle \in Running /\ Idle.pc = "idle" /\ Idle.serial = 0 /\ Idle.reads = 0
  BY RecordConstants DEF Goes, Running, Steps, Idle

LEMMA FinishMoves ==
    ASSUME RInv, NEW p \in Procs, Finish(p),
           UNCHANGED <<provider, comments, calls>>, inflight' \subseteq inflight,
           file' \in Texts \cup {None}, Truth'
    PROVE  RInv'
  <1>1. Goes(p, Idle) /\ Idle.pc \notin {"posted", "cleanup", "unlink"}
    BY EndMoves
  <1> QED
    BY <1>1, Move DEF Finish

\* Where a write that succeeded leaves the command.
LEMMA SuccessMoves ==
    ASSUME RInv, NEW p \in Procs, AfterSuccess(p), proc[p].pc \notin {"idle", "load"}
    PROVE  \E r : /\ Goes(p, r) /\ proc' = [proc EXCEPT ![p] = r]
                  /\ r.pc \in {"idle", "cleanup"}
                  /\ r.pc = "cleanup" => r.text = proc[p].text
  <1>1. CASE proc[p].loaded = None
    <2>1. proc' = [proc EXCEPT ![p] = Idle]
      BY <1>1 DEF AfterSuccess, Finish
    <2>2. Goes(p, Idle) /\ Idle.pc = "idle"
      BY EndMoves
    <2> QED
      BY <2>1, <2>2
  <1>2. CASE proc[p].loaded # None
    <2> DEFINE r == [proc[p] EXCEPT !.pc = "cleanup"]
    <2>1. proc' = [proc EXCEPT ![p] = r]
      BY <1>2 DEF AfterSuccess, Goto
    <2>2. Goes(p, r)
      BY DEF Goes, RInv, Types, Running, Steps
    <2>3. r.pc = "cleanup" /\ r.text = proc[p].text
      BY DEF RInv, Types, Running
    <2> QED
      BY <2>1, <2>2, <2>3
  <1> QED
    BY <1>1, <1>2

LEMMA WriteMoves ==
    ASSUME RInv, NEW p \in Procs, NEW outcome, AfterWrite(p, outcome),
           proc[p].pc \notin {"idle", "load"}
    PROVE  \E r : /\ Goes(p, r) /\ proc' = [proc EXCEPT ![p] = r]
                  /\ r.pc \in {"idle", "confirm", "cleanup"}
                  /\ r.pc = "cleanup" => r.text = proc[p].text /\ outcome = "ok"
  <1>1. CASE outcome = "certain" \/ (outcome # "ok" /\ proc[p].req.op # "record")
    <2>1. proc' = [proc EXCEPT ![p] = Idle]
      BY <1>1 DEF AfterWrite, Finish
    <2>2. Goes(p, Idle) /\ Idle.pc = "idle"
      BY EndMoves
    <2> QED
      BY <2>1, <2>2
  <1>2. CASE outcome # "certain" /\ proc[p].req.op = "record"
    <2> DEFINE r == [proc[p] EXCEPT !.pc = "confirm", !.reads = 0]
    <2>1. proc' = [proc EXCEPT ![p] = r]
      BY <1>2 DEF AfterWrite, RInv, Types, Running
    <2>0. proc[p] \in Running
      BY DEF RInv, Types
    <2>2. r \in Running /\ r.reads = 0 /\ r.pc = "confirm"
      BY <2>0 DEF Running, Steps
    <2>5. 0 <= RECOVERY_ATTEMPTS
      BY RecordConstants
    <2>3. /\ r.serial = proc[p].serial /\ r.req = proc[p].req /\ r.text = proc[p].text
          /\ proc[p].text \in Texts
      BY DEF RInv, Types, Running
    <2>4. Goes(p, r)
      BY <1>2, <2>2, <2>3, <2>5 DEF Goes
    <2> QED
      BY <2>1, <2>2, <2>4
  <1>3. CASE outcome = "ok" /\ proc[p].req.op # "record"
    <2>1. AfterSuccess(p)
      BY <1>3 DEF AfterWrite
    <2> QED
      BY <1>3, <2>1, SuccessMoves
  <1> QED
    BY <1>1, <1>2, <1>3

LEMMA StartKeeps ==
    ASSUME RInv, NEW p \in Procs, Start(p)
    PROVE  RInv'
  <1> USE DEF RInv
  <1>1. PICK req \in Requests :
          proc' = [proc EXCEPT ![p] =
            IF Authorized(req)
            THEN [Idle EXCEPT !.pc = "load", !.serial = calls + 1, !.req = req]
            ELSE Idle]
    BY DEF Start
  <1> DEFINE r == IF Authorized(req)
                  THEN [Idle EXCEPT !.pc = "load", !.serial = calls + 1, !.req = req]
                  ELSE Idle
  <1>2. /\ UNCHANGED <<provider, comments, inflight, file, answers>>
        /\ proc[p].pc = "idle" /\ calls < MaxCalls /\ calls' = calls + 1 /\ calls \in Nat
    BY RecordConstants DEF Start, Types
  <1>3. proc' = [proc EXCEPT ![p] = r] /\ \A q \in Procs : proc'[q] = IF q = p THEN r ELSE proc[q]
    BY <1>1 DEF Types
  <1> HIDE DEF r
  <1>4. /\ r \in Running /\ r.reads = 0
        /\ r.pc \in {"idle", "load"} /\ (r.pc = "idle" => r = Idle)
        /\ r.pc = "load" => r.serial = calls + 1 /\ r.req \in Requests
        /\ r.serial \in {0, calls + 1}
    <2>1. CASE ~Authorized(req)
      BY <2>1, EndMoves DEF r
    <2>2. CASE Authorized(req)
      <3>1. r = [pc |-> "load", serial |-> calls + 1, req |-> req, text |-> None,
                 loaded |-> None, reads |-> 0]
        BY <2>2 DEF Idle, r
      <3> QED
        BY <1>2, <3>1 DEF Running, Steps
    <2> QED
      BY <2>1, <2>2
  <1>5. Types'
    <2>1. proc' \in [Procs -> Running]
      BY <1>3, <1>4 DEF Types
    <2>2. calls' \in 0..MaxCalls
      BY <1>2, RecordConstants
    <2>3. ASSUME NEW q \in Procs
          PROVE  /\ proc'[q].reads <= RECOVERY_ATTEMPTS
                 /\ proc'[q].pc = "idle" => proc'[q] = Idle
                 /\ proc'[q].pc # "idle" => proc'[q].req \in Requests
                 /\ proc'[q].pc \notin {"idle", "load"} => proc'[q].text \in Texts
                 /\ proc'[q].pc \in {"lookup", "confirm"} => proc'[q].req.op # "comment"
      BY <1>3, <1>4, RecordConstants DEF Types
    <2> QED
      BY <1>2, <2>1, <2>2, <2>3 DEF Types
  <1>6. Serials'
    BY <1>2, <1>3, <1>4 DEF Serials, Types
  <1>7. WritesOnce' /\ Truth'
    BY <1>2, TruthGrows DEF WritesOnce, Grows
  <1>8. Sent'
    <2> SUFFICES ASSUME NEW w \in inflight, proc'[w.by].serial = w.what.serial
                 PROVE  w.what = Content(w.by)'
      BY <1>2 DEF Sent
    <2>1. w.by \in Procs /\ w.what.serial \in 1..calls
      BY DEF Types, Serials
    <2>2. w.by # p
      BY <1>2, <1>3, <1>4, <2>1
    <2> QED
      BY <1>3, <2>1, <2>2 DEF Sent, Content
  <1>9. Held'
    <2> SUFFICES ASSUME NEW q \in Procs, proc'[q].pc \in {"posted", "cleanup", "unlink"}
                 PROVE  OnIssue(q)'
      BY DEF Held
    <2>1. q # p /\ proc'[q] = proc[q]
      BY <1>3, <1>4
    <2> QED
      BY <1>2, <2>1 DEF Held, OnIssue, Journal, Content
  <1> QED
    BY <1>5, <1>6, <1>7, <1>8, <1>9

LEMMA ResolveKeeps ==
    ASSUME RInv, NEW p \in Procs, ResolveProvider(p)
    PROVE  RInv'
  <1>1. /\ UNCHANGED <<provider, comments, inflight, file, answers, calls>>
        /\ proc[p].pc = "load"
    BY DEF ResolveProvider
  <1>2. Truth' /\ file' \in Texts \cup {None}
    BY <1>1, TruthGrows DEF RInv, Types, Grows
  <1>3. CASE Finish(p)
    BY <1>1, <1>2, <1>3, FinishMoves
  <1>4. ASSUME NEW text \in Texts,
               proc' = [proc EXCEPT
                   ![p].pc = IF proc[p].req.op = "comment" THEN "send" ELSE "lookup",
                   ![p].text = text,
                   ![p].loaded = IF proc[p].req.body = "file" THEN text ELSE None]
        PROVE  RInv'
    <2> DEFINE r == [proc[p] EXCEPT
                       !.pc = IF proc[p].req.op = "comment" THEN "send" ELSE "lookup",
                       !.text = text,
                       !.loaded = IF proc[p].req.body = "file" THEN text ELSE None]
    <2>1. proc' = [proc EXCEPT ![p] = r]
      BY <1>4 DEF RInv, Types, Running
    <2>2. Goes(p, r) /\ r.pc \in {"send", "lookup"}
      BY <1>1 DEF Goes, RInv, Types, Running, Steps
    <2> QED
      BY <1>1, <1>2, <2>1, <2>2, Move
  <1> QED
    BY <1>3, <1>4 DEF ResolveProvider

\* The first read and the confirming ones.
LEMMA ReadKeeps ==
    ASSUME RInv, NEW p \in Procs, Lookup(p) \/ Confirm(p)
    PROVE  RInv'
  <1>1. /\ UNCHANGED <<provider, comments, inflight, file, calls>>
        /\ proc[p].pc \in {"lookup", "confirm"}
    BY DEF Lookup, Confirm
  <1>2. file' \in Texts \cup {None} /\ proc[p] \in Running /\ proc[p].text \in Texts
    BY <1>1 DEF RInv, Types
  <1>3. ASSUME UNCHANGED answers PROVE Truth'
    BY <1>1, <1>3, TruthGrows DEF RInv, Grows
  <1>4. CASE Finish(p) /\ UNCHANGED answers
    BY <1>1, <1>2, <1>3, <1>4, FinishMoves
  <1>5. CASE /\ Classify(proc[p].req.issue, SpecOf(proc[p].req), proc[p].text) = "match"
             /\ Succeed(p, Owner(proc[p].req.issue, proc[p].req.key))
    <2>1. Truth' /\ OnIssue(p)
      BY <1>1, <1>5, TruthSucceeds
    <2>2. AfterSuccess(p)
      BY <1>5 DEF Succeed
    <2>3. PICK r : /\ Goes(p, r) /\ proc' = [proc EXCEPT ![p] = r]
                   /\ r.pc \in {"idle", "cleanup"}
                   /\ r.pc = "cleanup" => r.text = proc[p].text
      BY <1>1, <2>2, SuccessMoves
    <2> QED
      BY <1>1, <1>2, <2>1, <2>3, Move
  <1>6. CASE proc[p].pc = "lookup" /\ Goto(p, "send") /\ UNCHANGED answers
    <2> DEFINE r == [proc[p] EXCEPT !.pc = "send"]
    <2>1. proc' = [proc EXCEPT ![p] = r]
      BY <1>6 DEF Goto
    <2>2. r \in Running /\ r.pc = "send" /\ r.reads = proc[p].reads
          /\ r.serial = proc[p].serial /\ r.req = proc[p].req /\ r.text = proc[p].text
      BY <1>2 DEF Running, Steps
    <2>3. Goes(p, r)
      BY <1>2, <1>6, <2>2 DEF Goes, RInv, Types
    <2> QED
      BY <1>1, <1>2, <1>3, <1>6, <2>1, <2>2, <2>3, Move
  <1>7. CASE /\ proc[p].pc = "confirm" /\ proc[p].reads < RECOVERY_ATTEMPTS
             /\ proc' = [proc EXCEPT ![p].reads = @ + 1] /\ UNCHANGED answers
    <2> DEFINE r == [proc[p] EXCEPT !.reads = @ + 1]
    <2>1. proc' = [proc EXCEPT ![p] = r]
      BY <1>7
    <2>2. r \in Running /\ r.pc = "confirm" /\ r.reads <= RECOVERY_ATTEMPTS
          /\ r.serial = proc[p].serial /\ r.req = proc[p].req /\ r.text = proc[p].text
      BY <1>2, <1>7, RecordConstants DEF Running
    <2>3. Goes(p, r)
      BY <1>2, <1>7, <2>2 DEF Goes, RInv, Types
    <2> QED
      BY <1>1, <1>2, <1>3, <1>7, <2>1, <2>2, <2>3, Move
  <1>8. CASE Lookup(p)
    BY <1>4, <1>5, <1>6, <1>8 DEF Lookup
  <1>9. CASE Confirm(p)
    BY <1>4, <1>5, <1>7, <1>9 DEF Confirm
  <1> QED
    BY <1>8, <1>9

\* The client stops waiting, or gets its answer.
LEMMA AnswerKeeps ==
    ASSUME RInv, NEW p \in Procs, GiveUp(p) \/ Answered(p)
    PROVE  RInv'
  <1>1. /\ UNCHANGED <<provider, comments, inflight, file, answers, calls>>
        /\ proc[p].pc \in {"wait", "posted"}
    BY DEF GiveUp, Answered
  <1>2. Truth' /\ file' \in Texts \cup {None}
    BY <1>1, TruthGrows DEF RInv, Types, Grows
  <1>3. PICK outcome : AfterWrite(p, outcome) /\ (outcome = "ok" => proc[p].pc = "posted")
    BY DEF GiveUp, Answered
  <1>4. PICK r : /\ Goes(p, r) /\ proc' = [proc EXCEPT ![p] = r]
                 /\ r.pc \in {"idle", "confirm", "cleanup"}
                 /\ r.pc = "cleanup" => r.text = proc[p].text /\ outcome = "ok"
    BY <1>1, <1>3, WriteMoves
  <1>5. r.pc = "cleanup" => OnIssue(p)
    BY <1>3, <1>4 DEF RInv, Held
  <1> QED
    BY <1>1, <1>2, <1>4, <1>5, Move

LEMMA RefuseKeeps ==
    ASSUME RInv, NEW w \in inflight, Refuse(w)
    PROVE  RInv'
  <1>1. /\ UNCHANGED <<provider, comments, file, answers, calls>>
        /\ inflight' \subseteq inflight /\ w.by \in Procs
    BY DEF Refuse, RInv, Types
  <1>2. Truth' /\ file' \in Texts \cup {None}
    BY <1>1, TruthGrows DEF RInv, Types, Grows
  <1>3. CASE UNCHANGED proc
    BY <1>1, <1>2, <1>3
       DEF RInv, Types, Serials, WritesOnce, Sent, Held, OnIssue, Journal, Content
  <1>4. CASE AwaitedBy(w) /\ AfterWrite(w.by, "certain")
    BY <1>1, <1>2, <1>4, FinishMoves DEF AfterWrite
  <1> QED
    BY <1>3, <1>4 DEF Refuse

LEMMA CleanupKeeps ==
    ASSUME RInv, NEW p \in Procs, CleanupAfterSuccess(p) \/ Unlink(p)
    PROVE  RInv'
  <1>1. /\ UNCHANGED <<provider, comments, inflight, answers, calls>>
        /\ proc[p].pc \in {"cleanup", "unlink"}
        /\ file' \in Texts \cup {None}
    BY DEF CleanupAfterSuccess, Unlink, RInv, Types
  <1>2. Truth'
    BY <1>1, TruthGrows DEF RInv, Grows
  <1>3. CASE Finish(p)
    BY <1>1, <1>2, <1>3, FinishMoves
  <1>4. CASE Goto(p, "unlink")
    <2> DEFINE r == [proc[p] EXCEPT !.pc = "unlink"]
    <2>1. proc' = [proc EXCEPT ![p] = r]
      BY <1>4 DEF Goto
    <2>2. proc[p] \in Running /\ proc[p].text \in Texts
      BY <1>1 DEF RInv, Types
    <2>3. r \in Running /\ r.pc = "unlink" /\ r.reads = proc[p].reads
          /\ r.serial = proc[p].serial /\ r.req = proc[p].req /\ r.text = proc[p].text
      BY <2>2 DEF Running, Steps
    <2>4. Goes(p, r)
      BY <1>1, <2>2, <2>3 DEF Goes, RInv, Types
    <2>5. OnIssue(p)
      BY <1>1 DEF RInv, Held
    <2> QED
      BY <1>1, <1>2, <2>1, <2>3, <2>4, <2>5, Move
  <1> QED
    BY <1>3, <1>4 DEF CleanupAfterSuccess, Unlink

-----------------------------------------------------------------------------
(* The write.                                                              *)

LEMMA SendKeeps ==
    ASSUME RInv, NEW p \in Procs, Send(p)
    PROVE  RInv'
  <1> USE DEF RInv
  <1> DEFINE r == [proc[p] EXCEPT !.pc = "wait"]
             w == [by |-> p, what |-> Content(p)]
  <1>1. /\ UNCHANGED <<provider, comments, file, answers, calls>>
        /\ proc[p].pc = "send" /\ inflight' = inflight \cup {w}
        /\ proc' = [proc EXCEPT ![p] = r]
    BY DEF Send, Goto
  <1>2. /\ proc[p] \in Running /\ proc[p].text \in Texts /\ proc[p].req \in Requests
        /\ proc[p].serial \in 1..calls /\ calls \in Nat
    BY <1>1 DEF Types, Serials
  <1>3. /\ r \in Running /\ r.pc = "wait" /\ r.reads = proc[p].reads
        /\ r.serial = proc[p].serial /\ r.req = proc[p].req /\ r.text = proc[p].text
    BY <1>2 DEF Running, Steps
  <1>4. \A q \in Procs : proc'[q] = IF q = p THEN r ELSE proc[q]
    BY <1>1 DEF Types
  <1>5. Content(p) \in Comments /\ Content(p).serial = proc[p].serial
        /\ Content(p).note.envelope \in {"none", "record"}
    BY <1>2 DEF Content, Comments, Notes, Ordinary, EncodeBody, Running
  <1>6. \A q \in Procs : Content(q)' = Content(q)
    BY <1>3, <1>4 DEF Content
  <1> HIDE DEF r
  <1>7. Types'
    <2>1. proc' \in [Procs -> Running]
      BY <1>1, <1>3 DEF Types
    <2>2. inflight' \subseteq [by : Procs, what : Comments]
      BY <1>1, <1>5 DEF Types
    <2>3. \A v \in inflight' : v.what.note.envelope \in {"none", "record"}
      BY <1>1, <1>5 DEF Types
    <2>4. ASSUME NEW q \in Procs
          PROVE  /\ proc'[q].reads <= RECOVERY_ATTEMPTS
                 /\ proc'[q].pc = "idle" => proc'[q] = Idle
                 /\ proc'[q].pc # "idle" => proc'[q].req \in Requests
                 /\ proc'[q].pc \notin {"idle", "load"} => proc'[q].text \in Texts
                 /\ proc'[q].pc \in {"lookup", "confirm"} => proc'[q].req.op # "comment"
      BY <1>2, <1>3, <1>4 DEF Types
    <2> QED
      BY <1>1, <2>1, <2>2, <2>3, <2>4 DEF Types
  <1>8. Serials'
    <2>1. /\ \A i \in DOMAIN comments : comments[i].serial # w.what.serial
          /\ \A v \in inflight : v.what.serial # w.what.serial
          /\ w.what.serial = proc[p].serial
      BY <1>1, <1>5 DEF Serials
    <2>2. \A q \in Procs : proc'[q].pc \in {"load", "lookup", "send"} =>
             q # p /\ proc'[q] = proc[q] /\ proc[q].serial # w.what.serial
      BY <1>1, <1>3, <1>4, <2>1 DEF Serials
    <2>3. \A q \in Procs : proc'[q].serial = proc[q].serial
                           /\ (proc'[q].pc # "idle" => proc[q].pc # "idle")
      BY <1>1, <1>3, <1>4
    <2> HIDE DEF w
    <2> QED
      BY <1>1, <1>2, <2>1, <2>2, <2>3 DEF Serials
  <1>9. Sent'
    <2> SUFFICES ASSUME NEW v \in inflight', proc'[v.by].serial = v.what.serial
                 PROVE  v.what = Content(v.by)'
      BY DEF Sent
    <2>1. CASE v = w
      BY <1>6, <2>1
    <2>2. CASE v \in inflight
      BY <1>3, <1>4, <1>6, <2>2 DEF Sent, Types
    <2> QED
      BY <1>1, <2>1, <2>2
  <1>10. Held'
    BY <1>1, <1>3, <1>4, <1>6 DEF Held, OnIssue, Journal
  <1> QED
    BY <1>1, <1>7, <1>8, <1>9, <1>10, TruthGrows DEF WritesOnce, Grows

\* A comment c lands: every part but Held and Types, which depend on who waits.
LEMMA Lands ==
    ASSUME RInv, NEW c \in Comments, comments' = Append(comments, c),
           inflight' \subseteq inflight, UNCHANGED <<answers, calls>>,
           c.serial = 0 \/ /\ c.serial \in 1..calls
                           /\ \A i \in DOMAIN comments : comments[i].serial # c.serial
                           /\ \A w \in inflight' : w.what.serial # c.serial
                           /\ \A q \in Procs : proc'[q].pc \in {"load", "lookup", "send"} =>
                                                 proc'[q].serial # c.serial,
           proc' \in [Procs -> Running],
           \A q \in Procs : proc'[q].pc # "idle" =>
             /\ proc[q].pc # "idle" /\ proc'[q].serial = proc[q].serial
             /\ proc'[q].pc \in {"load", "lookup", "send"} =>
                  proc[q].pc \in {"load", "lookup", "send"}
    PROVE  Serials' /\ WritesOnce' /\ Truth' /\ Grows
  <1> USE DEF RInv
  <1> DEFINE n == Len(comments) + 1
  <1>1. /\ DOMAIN comments' = DOMAIN comments \cup {n} /\ n \notin DOMAIN comments
        /\ \A i \in DOMAIN comments : comments'[i] = comments[i]
        /\ comments'[n] = c
    BY Appended DEF Types
  <1>2. Grows
    BY <1>1 DEF Grows
  <1>3. WritesOnce'
    BY <1>1 DEF WritesOnce, Serials
  <1>4. Serials'
    <2>1. \A i \in DOMAIN comments' : comments'[i].serial \in 0..calls
      BY <1>1 DEF Serials, Types
    <2>2. \A w \in inflight', i \in DOMAIN comments' : comments'[i].serial # w.what.serial
      BY <1>1 DEF Serials
    <2>3. \A p \in Procs : proc'[p].pc \in {"load", "lookup", "send"} =>
            /\ \A i \in DOMAIN comments' : comments'[i].serial # proc'[p].serial
            /\ \A w \in inflight' : w.what.serial # proc'[p].serial
      BY <1>1 DEF Serials
    <2> QED
      BY <2>1, <2>2, <2>3 DEF Serials
  <1> QED
    BY <1>2, <1>3, <1>4, TruthGrows

\* The comment a command writes is a comment of its serial.
LEMMA ContentType ==
    ASSUME RInv, NEW p \in Procs, proc[p].pc \notin {"idle", "load"}
    PROVE  /\ Content(p) \in Comments
           /\ Content(p).serial = proc[p].serial
           /\ Content(p).issue = proc[p].req.issue
  <1>1. proc[p] \in Running /\ proc[p].text \in Texts /\ proc[p].req \in Requests
    BY DEF RInv, Types
  <1> QED
    BY <1>1 DEF Content, Comments, Notes, Ordinary, EncodeBody, Running

LEMMA InsertKeeps ==
    ASSUME RInv, NEW p \in Procs, InsertLocal(p)
    PROVE  RInv'
  <1>1. /\ UNCHANGED <<provider, inflight, file, answers, calls>>
        /\ proc[p].pc = "send" /\ Len(comments) < MaxComments
    BY DEF InsertLocal
  <1>2. file' \in Texts \cup {None}
    BY <1>1 DEF RInv, Types
  <1>3. CASE MarkerTaken(Content(p).note)
    <2>1. AfterWrite(p, "uncertain") /\ UNCHANGED comments
      BY <1>3 DEF InsertLocal
    <2>2. PICK r : /\ Goes(p, r) /\ proc' = [proc EXCEPT ![p] = r]
                   /\ r.pc \in {"idle", "confirm", "cleanup"} /\ r.pc # "cleanup"
      BY <1>1, <2>1, WriteMoves
    <2>3. Truth'
      BY <1>1, <2>1, TruthGrows DEF RInv, Grows
    <2> QED
      BY <1>1, <1>2, <2>1, <2>2, <2>3, Move
  <1>4. CASE ~MarkerTaken(Content(p).note)
    <2> DEFINE c == Content(p)
    <2>1. AfterWrite(p, "ok") /\ comments' = Append(comments, c)
      BY <1>4 DEF InsertLocal
    <2>2. PICK r : /\ Goes(p, r) /\ proc' = [proc EXCEPT ![p] = r]
                   /\ r.pc \in {"idle", "confirm", "cleanup"}
                   /\ r.pc = "cleanup" => r.text = proc[p].text
      BY <1>1, <2>1, WriteMoves
    <2>3. c \in Comments /\ c.serial = proc[p].serial /\ c.issue = proc[p].req.issue
      BY <1>1, ContentType
    <2>4. /\ DOMAIN comments' = DOMAIN comments \cup {Len(comments) + 1}
          /\ comments' \in Seq(Comments) /\ Len(comments') = Len(comments) + 1
          /\ comments'[Len(comments) + 1] = c
      BY <2>1, <2>3, Appended DEF RInv, Types
    <2>5. proc' \in [Procs -> Running]
          /\ \A q \in Procs : proc'[q] = IF q = p THEN r ELSE proc[q]
      BY <2>2 DEF RInv, Types, Goes
    <2>6. \A q \in Procs : proc'[q].pc # "idle" =>
             /\ proc[q].pc # "idle" /\ proc'[q].serial = proc[q].serial
             /\ proc'[q].pc \in {"load", "lookup", "send"} =>
                  q # p /\ proc[q].pc \in {"load", "lookup", "send"}
      BY <2>2, <2>5 DEF Goes, Idle
    <2>7. /\ c.serial \in 1..calls
          /\ \A i \in DOMAIN comments : comments[i].serial # c.serial
          /\ \A w \in inflight' : w.what.serial # c.serial
          /\ \A q \in Procs : proc'[q].pc \in {"load", "lookup", "send"} =>
                                proc'[q].serial # c.serial
      BY <1>1, <2>3, <2>6 DEF RInv, Serials
    <2>8. Serials' /\ WritesOnce' /\ Truth' /\ Grows
      <3>1. \A q \in Procs : proc'[q].pc # "idle" =>
             /\ proc[q].pc # "idle" /\ proc'[q].serial = proc[q].serial
             /\ proc'[q].pc \in {"load", "lookup", "send"} =>
                  proc[q].pc \in {"load", "lookup", "send"}
        BY <2>6
      <3> QED
        BY <1>1, <2>1, <2>3, <2>5, <2>7, <3>1, Lands
    <2>9. Sent'
      BY <1>1, <2>2, MoveSent
    <2>10. Held'
      <3>1. r.pc \in {"posted", "cleanup", "unlink"} =>
              /\ r.text = proc[p].text
              /\ \E i \in DOMAIN comments' : /\ comments'[i].issue = proc[p].req.issue
                                             /\ comments'[i].note = Content(p).note
        BY <2>2, <2>3, <2>4
      <3> QED
        BY <2>2, <2>8, <3>1, MoveHeld
    <2>11. Types'
      <3>1. ASSUME NEW q \in Procs
            PROVE  /\ proc'[q].reads <= RECOVERY_ATTEMPTS
                   /\ proc'[q].pc = "idle" => proc'[q] = Idle
                   /\ proc'[q].pc # "idle" => proc'[q].req \in Requests
                   /\ proc'[q].pc \notin {"idle", "load"} => proc'[q].text \in Texts
                   /\ proc'[q].pc \in {"lookup", "confirm"} => proc'[q].req.op # "comment"
        <4>1. CASE q # p
          BY <2>5, <4>1 DEF RInv, Types
        <4>2. CASE q = p /\ r = Idle
          BY <2>2, <2>5, <4>2, EndMoves DEF Goes
        <4>3. CASE q = p /\ r # Idle
          BY <2>2, <2>5, <4>3 DEF Goes, RInv, Types
        <4> QED
          BY <4>1, <4>2, <4>3
      <3>2. Len(comments') <= MaxComments
        BY <1>1, <2>4, RecordConstants DEF RInv, Types
      <3> QED
        BY <1>1, <2>4, <2>5, <3>1, <3>2 DEF RInv, Types
    <2> QED
      BY <2>8, <2>9, <2>10, <2>11 DEF RInv
  <1> QED
    BY <1>3, <1>4

LEMMA ServeKeeps ==
    ASSUME RInv, NEW w \in inflight, Serve(w)
    PROVE  RInv'
  <1>1. /\ UNCHANGED <<provider, file, answers, calls>>
        /\ inflight' = inflight \ {w} /\ Len(comments) < MaxComments
        /\ comments' = Append(comments, w.what)
    BY DEF Serve
  <1>2. w.by \in Procs /\ w.what \in Comments /\ w.what.serial \in 1..calls
    BY DEF RInv, Types, Serials
  <1>3. /\ DOMAIN comments' = DOMAIN comments \cup {Len(comments) + 1}
        /\ comments' \in Seq(Comments) /\ Len(comments') = Len(comments) + 1
        /\ comments'[Len(comments) + 1] = w.what
    BY <1>1, <1>2, Appended DEF RInv, Types
  <1> DEFINE r == IF AwaitedBy(w) THEN [proc[w.by] EXCEPT !.pc = "posted"] ELSE proc[w.by]
  <1>4. proc' = [proc EXCEPT ![w.by] = r]
    BY <1>2 DEF Serve, Goto, RInv, Types
  <1>5. /\ r \in Running /\ r.reads = proc[w.by].reads
        /\ r.serial = proc[w.by].serial /\ r.req = proc[w.by].req /\ r.text = proc[w.by].text
        /\ AwaitedBy(w) => r.pc = "posted" /\ proc[w.by].pc = "wait"
        /\ ~AwaitedBy(w) => r = proc[w.by]
    BY <1>2 DEF AwaitedBy, RInv, Types, Running, Steps
  <1>6. \A q \in Procs : proc'[q] = IF q = w.by THEN r ELSE proc[q]
    BY <1>4 DEF RInv, Types
  <1> HIDE DEF r
  <1>7. /\ proc' \in [Procs -> Running]
        /\ \A q \in Procs : /\ proc'[q].serial = proc[q].serial
                            /\ proc'[q].req = proc[q].req /\ proc'[q].text = proc[q].text
                            /\ proc'[q].reads = proc[q].reads
                            /\ proc'[q] = proc[q] \/ (q = w.by /\ AwaitedBy(w)
                                   /\ proc'[q].pc = "posted" /\ proc[q].pc = "wait")
    BY <1>4, <1>5, <1>6 DEF RInv, Types
  <1>8. \A q \in Procs : Content(q)' = Content(q)
    BY <1>7 DEF Content
  <1>9. Serials' /\ WritesOnce' /\ Truth' /\ Grows
    <2>1. \A q \in Procs : proc'[q].pc # "idle" =>
             /\ proc[q].pc # "idle" /\ proc'[q].serial = proc[q].serial
             /\ proc'[q].pc \in {"load", "lookup", "send"} =>
                  proc[q].pc \in {"load", "lookup", "send"}
      BY <1>7
    <2>2. /\ \A i \in DOMAIN comments : comments[i].serial # w.what.serial
          /\ \A v \in inflight' : v.what.serial # w.what.serial
      BY <1>1 DEF RInv, Serials
    <2>3. \A q \in Procs : proc'[q].pc \in {"load", "lookup", "send"} =>
                             proc'[q].serial # w.what.serial
      BY <1>7 DEF RInv, Serials
    <2> QED
      BY <1>1, <1>2, <1>7, <2>1, <2>2, <2>3, Lands
  <1>10. Sent'
    BY <1>1, <1>7, <1>8 DEF RInv, Sent, Types
  <1>11. Held'
    <2> SUFFICES ASSUME NEW q \in Procs, proc'[q].pc \in {"posted", "cleanup", "unlink"}
                 PROVE  \E i \in DOMAIN comments' : /\ comments'[i].issue = proc'[q].req.issue
                                                    /\ comments'[i].note = Content(q).note
      BY <1>8 DEF Held, OnIssue, Journal
    <2>1. CASE proc'[q] = proc[q]
      <3>1. OnIssue(q)
        BY <2>1 DEF RInv, Held
      <3> QED
        BY <1>9, <2>1, <3>1 DEF OnIssue, Journal, Grows
    <2>2. CASE q = w.by /\ AwaitedBy(w)
      <3>1. w.what = Content(q) /\ proc'[q].req = proc[q].req
        BY <1>7, <2>2 DEF AwaitedBy, RInv, Sent
      <3>2. Content(q).issue = proc[q].req.issue
        BY DEF Content
      <3> QED
        BY <1>3, <3>1, <3>2
    <2> QED
      BY <1>7, <2>1, <2>2
  <1>12. Types'
    <2>1. ASSUME NEW q \in Procs
          PROVE  /\ proc'[q].reads <= RECOVERY_ATTEMPTS
                 /\ proc'[q].pc = "idle" => proc'[q] = Idle
                 /\ proc'[q].pc # "idle" => proc'[q].req \in Requests
                 /\ proc'[q].pc \notin {"idle", "load"} => proc'[q].text \in Texts
                 /\ proc'[q].pc \in {"lookup", "confirm"} => proc'[q].req.op # "comment"
      BY <1>7 DEF RInv, Types
    <2>2. Len(comments') <= MaxComments
      BY <1>1, <1>3, RecordConstants DEF RInv, Types
    <2> QED
      BY <1>1, <1>3, <1>7, <2>1, <2>2 DEF RInv, Types
  <1> QED
    BY <1>9, <1>10, <1>11, <1>12 DEF RInv

LEMMA ForeignKeeps ==
    ASSUME RInv, ForeignComment
    PROVE  RInv'
  <1>1. PICK note \in {Broken, Ordinary(None)}, req \in Requests :
          comments' = Append(comments, [issue |-> req.issue, serial |-> 0, note |-> note])
    BY DEF ForeignComment
  <1> DEFINE c == [issue |-> req.issue, serial |-> 0, note |-> note]
  <1>2. /\ UNCHANGED <<provider, inflight, file, proc, answers, calls>>
        /\ Len(comments) < MaxComments
    BY DEF ForeignComment
  <1>3. c \in Comments /\ c.serial = 0
    BY DEF Comments, Notes, Broken, Ordinary
  <1>4. comments' \in Seq(Comments) /\ Len(comments') = Len(comments) + 1
    BY <1>1, <1>3, Appended DEF RInv, Types
  <1>5. Serials' /\ WritesOnce' /\ Truth' /\ Grows
    <2>1. proc' \in [Procs -> Running]
      BY <1>2 DEF RInv, Types
    <2> HIDE DEF c
    <2> QED
      BY <1>1, <1>2, <1>3, <2>1, Lands DEF c
  <1>6. Types'
    BY <1>2, <1>4, RecordConstants DEF RInv, Types
  <1>7. Sent' /\ Held'
    BY <1>2, <1>5 DEF RInv, Sent, Held, OnIssue, Journal, Content, Grows
  <1> QED
    BY <1>5, <1>6, <1>7 DEF RInv

LEMMA EditKeeps ==
    ASSUME RInv, EditFile
    PROVE  RInv'
  BY TruthGrows
     DEF EditFile, RInv, Types, Serials, WritesOnce, Sent, Held, OnIssue, Journal, Content, Grows

-----------------------------------------------------------------------------
(* The results.                                                            *)

\* RInv is an invariant of the record commands: whatever creates overlap, are
\* retried or land late, a command may rely on what it has read and sent.
THEOREM RecordsKept == Spec => []RInv
  <1>1. Init => RInv
    <2> SUFFICES ASSUME Init PROVE RInv
      OBVIOUS
    <2>1. Idle \in Running /\ Idle.pc = "idle" /\ Idle.reads = 0
      BY RecordConstants DEF Running, Steps, Idle
    <2>2. Types
      BY <2>1, RecordConstants DEF Init, Types
    <2> QED
      BY <2>1, <2>2 DEF Init, RInv, Serials, WritesOnce, Sent, Held, Truth
  <1>2. RInv /\ [Next]_vars => RInv'
    <2> SUFFICES ASSUME RInv, [Next]_vars PROVE RInv'
      OBVIOUS
    <2>1. CASE UNCHANGED vars
      BY <2>1 DEF vars, RInv, Types, Serials, WritesOnce, Sent, Held, OnIssue, Journal,
                  Content, Truth, SameRequest, EncodeBody
    <2>2. ASSUME NEW p \in Procs, Start(p) \/ ResolveProvider(p) \/ Send(p) \/ InsertLocal(p)
          PROVE  RInv'
      BY <2>2, StartKeeps, ResolveKeeps, SendKeeps, InsertKeeps
    <2>3. ASSUME NEW p \in Procs, Lookup(p) \/ Confirm(p) PROVE RInv'
      BY <2>3, ReadKeeps
    <2>4. ASSUME NEW p \in Procs, GiveUp(p) \/ Answered(p) PROVE RInv'
      BY <2>4, AnswerKeeps
    <2>5. ASSUME NEW p \in Procs, CleanupAfterSuccess(p) \/ Unlink(p) PROVE RInv'
      BY <2>5, CleanupKeeps
    <2>6. ASSUME NEW w \in inflight, Serve(w) \/ Refuse(w) PROVE RInv'
      BY <2>6, ServeKeeps, RefuseKeeps
    <2>7. CASE EditFile \/ ForeignComment
      BY <2>7, EditKeeps, ForeignKeeps
    <2> QED
      BY <2>1, <2>2, <2>3, <2>4, <2>5, <2>6, <2>7 DEF Next
  <1> QED
    BY <1>1, <1>2, PTL DEF Spec

\* The journal, the writes in flight and the commands stay well typed.
THEOREM TypeCorrect == Spec => []TypeOK
  <1>1. RInv => TypeOK
    <2> SUFFICES ASSUME RInv PROVE TypeOK
      OBVIOUS
    <2>0. \A i \in DOMAIN comments : comments[i] \in Comments
      BY DEF RInv, Types
    <2>1. \A i \in DOMAIN comments : comments[i].note.envelope \in {"none", "broken", "record"}
      BY <2>0 DEF Comments, Notes
    <2>2. \A p \in Procs : /\ proc[p].pc \in Steps
                           /\ proc[p].reads \in 0..RECOVERY_ATTEMPTS
                           /\ proc[p].pc # "idle" => proc[p].req \in Requests
      BY RecordConstants DEF RInv, Types, Running
    <2> QED
      BY <2>1, <2>2 DEF RInv, Types, TypeOK
  <1> QED
    BY RecordsKept, <1>1, PTL

\* A request key has one meaning on an issue: every success for a key answers
\* with the same record, and that record is the one it asked for.
THEOREM OneMeaning == Spec => []AnswersAgree
  <1>1. RInv => AnswersAgree
    BY DEF RInv, Truth, AnswersAgree
  <1> QED
    BY RecordsKept, <1>1, PTL

\* One invocation writes at most one comment, whatever answer was lost and
\* however many confirming reads followed.
THEOREM OneWrite == Spec => []WritesOnce
  <1>1. RInv => WritesOnce
    BY DEF RInv
  <1> QED
    BY RecordsKept, <1>1, PTL

\* The record commands keep their promise to callers and to readers of an issue: a
\* key means one record, and a call writes once.
THEOREM RecordsTrue == Spec => []RecordsAgree
  BY OneMeaning, OneWrite, PTL DEF RecordsAgree

\* A body file is deleted only when the tracker holds the text read from it.
THEOREM FileOutlivesFailure == Spec => BodyKept
  <1>1. RInv /\ [Next]_vars => [BodyStep]_vars
    <2> SUFFICES ASSUME RInv, Next, file # None, file' = None
                 PROVE  \E p \in Procs : /\ proc[p].pc = "unlink"
                                         /\ \E i \in Journal(proc[p].req.issue) :
                                              comments[i].note = Content(p).note
      BY DEF BodyStep
    <2>1. PICK p \in Procs : Unlink(p)
      BY RecordConstants
         DEF Next, Start, ResolveProvider, Lookup, Send, InsertLocal, GiveUp, Answered,
             Confirm, CleanupAfterSuccess, Serve, Refuse, EditFile, ForeignComment
    <2>2. proc[p].pc = "unlink" /\ OnIssue(p)
      BY <2>1 DEF Unlink, RInv, Held
    <2> QED
      BY <2>2 DEF OnIssue
  <1> QED
    BY RecordsKept, <1>1, PTL DEF Spec, BodyKept
=============================================================================

------------------------------ MODULE Records ------------------------------
(***************************************************************************)
(* `record create`, `record get`, `record list` and `comment create`: the  *)
(* gates, the one-shot body file, the single write and the exact reads     *)
(* that confirm it, over the journals (the comments) of the issues of one  *)
(* tracker.                                                                *)
(*                                                                         *)
(* A command is a process.  Its write travels to the tracker and may be    *)
(* performed late, after the command has given up waiting for the answer,  *)
(* or never.  Comments are only ever added, so a listing sees the journal  *)
(* as it is.  Text is a member of Texts; a stored comment keeps the        *)
(* decoded form of its envelope: none (an ordinary comment), broken        *)
(* (reserved prefix, but not a complete valid header) or record.           *)
(***************************************************************************)
EXTENDS Naturals, Sequences, FiniteSets

CONSTANTS
    Procs,              \* commands that may run at the same time
    Requests,           \* the invocations the commands are started with
    Texts,              \* body texts without the reserved prefix
    Providers,          \* the kinds of tracker considered
    Tokens,             \* values accepted by token::is_token
    RECOVERY_ATTEMPTS,  \* confirming listings after a write
    MaxComments,        \* bound on the journal
    MaxCalls,           \* bound on the calls started
    None

ASSUME RecordConstants ==
    /\ RECOVERY_ATTEMPTS \in Nat /\ MaxComments \in Nat /\ MaxCalls \in Nat
    /\ Providers \subseteq {"redmine", "forgejo", "local"}
    /\ None \notin Texts /\ None \notin Tokens /\ None \notin Nat

Roles == {"admin", "orchestrator", "executor", "reviewer", "explore"}
Kinds == {"executor", "reviewer", "recon"}
ReviewKinds == {"final", "checkpoint"}

VARIABLES
    provider,   \* the kind of tracker the issue lives in
    comments,   \* the journals: every comment, in the order of its id
    inflight,   \* writes sent and not yet performed by the tracker
    file,       \* what the body file holds, None when there is none
    proc,       \* the state of every command
    answers,    \* history: the successes of record create
    denials,    \* history: the writes refused for their marker
    calls       \* calls started so far

vars == <<provider, comments, inflight, file, proc, answers, denials, calls>>

----------------------------------------------------------------------------
(* The request: what may be published by whom, and which fields it has.   *)

\* The role that may publish a kind; the orchestrator publishes every one.
Allows(kind, role) ==
    \/ role = "orchestrator"
    \/ role = "explore" /\ kind = "recon"
    \/ role \in {"executor", "reviewer"} /\ kind = role

IsToken(value) == value \in Tokens

\* The fields a header must have, when it is written and when it is read.
ValidFields(spec) ==
    /\ IsToken(spec.key)
    /\ spec.phase # None => IsToken(spec.phase)
    /\ spec.recon # None => IsToken(spec.recon)
    /\ IF spec.kind = "recon"
       THEN spec.recon # None /\ spec.phase = None /\ spec.attempt = None
       ELSE /\ spec.phase # None /\ spec.recon = None
            /\ spec.attempt # None /\ spec.attempt > 0
    /\ IF spec.kind = "reviewer" THEN spec.review \in ReviewKinds
                                 ELSE spec.review = None

\* The spec of a request: the actor is the session's role and nothing else.
SpecOf(req) == [kind |-> req.kind, actor |-> req.role, key |-> req.key,
                phase |-> req.phase, attempt |-> req.attempt,
                review |-> req.review, recon |-> req.recon]

\* The gates that run before the body file is read or a tracker is reached.
CommentAuthorized(req) == req.role \in {"operator", "orchestrator"} \/ req.authorized

Authorize(req) ==
    /\ req.role = "orchestrator" \/ req.authorized
    /\ Allows(req.kind, req.role)
    /\ ValidFields(SpecOf(req))

Authorized(req) ==
    IF req.op = "comment" THEN CommentAuthorized(req)
    ELSE req.role \in Roles \ {"admin"} /\ Authorize(req)

\* What a text becomes when it is stored under the envelope of the spec.
EncodeBody(spec, text) == [envelope |-> "record", spec |-> spec, body |-> text]
Ordinary(text) == [envelope |-> "none", spec |-> None, body |-> text]
Broken == [envelope |-> "broken", spec |-> None, body |-> None]

----------------------------------------------------------------------------
(* Reading a journal.                                                      *)

Journal(issue) == {i \in DOMAIN comments : comments[i].issue = issue}

\* decode_all: ordinary comments are skipped, one broken envelope fails all.
Decodable(issue) == \A i \in Journal(issue) : comments[i].note.envelope # "broken"
RecordIds(issue) == {i \in Journal(issue) : comments[i].note.envelope = "record"}

OwnedByKey(issue, key) == {i \in RecordIds(issue) : comments[i].note.spec.key = key}

SameRequest(note, spec, text) == note = EncodeBody(spec, text)

\* Absent, the one equal record, or a conflict: another record or several.
Classify(issue, spec, text) ==
    LET owned == OwnedByKey(issue, spec.key)
    IN  CASE owned = {} -> "absent"
          [] \E i \in owned : owned = {i} /\ SameRequest(comments[i].note, spec, text)
               -> "match"
          [] OTHER -> "conflict"

Owner(issue, key) == CHOOSE i \in OwnedByKey(issue, key) : TRUE

\* record get: a record of this issue by its id; None when there is none.
Get(issue, id) == IF id \in RecordIds(issue) THEN comments[id] ELSE None

\* record list: the records that match the filter, in the tracker's order.
Matches(filter, spec) ==
    /\ filter.kind # None => filter.kind = spec.kind
    /\ filter.phase # None => filter.phase = spec.phase
    /\ filter.recon # None => filter.recon = spec.recon

List(issue, filter) ==
    SelectSeq([i \in DOMAIN comments |-> i],
              LAMBDA i : i \in RecordIds(issue) /\ Matches(filter, comments[i].note.spec))

\* One page of a list and whether there is another.
Slice(items, page, limit) ==
    LET offset == (page - 1) * limit
        shown  == SubSeq(items, offset + 1,
                         IF offset + limit < Len(items) THEN offset + limit
                                                        ELSE Len(items))
    IN  [items |-> shown, has_more |-> offset + Len(shown) < Len(items)]

----------------------------------------------------------------------------
Steps == {"idle", "load", "lookup", "send", "wait", "posted",
          "confirm", "cleanup", "unlink"}

Idle == [pc |-> "idle", serial |-> 0, req |-> None, text |-> None, loaded |-> None,
         reads |-> 0]

Init ==
    /\ provider \in Providers
    /\ comments = <<>> /\ inflight = {} /\ answers = {} /\ denials = {}
    /\ file \in Texts \cup {None}
    /\ proc = [p \in Procs |-> Idle]
    /\ calls = 0

Goto(p, pc) == proc' = [proc EXCEPT ![p].pc = pc]
Finish(p) == proc' = [proc EXCEPT ![p] = Idle]

\* The invocation and its local gates; a denied one never reads the file.
Start(p) ==
    /\ proc[p].pc = "idle" /\ calls < MaxCalls
    /\ \E req \in Requests :
         proc' = [proc EXCEPT ![p] =
           IF Authorized(req)
           THEN [Idle EXCEPT !.pc = "load", !.serial = calls + 1, !.req = req]
           ELSE Idle]
    /\ calls' = calls + 1
    /\ UNCHANGED <<provider, comments, inflight, file, answers, denials>>

\* The file as it is now; one that is missing, too large or not UTF-8 ends
\* the call.
Load(text) == text \in Texts /\ text = file

\* --body or --body-file; a text with the reserved prefix ends the call.
LoadBody(req, text) ==
    IF req.body = "file" THEN Load(text) ELSE text \in Texts /\ text = req.body

\* The task route, the scope guard and the tracker's scope check (module
\* Tasks) are reads that may end the call as well.
ResolveProvider(p) ==
    /\ proc[p].pc = "load"
    /\ \/ \E text \in Texts :
            /\ LoadBody(proc[p].req, text)
            /\ proc' = [proc EXCEPT
                   ![p].pc = IF proc[p].req.op = "comment" THEN "send" ELSE "lookup",
                   ![p].text = text,
                   ![p].loaded = IF proc[p].req.body = "file" THEN text ELSE None]
       \/ Finish(p)
    /\ UNCHANGED <<provider, comments, inflight, file, answers, denials, calls>>

\* A call without a body file is over; otherwise the file is looked at again.
AfterSuccess(p) == IF proc[p].loaded = None THEN Finish(p) ELSE Goto(p, "cleanup")

\* A success of record create, and what it answered with.
Succeed(p, id) ==
    /\ AfterSuccess(p)
    /\ answers' = answers \cup {[issue |-> proc[p].req.issue, key |-> proc[p].req.key, id |-> id,
                                 spec |-> SpecOf(proc[p].req), body |-> proc[p].text]}

\* The first read: an equal record is the answer, another one a conflict.
Lookup(p) ==
    /\ proc[p].pc = "lookup"
    /\ LET req == proc[p].req
           found == Classify(req.issue, SpecOf(req), proc[p].text)
       IN \/ /\ Decodable(req.issue) /\ found = "match"
             /\ Succeed(p, Owner(req.issue, req.key))
          \/ /\ Decodable(req.issue) /\ found = "absent"
             /\ Goto(p, "send") /\ UNCHANGED answers
          \/ /\ Decodable(req.issue) /\ found = "conflict"
             /\ Finish(p) /\ UNCHANGED answers
          \/ Finish(p) /\ UNCHANGED answers
    /\ UNCHANGED <<provider, comments, inflight, file, denials, calls>>

\* The comment a call writes.
Content(p) ==
    [issue |-> proc[p].req.issue, serial |-> proc[p].serial,
     note |-> IF proc[p].req.op = "comment" THEN Ordinary(proc[p].text)
              ELSE EncodeBody(SpecOf(proc[p].req), proc[p].text)]

\* Mutant of AfterWrite: a record whose answer is lost is sent again.
AfterWriteResends(p, outcome) ==
    IF outcome = "uncertain" THEN Goto(p, "send") ELSE Finish(p)

\* Mutant of AfterWrite: the call cleans up whatever became of its write.
AfterWriteCleans(p, outcome) == IF outcome # None THEN AfterSuccess(p) ELSE Finish(p)

\* Where a write leaves the call: a record is confirmed by reading, unless
\* the error says that the tracker refused it; a comment is answered here.
AfterWrite(p, outcome) ==
    CASE outcome = "certain" -> Finish(p)
      [] outcome # "certain" /\ proc[p].req.op = "record" ->
           proc' = [proc EXCEPT ![p].pc = "confirm", ![p].reads = 0]
      [] outcome = "ok" /\ proc[p].req.op # "record" ->
           AfterSuccess(p)
      [] OTHER -> Finish(p)

\* The write leaves for a remote tracker.
Send(p) ==
    /\ proc[p].pc = "send" /\ provider # "local"
    /\ inflight' = inflight \cup {[by |-> p, what |-> Content(p)]}
    /\ Goto(p, "wait")
    /\ UNCHANGED <<provider, comments, file, answers, denials, calls>>

\* The marker of a note: the header line, or a comment's own text.
SameMarker(note, other) ==
    /\ note.envelope = other.envelope
    /\ IF note.envelope = "record" THEN note.spec = other.spec ELSE note.body = other.body

\* The local store inserts at once; its marker column is UNIQUE over all
\* issues, and a second one is a request error.
MarkerTaken(note) == \E i \in DOMAIN comments : SameMarker(note, comments[i].note)

InsertLocal(p) ==
    /\ proc[p].pc = "send" /\ provider = "local" /\ Len(comments) < MaxComments
    /\ IF MarkerTaken(Content(p).note)
       THEN /\ AfterWrite(p, "uncertain") /\ UNCHANGED comments
            /\ denials' = denials \cup {[issue |-> Content(p).issue, note |-> Content(p).note]}
       ELSE /\ AfterWrite(p, "ok") /\ comments' = Append(comments, Content(p))
            /\ UNCHANGED denials
    /\ UNCHANGED <<provider, inflight, file, answers, calls>>

AwaitedBy(w) == proc[w.by].pc = "wait" /\ proc[w.by].serial = w.what.serial

\* The tracker performs a write, however late; its sender may be waiting.
Serve(w) ==
    /\ w \in inflight /\ Len(comments) < MaxComments
    /\ inflight' = inflight \ {w}
    /\ comments' = Append(comments, w.what)
    /\ IF AwaitedBy(w) THEN Goto(w.by, "posted") ELSE UNCHANGED proc
    /\ UNCHANGED <<provider, file, answers, denials, calls>>

\* The tracker refuses it (4xx), or it never arrives and nobody answers.
Refuse(w) ==
    /\ w \in inflight
    /\ inflight' = inflight \ {w}
    /\ \/ AwaitedBy(w) /\ AfterWrite(w.by, "certain")
       \/ UNCHANGED proc
    /\ UNCHANGED <<provider, comments, file, answers, denials, calls>>

\* The client stops waiting, or the answer is lost: a transport error.
GiveUp(p) ==
    /\ proc[p].pc \in {"wait", "posted"}
    /\ AfterWrite(p, "uncertain")
    /\ UNCHANGED <<provider, comments, inflight, file, answers, denials, calls>>

\* What the provider makes of the tracker's answer.  Redmine looks for the
\* journal in it or in the issue it then reads: found, not found (uncertain),
\* or a read that fails, a 4xx among the errors.  Forgejo reports an answer
\* without the marker, or for another issue, as a configuration error.
Answered(p) ==
    /\ proc[p].pc = "posted"
    /\ \E outcome \in {"ok", "uncertain", "certain"} : AfterWrite(p, outcome)
    /\ UNCHANGED <<provider, comments, inflight, file, answers, denials, calls>>

\* One confirming listing.  Only reads follow the write.
Confirm(p) ==
    /\ proc[p].pc = "confirm"
    /\ LET req == proc[p].req
           found == Classify(req.issue, SpecOf(req), proc[p].text)
       IN \/ /\ proc[p].reads < RECOVERY_ATTEMPTS /\ Decodable(req.issue) /\ found = "match"
             /\ Succeed(p, Owner(req.issue, req.key))
          \/ /\ proc[p].reads < RECOVERY_ATTEMPTS /\ Decodable(req.issue) /\ found = "conflict"
             /\ Finish(p) /\ UNCHANGED answers
          \/ /\ proc[p].reads < RECOVERY_ATTEMPTS /\ Decodable(req.issue) /\ found = "absent"
             /\ proc' = [proc EXCEPT ![p].reads = @ + 1] /\ UNCHANGED answers
          \/ Finish(p) /\ UNCHANGED answers  \* unreadable or out of attempts
    /\ UNCHANGED <<provider, comments, inflight, file, denials, calls>>

\* After a success the file goes, unless it changed since it was read.
CleanupAfterSuccess(p) ==
    /\ proc[p].pc = "cleanup"
    /\ IF proc[p].req.keep \/ file # proc[p].loaded THEN Finish(p) ELSE Goto(p, "unlink")
    /\ UNCHANGED <<provider, comments, inflight, file, answers, denials, calls>>

\* The unlink itself, one system call later; it may fail.
Unlink(p) ==
    /\ proc[p].pc = "unlink"
    /\ file' \in {None, file}
    /\ Finish(p)
    /\ UNCHANGED <<provider, comments, inflight, answers, denials, calls>>

\* The agent writes the body file for a next call.
EditFile ==
    /\ \E text \in Texts : file' = text
    /\ UNCHANGED <<provider, comments, inflight, proc, answers, denials, calls>>

\* Somebody comments on the issue by hand; the text may look like an envelope.
ForeignComment ==
    /\ Len(comments) < MaxComments
    /\ \E note \in {Broken, Ordinary(None)}, req \in Requests :
         comments' = Append(comments, [issue |-> req.issue, serial |-> 0, note |-> note])
    /\ UNCHANGED <<provider, inflight, file, proc, answers, denials, calls>>

Next ==
    \/ \E p \in Procs :
         \/ Start(p) \/ ResolveProvider(p) \/ Lookup(p) \/ Send(p)
         \/ InsertLocal(p) \/ GiveUp(p) \/ Answered(p) \/ Confirm(p)
         \/ CleanupAfterSuccess(p) \/ Unlink(p)
    \/ \E w \in inflight : Serve(w) \/ Refuse(w)
    \/ EditFile \/ ForeignComment

Spec == Init /\ [][Next]_vars

----------------------------------------------------------------------------
TypeOK ==
    /\ provider \in Providers
    /\ \A i \in DOMAIN comments : comments[i].note.envelope \in {"none", "broken", "record"}
    /\ Len(comments) <= MaxComments
    /\ \A w \in inflight : w.by \in Procs /\ w.what.note.envelope \in {"none", "record"}
    /\ file \in Texts \cup {None}
    /\ \A p \in Procs : /\ proc[p].pc \in Steps
                        /\ proc[p].reads \in 0..RECOVERY_ATTEMPTS
                        /\ proc[p].pc # "idle" => proc[p].req \in Requests
    /\ calls \in 0..MaxCalls

\* A request key has one meaning on an issue: whatever creates overlapped,
\* were retried or landed late, every success for a key answered with the
\* same record, and that record is the one it asked for.
AnswersAgree ==
    \A a \in answers :
        /\ a.id \in Journal(a.issue)
        /\ SameRequest(comments[a.id].note, a.spec, a.body)
        /\ \A b \in answers : a.issue = b.issue /\ a.key = b.key => a.id = b.id

\* One invocation writes at most one comment, whatever answer was lost and
\* however many confirming reads followed ("never issues a second write").
WritesOnce ==
    \A i, j \in DOMAIN comments :
        comments[i].serial = comments[j].serial /\ comments[i].serial # 0 => i = j

\* The journal of every issue is written once and read alike.
RecordsAgree == AnswersAgree /\ WritesOnce

\* The pages of record list, read one after the other, are the list, only
\* the last one says that there is no more, and record get finds every
\* record that is listed, on its own issue only.
PagesMakeTheList ==
    \A issue \in {req.issue : req \in Requests}, limit \in 1..2,
       filter \in {[kind |-> k, phase |-> None, recon |-> None] : k \in Kinds \cup {None}} :
        LET items == List(issue, filter)
            At(page) == Slice(items, page, limit)
            pages == 1..(Len(items) + 1)
        IN  /\ \A page \in pages :
                 /\ At(page).has_more <=> \E later \in pages : later > page /\ At(later).items # <<>>
                 /\ \A i \in DOMAIN At(page).items :
                      At(page).items[i] = items[(page - 1) * limit + i]
            /\ \A i \in DOMAIN items : /\ Get(issue, items[i]) # None
                                       /\ Get(issue, items[i]).issue = issue

\* A body file is deleted only when the tracker holds the text that was read
\* from it: every failed or unconfirmed call leaves the file for the retry.
BodyStep ==
    file # None /\ file' = None =>
     \E p \in Procs : /\ proc[p].pc = "unlink"
                      /\ \E i \in Journal(proc[p].req.issue) :
                           comments[i].note = Content(p).note
BodyKept == [][BodyStep]_vars

=============================================================================

----------------------------- MODULE Questions -----------------------------
(***************************************************************************)
(* Question notifications: the OpenCode adapter's notifier                 *)
(* (assets/opencode/src/notify.js) and the command it spawns,              *)
(* `phasegent notify send --stdin` (cli/notify.rs, notifications/*.rs).    *)
(*                                                                         *)
(* The notifier is one JavaScript instance fed by the host's event stream. *)
(* The stream may deliver an event late, out of order or twice.  Between   *)
(* two awaits the notifier runs alone, so one action is the code from one  *)
(* await to the next.  A form that stays unanswered for Delay is told to   *)
(* the operator by one child process, which records a row, sends it on the *)
(* configured channel and marks the row.                                   *)
(*                                                                         *)
(* A text is abstracted to its length after the plugin's cleaning, to the  *)
(* number of its characters that come from the form (an ellipsis does not) *)
(* and to what the two sides do not treat alike: how many of these are C1  *)
(* controls, which only the command drops, and whether one is a lone       *)
(* surrogate, which makes its document unreadable.  They stand in front.   *)
(***************************************************************************)
EXTENDS Integers, Sequences, FiniteSets

CONSTANTS
    Forms,          \* question forms of the host
    Sessions,       \* sessions of the host
    SessionOf,      \* the session that asks a form
    ContentsOf,     \* the contents a form may be created with
    Configs,        \* the notify settings an operator may have in place
    Delay,          \* QUESTION_NOTIFY_DELAY_MS, in ticks
    MaxSkew,        \* bound: how often the wall clock is set back
    MaxSeen,        \* bound: how often the stream delivers one event
    MaxQuestions, MaxChoices, Budget,
    SessionCap, TitleCap, ProjectCap, HeaderCap, TextCap, LabelCap, DescCap,
    Project,        \* the project name of the plugin instance
    Unknown         \* the stand-in for a missing session id

\* What the constants must satisfy; the first question always fits
\* (8000 against 128 + 200 + 240 + 1500).
Bounds ==
    /\ SessionOf \in [Forms -> Sessions]
    /\ Delay \in Nat \ {0} /\ MaxSkew \in Nat /\ MaxSeen \in Nat \ {0}
    /\ MaxQuestions \in Nat \ {0} /\ MaxChoices \in Nat \ {0}
    /\ SessionCap + TitleCap + ProjectCap + TextCap <= Budget

VARIABLES
    form,       \* host: a form's life, the directory its event names, content
    home,       \* host: the directory of each session (it can be moved)
    gone,       \* host: the deleted sessions
    seen,       \* how often each event has reached the notifier
    skew,       \* how often the wall clock was set back
    pending, settled, deletedSessions, disposed, streamEnded,
    entry,      \* the pending entry of a form, as far as it outlives awaits
    task,       \* where the delivery task of a form stands
    spawns,     \* children spawned for a form
    allowed,    \* the ambient caller holds the notify capability
    cli,        \* where a form's child process stands
    doc,        \* the document written to it
    told,       \* the notification it rendered
    row,        \* its row in notification_deliveries
    sent        \* messages the channel accepted for a form

host == <<form, home, gone>>
tracked == <<pending, settled, deletedSessions, disposed, streamEnded>>
child == <<allowed, cli, doc, told, row, sent>>
vars == <<host, seen, skew, tracked, entry, task, spawns, child>>

Created(f) == <<"form.created", f>>
Resolved(f) == <<"form.replied", f>>        \* or form.cancelled
Deleted(s) == <<"session.deleted", s>>
Events == {Created(f) : f \in Forms} \cup {Resolved(f) : f \in Forms}
              \cup {Deleted(s) : s \in Sessions}

-----------------------------------------------------------------------------
(* Texts and the shared budget.                                            *)

Min2(a, b) == IF a < b THEN a ELSE b
Text(n) == [n |-> n, real |-> n, c1 |-> 0, lone |-> FALSE]
Empty == Text(0)

Clip(t, available) ==
    IF t.n <= available THEN t
    ELSE [n |-> available, real |-> Min2(t.real, available - 1),
          c1 |-> Min2(t.c1, available - 1), lone |-> t.lone /\ available > 1]

\* clean_text of the command, on what the plugin's cleanText left.
CleanText(t) == [t EXCEPT !.n = @ - t.c1, !.real = @ - t.c1, !.c1 = 0]

\* takeField, and Budget::take after its cleaning
Take(left, t, cap) ==
    LET available == Min2(cap, left)
    IN  IF t.n = 0 \/ available <= 0 THEN Empty ELSE Clip(t, available)

TakeAnyText(left, t, cap) == Take(left, t, cap)

\* takeQuestionText, and Budget::take_question_text after its cleaning
TakeQuestionText(left, t, cap) ==
    LET available == Min2(cap, left)
    IN  IF t.n = 0 \/ available < 2 THEN Empty ELSE Clip(t, available)

-----------------------------------------------------------------------------
(* The document the plugin builds.                                         *)

\* A loop over a sequence, as a recursive function of the position.  (The
\* singleton has TLC bind the accumulator to its value.)
Loop(Step(_, _), start, seq) ==
    LET at[i \in 0 .. Len(seq)] ==
            IF i = 0 THEN start
            ELSE CHOOSE x \in {Step(acc, seq[i]) : acc \in {at[i - 1]}} : TRUE
    IN  at[Len(seq)]

NoOptions(left) == [left |-> left, kept |-> <<>>, omitted |-> 0]

BuildOption(acc, o) ==
    LET label == Take(acc.left, o.label, LabelCap)
        description == Take(acc.left - label.n, o.description, DescCap)
    IN  IF \/ Len(acc.kept) >= MaxChoices \/ acc.left <= 0
           \/ (label.n = 0 /\ description.n = 0)
        THEN [acc EXCEPT !.omitted = @ + 1]
        ELSE [acc EXCEPT !.left = @ - label.n - description.n,
                         !.kept = Append(@, [label |-> label,
                                             description |-> description])]

QuestionText(left, field) ==
    LET described == TakeQuestionText(left, field.description, TextCap)
    IN  IF described.n > 0 THEN described
        ELSE TakeQuestionText(left, field.title, TextCap)

BuildField(acc, field) ==
    LET text == QuestionText(acc.left, field)
        header == Take(acc.left - text.n, field.title, HeaderCap)
        options == Loop(BuildOption, NoOptions(acc.left - text.n - header.n),
                        field.options)
    IN  IF Len(acc.kept) >= MaxQuestions \/ text.n = 0
        THEN [acc EXCEPT !.omitted = @ + 1]
        ELSE [acc EXCEPT !.left = options.left,
                         !.kept = Append(@, [header |-> header, text |-> text,
                                             options |-> options.kept,
                                             omitted |-> options.omitted])]

BuildQuestionPayload(content, title) ==
    LET sid == Take(Budget, content.sid, SessionCap)
        name == Take(Budget - sid.n, title, TitleCap)
        project == Take(Budget - sid.n - name.n, Project, ProjectCap)
        built == Loop(BuildField,
                      NoOptions(Budget - sid.n - name.n - project.n),
                      content.fields)
    IN  [sid |-> IF sid.n = 0 THEN Unknown ELSE sid,
         title |-> name, project |-> project,
         questions |-> built.kept, omitted |-> built.omitted]

-----------------------------------------------------------------------------
(* What the command makes of the document.                                 *)

NormalizeOption(acc, o) ==
    LET label == Take(acc.left, CleanText(o.label), LabelCap)
        description == Take(acc.left - label.n, CleanText(o.description), DescCap)
    IN  IF acc.left = 0 \/ (label.n = 0 /\ description.n = 0)
        THEN [acc EXCEPT !.omitted = @ + 1]
        ELSE [acc EXCEPT !.left = @ - label.n - description.n,
                         !.kept = Append(@, [label |-> label,
                                             description |-> description])]

Beyond(seq, max) == IF Len(seq) > max THEN Len(seq) - max ELSE 0
UpTo(seq, max) == SubSeq(seq, 1, Min2(Len(seq), max))

NormalizeItem(acc, item) ==
    LET text == TakeQuestionText(acc.left, CleanText(item.text), TextCap)
        header == Take(acc.left - text.n, CleanText(item.header), HeaderCap)
        options == Loop(NormalizeOption,
                        [NoOptions(acc.left - text.n - header.n)
                            EXCEPT !.omitted = item.omitted],
                        UpTo(item.options, MaxChoices))
    IN  IF text.n = 0 THEN [acc EXCEPT !.omitted = @ + 1]
        ELSE [acc EXCEPT !.left = options.left,
                         !.kept = Append(@,
                            [header |-> header, text |-> text,
                             options |-> options.kept,
                             omitted |-> options.omitted
                                 + Beyond(item.options, MaxChoices)])]

Normalize(d) ==
    LET sid == Take(Budget, CleanText(d.sid), SessionCap)
        name == Take(Budget - sid.n, CleanText(d.title), TitleCap)
        project == Take(Budget - sid.n - name.n, CleanText(d.project), ProjectCap)
        items == Loop(NormalizeItem,
                      [NoOptions(Budget - sid.n - name.n - project.n)
                          EXCEPT !.omitted = d.omitted],
                      UpTo(d.questions, MaxQuestions))
    IN  [sid |-> sid, title |-> name, project |-> project,
         questions |-> items.kept,
         omitted |-> items.omitted + Beyond(d.questions, MaxQuestions)]

\* Every text of a document.
Texts(d) ==
    {d.sid, d.title, d.project}
      \cup UNION {{q.header, q.text}
                    \cup UNION {{q.options[k].label, q.options[k].description} :
                                  k \in DOMAIN q.options}
                  : q \in {d.questions[i] : i \in DOMAIN d.questions}}

\* parse_question_input accepts the document: it is JSON for serde_json, and the
\* session id and every question are there after cleaning.
Accepted(d) ==
    /\ \A t \in Texts(d) : ~t.lone
    /\ CleanText(d.sid).n > 0
    /\ d.questions # <<>>
    /\ \A i \in DOMAIN d.questions : CleanText(d.questions[i].text).n > 0

-----------------------------------------------------------------------------
(* The host and the clock.                                                 *)

HostCreates(f) ==
    /\ form[f].life = "none"
    /\ \E dir \in {"own", "other", "absent"}, c \in ContentsOf[f] :
           form' = [form EXCEPT ![f] =
                        [life |-> "open", dir |-> dir, content |-> c]]
    /\ UNCHANGED <<home, gone, seen, skew, tracked, entry, task, spawns, child>>

HostResolves(f) ==
    /\ form[f].life = "open"
    /\ form' = [form EXCEPT ![f].life = "resolved"]
    /\ UNCHANGED <<home, gone, seen, skew, tracked, entry, task, spawns, child>>

HostDeletes(s) ==
    /\ s \notin gone
    /\ gone' = gone \cup {s}
    /\ UNCHANGED <<form, home, seen, skew, tracked, entry, task, spawns, child>>

HostMoves(s) ==
    /\ home[s] = "other"
    /\ home' = [home EXCEPT ![s] = "own"]
    /\ UNCHANGED <<form, gone, seen, skew, tracked, entry, task, spawns, child>>

Armed(f) == entry[f].timer >= 0

\* Time passes: timers run on the monotonic clock, deadlines on Date.now.
Tick ==
    /\ \E f \in Forms : entry[f].timer > 0
    /\ entry' = [f \in Forms |->
           IF ~Armed(f) THEN entry[f]
           ELSE [entry[f] EXCEPT !.timer = IF @ > 0 THEN @ - 1 ELSE 0,
                                 !.remaining = @ - 1]]
    /\ UNCHANGED <<host, seen, skew, tracked, task, spawns, child>>

\* Date.now is set back while timers are running.
WallClockSetBack ==
    /\ skew < MaxSkew
    /\ \E f \in Forms : Armed(f)
    /\ skew' = skew + 1
    /\ entry' = [f \in Forms |->
           IF Armed(f) THEN [entry[f] EXCEPT !.remaining = @ + 1]
           ELSE entry[f]]
    /\ UNCHANGED <<host, seen, tracked, task, spawns, child>>

-----------------------------------------------------------------------------
(* The notifier.                                                           *)

NoEntry == [local |-> FALSE, session |-> FALSE, timer |-> -1,
            remaining |-> 0, ready |-> "none"]

IsActiveEver(f) == ~disposed
IsActive(f) == ~disposed /\ ~streamEnded /\ f \in pending

Cleared(fs) ==
    [f \in Forms |-> IF f \in fs THEN [entry[f] EXCEPT !.timer = -1]
                     ELSE entry[f]]

SettleForm(fs) ==
    /\ settled' = settled \cup fs
    /\ pending' = pending \ fs
    /\ entry' = Cleared(fs \cap pending)

SettleTold(f) == SettleForm({f})

Delivers(e) ==
    /\ seen[e] < MaxSeen
    /\ seen' = [seen EXCEPT ![e] = @ + 1]
    /\ ~disposed /\ ~streamEnded

HandleResolved(f) ==
    /\ form[f].life = "resolved"
    /\ Delivers(Resolved(f))
    /\ SettleForm({f})
    /\ UNCHANGED <<host, skew, deletedSessions, disposed, streamEnded, task,
                   spawns, child>>

HandleDeleted(s) ==
    /\ s \in gone
    /\ Delivers(Deleted(s))
    /\ deletedSessions' = deletedSessions \cup {s}
    /\ LET fs == {f \in pending : SessionOf[f] = s}
       IN  SettleForm(fs)
    /\ UNCHANGED <<host, skew, disposed, streamEnded, task, spawns, child>>

\* A create starts an entry unless the form is known, its session is deleted
\* or its event names another directory.
Track(f) ==
    /\ pending' = pending \cup {f}
    /\ entry' = [entry EXCEPT ![f] =
           [local |-> form[f].dir = "own", session |-> FALSE,
            timer |-> Delay, remaining |-> Delay,
            ready |-> IF form[f].dir = "absent" THEN "running" ELSE "none"]]

Ignored(f) ==
    \/ f \in pending \cup settled
    \/ SessionOf[f] \in deletedSessions
    \/ form[f].dir = "other"

HandleCreated(f) ==
    /\ form[f].life # "none"
    /\ Delivers(Created(f))
    /\ IF Ignored(f) THEN UNCHANGED <<pending, entry>> ELSE Track(f)
    /\ UNCHANGED <<host, skew, settled, deletedSessions, disposed, streamEnded,
                   task, spawns, child>>

\* readFormSession: the session's directory now, or nothing.
Lookup(f) ==
    IF SessionOf[f] \in gone THEN {"nothing"}
    ELSE {home[SessionOf[f]], "nothing"}

ResolveLocation(f) ==
    /\ entry[f].ready = "running"
    /\ \E found \in Lookup(f) :
         IF ~IsActive(f)
         THEN /\ entry' = [entry EXCEPT ![f].ready = "done"]
              /\ UNCHANGED <<pending, settled>>
         ELSE IF found # "own"
         THEN /\ settled' = settled \cup {f}
              /\ pending' = pending \ {f}
              /\ entry' = [entry EXCEPT ![f].ready = "done", ![f].timer = -1]
         ELSE /\ entry' = [entry EXCEPT ![f].ready = "done",
                                        ![f].local = TRUE, ![f].session = TRUE]
              /\ UNCHANGED <<pending, settled>>
    /\ UNCHANGED <<host, seen, skew, deletedSessions, disposed, streamEnded,
                   task, spawns, child>>

\* The timer fires; a deadline still ahead on the wall clock arms it again.
RearmNot(f) == [entry EXCEPT ![f].timer = -1]
Rearm(f) == [entry EXCEPT ![f].timer = entry[f].remaining]

OnTimer(f) ==
    /\ entry[f].timer = 0
    /\ IF entry[f].remaining > 0
       THEN entry' = Rearm(f) /\ UNCHANGED task
       ELSE /\ entry' = [entry EXCEPT ![f].timer = -1]
            /\ task' = [task EXCEPT ![f] =
                   IF entry[f].ready = "none" THEN "title" ELSE "ready"]
    /\ UNCHANGED <<host, seen, skew, tracked, spawns, child>>

\* The code from the last isActive check to the spawned child: an empty
\* document is skipped, a spawn that throws is reported, and either way the
\* form is settled.
Send(f, title) ==
    LET d == BuildQuestionPayload(form[f].content, title)
    IN  /\ SettleTold(f)
        /\ \/ /\ d.questions = <<>>
              /\ task' = [task EXCEPT ![f] = "done"]
              /\ UNCHANGED <<spawns, child>>
           \/ /\ d.questions # <<>>
              /\ task' = [task EXCEPT ![f] = "done"]
              /\ UNCHANGED <<spawns, child>>
           \/ /\ d.questions # <<>>
              /\ task' = [task EXCEPT ![f] = "write"]
              /\ spawns' = [spawns EXCEPT ![f] = @ + 1]
              /\ cli' = [cli EXCEPT ![f] = "start"]
              /\ doc' = [doc EXCEPT ![f] = d]
              /\ UNCHANGED <<allowed, told, row, sent>>

Titles(f) == IF SessionOf[f] \in gone THEN {Empty} ELSE {Empty, Text(TitleCap)}

\* The location is known now: a local form goes on with the session it read.
AfterReady(f) ==
    /\ task[f] = "ready"
    /\ entry[f].ready = "done"
    /\ \/ /\ ~IsActive(f) \/ ~entry[f].local
          /\ task' = [task EXCEPT ![f] = "done"]
          /\ UNCHANGED <<pending, settled, entry, spawns, child>>
       \/ /\ IsActive(f) /\ entry[f].local
          /\ \E t \in Titles(f) : Send(f, t)
    /\ UNCHANGED <<host, seen, skew, deletedSessions, disposed, streamEnded>>

\* The title lookup answers: everything may have changed meanwhile.
AfterTitle(f) ==
    /\ task[f] = "title"
    /\ \/ /\ ~IsActive(f)
          /\ task' = [task EXCEPT ![f] = "done"]
          /\ UNCHANGED <<pending, settled, entry, spawns, child>>
       \/ /\ IsActive(f)
          /\ \E t \in Titles(f) : Send(f, t)
    /\ UNCHANGED <<host, seen, skew, deletedSessions, disposed, streamEnded>>

\* The pipe takes the document and is closed.
WriteStdin(f) ==
    /\ task[f] = "write"
    /\ task' = [task EXCEPT ![f] = "exit"]
    /\ UNCHANGED <<host, seen, skew, tracked, entry, spawns, child>>

\* The write fails (the child is gone): it is terminated at once.
WriteFails(f) ==
    /\ task[f] = "write"
    /\ cli[f] \in {"exited", "killed"}
    /\ task' = [task EXCEPT ![f] = "done"]
    /\ cli' = [cli EXCEPT ![f] = "killed"]
    /\ UNCHANGED <<host, seen, skew, tracked, entry, spawns, allowed, doc, told,
                   row, sent>>

AwaitExit(f) ==
    /\ task[f] = "exit"
    /\ cli[f] \in {"exited", "killed"}
    /\ task' = [task EXCEPT ![f] = "done"]
    /\ UNCHANGED <<host, seen, skew, tracked, entry, spawns, child>>

ClearPending ==
    /\ pending' = {}
    /\ entry' = Cleared(pending)

StreamEnds ==
    /\ ~streamEnded
    /\ streamEnded' = TRUE
    /\ ClearPending
    /\ UNCHANGED <<host, seen, skew, settled, deletedSessions, disposed, task,
                   spawns, child>>

Running(f) == cli[f] \notin {"none", "exited", "killed"}

Dispose ==
    /\ ~disposed
    /\ disposed' = TRUE
    /\ ClearPending
    /\ settled' = {} /\ deletedSessions' = {}
    /\ cli' = [f \in Forms |-> IF Running(f) /\ task[f] # "done" THEN "killed"
                               ELSE cli[f]]
    /\ UNCHANGED <<host, seen, skew, streamEnded, task, spawns, allowed, doc,
                   told, row, sent>>

-----------------------------------------------------------------------------
(* The child process.                                                      *)

CliGate(f) ==
    /\ cli[f] = "start"
    /\ cli' = [cli EXCEPT ![f] = IF allowed THEN "read" ELSE "exited"]
    /\ UNCHANGED <<host, seen, skew, tracked, entry, task, spawns, allowed, doc,
                   told, row, sent>>

\* read_question_input needs the end of the pipe.
CliRead(f) ==
    /\ cli[f] = "read"
    /\ task[f] = "exit"
    /\ IF Accepted(doc[f])
       THEN /\ told' = [told EXCEPT ![f] = Normalize(doc[f])]
            /\ cli' = [cli EXCEPT ![f] = "fire"]
       ELSE /\ cli' = [cli EXCEPT ![f] = "exited"]
            /\ UNCHANGED told
    /\ UNCHANGED <<host, seen, skew, tracked, entry, task, spawns, allowed, doc,
                   row, sent>>

\* resolve_field: the environment wins over the stored setting.
Effective(c, name) == IF c.env[name] # "unset" THEN c.env[name] ELSE c.stored[name]

\* validate_for_channel: the settings each channel cannot do without.
Required(channel) ==
    CASE channel = "ntfy" -> {"base_url", "topic"}
      [] channel = "email" -> {"smtp_host", "from", "to"}
      [] OTHER -> {"url"}

\* load: disabled, unusable or ready
Load(c) ==
    CASE Effective(c, "enabled") \in {"unset", "false"} -> "disabled"
      [] Effective(c, "enabled") = "invalid" -> "error"
      [] Effective(c, "channel") \in {"unset", "invalid"} -> "error"
      [] OTHER -> IF Required(Effective(c, "channel")) \subseteq c.given
                  THEN "ready" ELSE "error"

\* deliver_with_config: two channels exist only in a build with their feature.
Built(c) == Effective(c, "channel") \in {"ntfy", "webhook"} \cup c.features

\* The row is recorded before any network work; a storage failure of a row
\* that was to be delivered ends the command.
CliFire(f) ==
    /\ cli[f] = "fire"
    /\ \E c \in Configs :
         \/ /\ Load(c) = "error"
            /\ cli' = [cli EXCEPT ![f] = "exited"]
            /\ UNCHANGED row
         \/ /\ Load(c) = "disabled"
            /\ cli' = [cli EXCEPT ![f] = "exited"]
            /\ \E r \in {"none", "skipped"} : row' = [row EXCEPT ![f] = r]
         \/ /\ Load(c) = "ready"
            /\ \/ /\ cli' = [cli EXCEPT ![f] =
                        IF Built(c) THEN "send" ELSE "failed"]
                  /\ row' = [row EXCEPT ![f] = "pending"]
               \/ /\ cli' = [cli EXCEPT ![f] = "exited"]
                  /\ UNCHANGED row
    /\ UNCHANGED <<host, seen, skew, tracked, entry, task, spawns, allowed, doc,
                   told, sent>>

\* The channel accepts the message and answers, refuses it, or accepts it and
\* the answer is lost.
CliDeliver(f) ==
    /\ cli[f] = "send"
    /\ \/ /\ cli' = [cli EXCEPT ![f] = "delivered"]
          /\ sent' = [sent EXCEPT ![f] = @ + 1]
       \/ /\ cli' = [cli EXCEPT ![f] = "failed"]
          /\ \E n \in {0, 1} : sent' = [sent EXCEPT ![f] = @ + n]
    /\ UNCHANGED <<host, seen, skew, tracked, entry, task, spawns, allowed, doc,
                   told, row>>

\* mark_result ignores a failing update.
CliMark(f) ==
    /\ cli[f] \in {"delivered", "failed"}
    /\ cli' = [cli EXCEPT ![f] = "exited"]
    /\ \E r \in {cli[f], "pending"} : row' = [row EXCEPT ![f] = r]
    /\ UNCHANGED <<host, seen, skew, tracked, entry, task, spawns, allowed, doc,
                   told, sent>>

\* QUESTION_NOTIFY_TIMEOUT_MS: the host kills the child wherever it stands.
Timeout(f) ==
    /\ Running(f)
    /\ cli' = [cli EXCEPT ![f] = "killed"]
    /\ UNCHANGED <<host, seen, skew, tracked, entry, task, spawns, allowed, doc,
                   told, row, sent>>

-----------------------------------------------------------------------------
NoForm == [life |-> "none", dir |-> "absent",
         content |-> [sid |-> Empty, fields |-> <<>>]]
NoDoc == [sid |-> Empty, title |-> Empty, project |-> Empty,
          questions |-> <<>>, omitted |-> 0]

Init ==
    /\ form = [f \in Forms |-> NoForm]
    /\ home \in [Sessions -> {"own", "other"}]
    /\ gone = {}
    /\ seen = [e \in Events |-> 0]
    /\ skew = 0
    /\ pending = {} /\ settled = {} /\ deletedSessions = {}
    /\ disposed = FALSE /\ streamEnded = FALSE
    /\ entry = [f \in Forms |-> NoEntry]
    /\ task = [f \in Forms |-> "none"]
    /\ spawns = [f \in Forms |-> 0]
    /\ allowed \in BOOLEAN
    /\ cli = [f \in Forms |-> "none"]
    /\ doc = [f \in Forms |-> NoDoc]
    /\ told = [f \in Forms |-> NoDoc]
    /\ row = [f \in Forms |-> "none"]
    /\ sent = [f \in Forms |-> 0]

Next ==
    \/ Tick \/ WallClockSetBack \/ StreamEnds \/ Dispose
    \/ \E s \in Sessions : HostDeletes(s) \/ HostMoves(s) \/ HandleDeleted(s)
    \/ \E f \in Forms :
           \/ HostCreates(f) \/ HostResolves(f)
           \/ HandleCreated(f) \/ HandleResolved(f) \/ ResolveLocation(f)
           \/ OnTimer(f) \/ AfterReady(f) \/ AfterTitle(f)
           \/ WriteStdin(f) \/ WriteFails(f) \/ AwaitExit(f)
           \/ CliGate(f) \/ CliRead(f) \/ CliFire(f) \/ CliDeliver(f)
           \/ CliMark(f) \/ Timeout(f)

\* Timers fire, the host answers lookups and a child ends or is killed.
Fairness ==
    /\ WF_vars(Tick)
    /\ \A f \in Forms :
           /\ WF_vars(OnTimer(f)) /\ WF_vars(ResolveLocation(f))
           /\ WF_vars(AfterReady(f)) /\ WF_vars(AfterTitle(f))
           /\ WF_vars(WriteStdin(f) \/ WriteFails(f)) /\ WF_vars(AwaitExit(f))
           /\ WF_vars(Timeout(f))

Spec == Init /\ [][Next]_vars /\ Fairness
-----------------------------------------------------------------------------
(* Properties.                                                             *)

\* The variables have their types; only a pending form has a timer running.
TypeOK ==
    /\ \A f \in Forms :
         /\ form[f].life \in {"none", "open", "resolved"}
         /\ form[f].dir \in {"own", "other", "absent"}
         /\ entry[f].timer \in -1 .. (Delay + MaxSkew)
         /\ entry[f].ready \in {"none", "running", "done"}
         /\ task[f] \in {"none", "ready", "title", "write", "exit", "done"}
         /\ cli[f] \in {"none", "start", "read", "fire", "send", "delivered",
                        "failed", "exited", "killed"}
         /\ row[f] \in {"none", "skipped", "pending", "delivered", "failed"}
         /\ Armed(f) => f \in pending
    /\ pending \subseteq Forms /\ settled \subseteq Forms
    /\ deletedSessions \subseteq Sessions
    /\ seen \in [Events -> 0 .. MaxSeen]

\* A form is told at most once, however often its create event is replayed
\* and however a reply, a deletion or a failed delivery falls in between
\* ("invokes the existing CLI once", notify.js:5).
ToldOnce == \A f \in Forms : spawns[f] <= 1 /\ sent[f] <= 1

\* No child is started for a form whose reply, cancellation or session
\* deletion the notifier has already handled, whose event named another
\* directory, or after the stream was lost or the notifier disposed: the
\* title lookup and the location lookup leave time for any of these.
NoStaleReminder ==
    [][\A f \in Forms : spawns'[f] > spawns[f] =>
          /\ seen[Resolved(f)] = 0
          /\ seen[Deleted(SessionOf[f])] = 0
          /\ form[f].dir # "other"
          /\ ~disposed /\ ~streamEnded]_vars

Sum(s, n(_)) == Loop(LAMBDA acc, x : acc + n(x), 0, s)
Chars(q) == q.text.n + q.header.n
              + Sum(q.options, LAMBDA o : o.label.n + o.description.n)

\* The field of the form each retained question stands for is not recorded;
\* what the reader is told about a form is checked by counts.
WithOptions(fields, n) ==
    \E i \in DOMAIN fields : Len(fields[i].options) = n

\* A document the two sides read alike.
Plain(d) == \A t \in Texts(d) : t.c1 = 0 /\ ~t.lone

\* The questions the plugin kept, in the command's cleaning: a choice of nothing but
\* C1 controls is one more omitted.
Cleaned(q) ==
    LET options == [i \in DOMAIN q.options |->
                       [label |-> CleanText(q.options[i].label),
                        description |-> CleanText(q.options[i].description)]]
        kept == SelectSeq(options, LAMBDA o : o.label.n + o.description.n > 0)
    IN  [header |-> CleanText(q.header), text |-> CleanText(q.text), options |-> kept,
         omitted |-> q.omitted + Len(options) - Len(kept)]

\* What reaches the reader is whole: the plugin bounds the form and the
\* command bounds it again, yet every question and every choice is either
\* shown or counted as omitted, each shown question has a text, and the text
\* stays within the shared budget.  The two bounds agree: the command shows
\* exactly what the plugin kept, cleaned once more, unless the stand-in for a
\* missing session id took characters the plugin had not charged.  Of a
\* document without C1 controls and lone surrogates it also holds that the
\* command never rejects it and that each question carries characters of the
\* form and not only an ellipsis.
ToldWhole ==
    \A f \in Forms :
        LET c == form[f].content
            d == doc[f]
            t == told[f]
        IN  /\ cli[f] \in {"read", "fire"} /\ Plain(d) => Accepted(d)
            /\ t # NoDoc =>
                 /\ Len(t.questions) + t.omitted = Len(c.fields)
                 /\ t.questions # <<>>
                 /\ c.sid.n > 0 =>
                      t.questions = [i \in DOMAIN d.questions |-> Cleaned(d.questions[i])]
                 /\ \A i \in DOMAIN t.questions :
                      /\ t.questions[i].text.n > 0
                      /\ Plain(d) => t.questions[i].text.real > 0
                      /\ WithOptions(c.fields, Len(t.questions[i].options)
                                                 + t.questions[i].omitted)
                 /\ t.sid.n + t.title.n + t.project.n + Sum(t.questions, Chars)
                      <= Budget

\* A message leaves only for a row that was recorded before it, and a row
\* never claims a delivery the channel did not accept.
RowsTellTheTruth ==
    \A f \in Forms :
        /\ sent[f] > 0 => row[f] \in {"pending", "delivered", "failed"}
        /\ row[f] = "delivered" => sent[f] = 1

\* No entry waits for ever: a pending form is told, settled or dropped with
\* the stream, even when the wall clock is set back while its timer runs.
PendingEnds == \A f \in Forms : f \in pending ~> f \notin pending
=============================================================================

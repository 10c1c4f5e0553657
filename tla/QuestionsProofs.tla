--------------------------- MODULE QuestionsProofs ---------------------------
(***************************************************************************)
(* Theorems about Questions, for any forms, sessions and contents, however *)
(* often the stream repeats an event and whenever an await is answered.    *)
(*                                                                         *)
(* NoStaleReminder is about one step, but what it says rests on two sets   *)
(* the notifier keeps between events: the invariant says that a handled    *)
(* reply or deletion is remembered there until the notifier is disposed.   *)
(***************************************************************************)
EXTENDS Questions, TLAPS

Contents == {NoForm.content} \cup (UNION {ContentsOf[f] : f \in Forms})
FormRows == [life : {"none", "open", "resolved"}, dir : {"own", "other", "absent"},
             content : Contents]
Entries == [local : BOOLEAN, session : BOOLEAN, timer : Int, remaining : Int,
            ready : {"none", "running", "done"}]
Tasks == {"none", "ready", "title", "write", "exit", "done"}
Stages == {"none", "start", "read", "fire", "send", "delivered", "failed", "exited",
           "killed"}
Marks == {"none", "skipped", "pending", "delivered", "failed"}

QType ==
    /\ form \in [Forms -> FormRows]
    /\ gone \subseteq Sessions /\ home \in [Sessions -> {"own", "other"}]
    /\ seen \in [Events -> 0 .. MaxSeen] /\ skew \in 0 .. MaxSkew
    /\ pending \subseteq Forms /\ settled \subseteq Forms
    /\ deletedSessions \subseteq Sessions
    /\ entry \in [Forms -> Entries] /\ task \in [Forms -> Tasks]
    /\ spawns \in [Forms -> Nat] /\ cli \in [Forms -> Stages]
    /\ row \in [Forms -> Marks] /\ sent \in [Forms -> Nat]

\* A timer runs only for a pending form, and a deadline lies ahead of it by no more than
\* the clock was set back.
Timed(x, f, waiting, back) ==
    /\ x.timer >= -1
    /\ x.timer >= 0 => /\ f \in waiting
                       /\ x.timer <= Delay + back /\ x.remaining <= Delay + back

Timing == \A f \in Forms : Timed(entry[f], f, pending, skew)

\* What the notifier remembers: a pending form was neither settled nor its session deleted,
\* and an event that was handled is remembered until the notifier is disposed.
Remembered ==
    /\ \A f \in Forms :
         /\ f \in pending => /\ f \notin settled /\ SessionOf[f] \notin deletedSessions
                             /\ form[f].life # "none" /\ form[f].dir # "other"
         /\ seen[Resolved(f)] > 0 => f \in settled \/ disposed
         /\ spawns[f] > 0 => f \in settled \/ disposed
    /\ \A s \in Sessions : seen[Deleted(s)] > 0 => s \in deletedSessions \/ disposed
    /\ disposed => pending = {}

\* A child in stage c, of n spawned for its form, with its row r and m messages sent.
Truthful(c, n, r, m) ==
    /\ n <= 1 /\ m <= 1
    /\ c # "none" => n = 1
    /\ c \in {"none", "start", "read", "fire"} => r = "none" /\ m = 0
    /\ c = "send" => m = 0
    /\ c \in {"send", "delivered", "failed"} => r = "pending"
    /\ c = "delivered" => m = 1
    /\ m > 0 => r \in {"pending", "delivered", "failed"}
    /\ r = "delivered" => m = 1

Children == \A f \in Forms : Truthful(cli[f], spawns[f], row[f], sent[f])

QInv == QType /\ Timing /\ Remembered /\ Children

(***************************************************************************)
(* Events are told apart.                                                  *)
(***************************************************************************)

LEMMA EventNames ==
    ASSUME Bounds, NEW f \in Forms, NEW s \in Sessions
    PROVE  /\ Created(f) \in Events /\ Resolved(f) \in Events /\ Deleted(s) \in Events
           /\ SessionOf[f] \in Sessions
           /\ \A g \in Forms : Resolved(f) # Created(g) /\ (Resolved(f) = Resolved(g) => f = g)
           /\ \A g \in Forms : Deleted(s) # Created(g) /\ Deleted(s) # Resolved(g)
           /\ \A t \in Sessions : Deleted(s) = Deleted(t) => s = t
  BY DEF Bounds, Events, Created, Resolved, Deleted

\* An event reaches the notifier once more.
LEMMA Delivered ==
    ASSUME Bounds, QType, NEW e \in Events, Delivers(e)
    PROVE  /\ seen' \in [Events -> 0 .. MaxSeen] /\ ~disposed
           /\ \A d \in Events : d # e => seen'[d] = seen[d]
  BY DEF QType, Bounds, Delivers

(***************************************************************************)
(* Types and timers.                                                       *)
(***************************************************************************)

\* The forms fs are no longer waited for.
LEMMA ClearedTimes ==
    ASSUME QInv, NEW fs, entry' = Cleared(fs \cap pending), pending' = pending \ fs,
           skew' = skew
    PROVE  entry' \in [Forms -> Entries] /\ Timing' /\ pending' \subseteq Forms
  <1>1. ASSUME NEW f \in Forms
        PROVE  entry'[f] \in Entries /\ Timed(entry'[f], f, pending', skew')
    <2>1. entry[f] \in Entries /\ Timed(entry[f], f, pending, skew)
      BY DEF QInv, QType, Timing
    <2>2. CASE f \in fs \cap pending
      <3>1. entry'[f] = [entry[f] EXCEPT !.timer = -1]
        BY <2>2 DEF Cleared
      <3>2. entry'[f] \in Entries /\ entry'[f].timer = -1
        BY <2>1, <3>1 DEF Entries
      <3> QED
        BY <3>2 DEF Timed
    <2>3. CASE f \notin fs \cap pending
      <3>1. entry'[f] = entry[f]
        BY <2>3 DEF Cleared
      <3> QED
        BY <2>1, <2>3, <3>1 DEF Timed
    <2> QED
      BY <2>2, <2>3
  <1>2. entry' \in [Forms -> Entries]
    BY <1>1 DEF Cleared
  <1> QED
    BY <1>1, <1>2 DEF Timing, QInv, QType

\* The entry of one form changes to x.
LEMMA OneEntry ==
    ASSUME QInv, NEW f \in Forms, NEW x \in Entries, entry' = [entry EXCEPT ![f] = x],
           Timed(x, f, pending', skew), pending \ {f} \subseteq pending', skew' = skew
    PROVE  entry' \in [Forms -> Entries] /\ Timing'
  <1>1. entry' \in [Forms -> Entries] /\ entry'[f] = x
    BY DEF QInv, QType
  <1>2. ASSUME NEW g \in Forms, g # f
        PROVE  Timed(entry'[g], g, pending', skew')
    <2>1. entry'[g] = entry[g] /\ Timed(entry[g], g, pending, skew)
      BY <1>2 DEF QInv, QType, Timing
    <2> QED
      BY <1>2, <2>1 DEF Timed
  <1> QED
    BY <1>1, <1>2 DEF Timing

LEMMA HostTypes ==
    ASSUME Bounds, QInv,
           \/ \E s \in Sessions : HostDeletes(s) \/ HostMoves(s)
           \/ \E f \in Forms : HostCreates(f) \/ HostResolves(f)
    PROVE  QType' /\ Timing'
  <1>1. /\ UNCHANGED <<seen, skew, tracked, entry, task, spawns, child>>
        /\ Timing'
    BY DEF HostDeletes, HostMoves, HostCreates, HostResolves, QInv, Timing, tracked
  <1>2. gone' \subseteq Sessions /\ home' \in [Sessions -> {"own", "other"}]
    BY DEF HostDeletes, HostMoves, HostCreates, HostResolves, QInv, QType
  <1>3. form' \in [Forms -> FormRows]
    <2>1. CASE \E s \in Sessions : HostDeletes(s) \/ HostMoves(s)
      BY <2>1 DEF HostDeletes, HostMoves, QInv, QType
    <2>2. ASSUME NEW f \in Forms, HostCreates(f)
          PROVE  form' \in [Forms -> FormRows]
      <3>1. PICK dir \in {"own", "other", "absent"}, c \in ContentsOf[f] :
              form' = [form EXCEPT ![f] = [life |-> "open", dir |-> dir, content |-> c]]
        BY <2>2 DEF HostCreates
      <3>2. [life |-> "open", dir |-> dir, content |-> c] \in FormRows
        BY DEF FormRows, Contents
      <3> QED
        BY <3>1, <3>2 DEF QInv, QType
    <2>3. ASSUME NEW f \in Forms, HostResolves(f)
          PROVE  form' \in [Forms -> FormRows]
      <3>1. form[f] \in FormRows
        BY DEF QInv, QType
      <3>2. [form[f] EXCEPT !.life = "resolved"] \in FormRows
        BY <3>1 DEF FormRows
      <3> QED
        BY <2>3, <3>2 DEF HostResolves, QInv, QType
    <2> QED
      BY <2>1, <2>2, <2>3
  <1> QED
    BY <1>1, <1>2, <1>3 DEF QInv, QType, tracked, child

LEMMA ClockTypes ==
    ASSUME Bounds, QInv, Tick \/ WallClockSetBack
    PROVE  QType' /\ Timing'
  <1>1. UNCHANGED <<host, seen, tracked, task, spawns, child>>
    BY DEF Tick, WallClockSetBack
  <1>4. skew' \in 0 .. MaxSkew
    <2>1. skew \in 0 .. MaxSkew /\ MaxSkew \in Nat
      BY DEF QInv, QType, Bounds
    <2>2. CASE Tick
      BY <2>1, <2>2 DEF Tick
    <2>3. CASE WallClockSetBack
      BY <2>1, <2>3 DEF WallClockSetBack
    <2> QED
      BY <2>2, <2>3
  <1>2. ASSUME NEW f \in Forms
        PROVE  entry'[f] \in Entries /\ Timed(entry'[f], f, pending', skew')
    <2>1. /\ entry[f] \in Entries /\ Timed(entry[f], f, pending, skew)
          /\ skew \in Nat /\ Delay \in Nat /\ pending' = pending
      BY <1>1 DEF QInv, QType, Timing, Bounds, tracked
    <2>2. CASE ~Armed(f)
      <3>1. entry'[f] = entry[f]
        BY <2>2 DEF Tick, WallClockSetBack
      <3> QED
        BY <2>1, <2>2, <3>1 DEF Timed, Armed, Entries
    <2>3. CASE Armed(f) /\ Tick
      <3> DEFINE x == [entry[f] EXCEPT !.timer = IF @ > 0 THEN @ - 1 ELSE 0]
      <3>0. x \in Entries /\ x.remaining = entry[f].remaining
            /\ x.timer = IF entry[f].timer > 0 THEN entry[f].timer - 1 ELSE 0
        BY <2>1 DEF Entries
      <3>1. entry'[f] = [x EXCEPT !.remaining = @ - 1]
        BY <2>1, <2>3 DEF Tick, Entries
      <3> HIDE DEF x
      <3>2. /\ entry'[f] \in Entries /\ entry'[f].remaining = entry[f].remaining - 1
            /\ entry'[f].timer = IF entry[f].timer > 0 THEN entry[f].timer - 1 ELSE 0
        BY <3>0, <3>1 DEF Entries
      <3>3. skew' = skew
        BY <2>3 DEF Tick
      <3>4. entry[f].timer \in Int /\ entry[f].remaining \in Int
        BY <2>1 DEF Entries
      <3> QED
        BY <2>1, <2>3, <3>2, <3>3, <3>4 DEF Timed, Armed
    <2>4. CASE Armed(f) /\ WallClockSetBack
      <3>1. entry'[f] = [entry[f] EXCEPT !.remaining = @ + 1] /\ skew' = skew + 1
        BY <2>4 DEF WallClockSetBack
      <3>2. /\ entry'[f] \in Entries /\ entry'[f].remaining = entry[f].remaining + 1
            /\ entry'[f].timer = entry[f].timer
        BY <2>1, <3>1 DEF Entries
      <3>3. entry[f].timer \in Int /\ entry[f].remaining \in Int
        BY <2>1 DEF Entries
      <3> QED
        BY <2>1, <2>4, <3>1, <3>2, <3>3 DEF Timed, Armed
    <2> QED
      BY <2>2, <2>3, <2>4
  <1>3. entry' \in [Forms -> Entries]
    BY <1>2 DEF Tick, WallClockSetBack
  <1> QED
    BY <1>1, <1>2, <1>3, <1>4 DEF QInv, QType, Timing, host, tracked, child

LEMMA HandlerTypes ==
    ASSUME Bounds, QInv,
           \/ StreamEnds \/ Dispose \/ \E s \in Sessions : HandleDeleted(s)
           \/ \E f \in Forms : HandleResolved(f) \/ HandleCreated(f) \/ ResolveLocation(f)
    PROVE  QType' /\ Timing'
  <1>1. CASE StreamEnds
    <2>1. /\ entry' = Cleared(pending \cap pending) /\ pending' = pending \ pending
          /\ UNCHANGED <<host, seen, skew, settled, deletedSessions, task, spawns, child>>
      BY <1>1 DEF StreamEnds, ClearPending
    <2> QED
      BY <2>1, ClearedTimes DEF QInv, QType, host, child
  <1>2. CASE Dispose
    <2>1. /\ entry' = Cleared(pending \cap pending) /\ pending' = pending \ pending
          /\ UNCHANGED <<host, seen, skew, task, spawns, row, sent>>
          /\ settled' = {} /\ deletedSessions' = {}
      BY <1>2 DEF Dispose, ClearPending
    <2>2. cli' \in [Forms -> Stages]
      BY <1>2 DEF Dispose, QInv, QType, Stages
    <2> QED
      BY <2>1, <2>2, ClearedTimes DEF QInv, QType, host
  <1>3. ASSUME NEW s \in Sessions, HandleDeleted(s)
        PROVE  QType' /\ Timing'
    <2> DEFINE fs == {f \in pending : SessionOf[f] = s}
    <2>1. /\ SettleForm(fs) /\ Delivers(Deleted(s))
          /\ deletedSessions' = deletedSessions \cup {s}
          /\ UNCHANGED <<host, skew, task, spawns, child>>
      BY <1>3 DEF HandleDeleted
    <2>2. fs \subseteq Forms
      BY DEF QInv, QType
    <2>3. seen' \in [Events -> 0 .. MaxSeen]
      BY <2>1, Delivered DEF Events, QInv
    <2>4. entry' = Cleared(fs \cap pending) /\ pending' = pending \ fs /\ settled' \subseteq Forms
      BY <2>1, <2>2 DEF SettleForm, QInv, QType
    <2> HIDE DEF fs
    <2> QED
      BY <2>1, <2>3, <2>4, ClearedTimes DEF QInv, QType, host, child
  <1>4. ASSUME NEW f \in Forms, HandleResolved(f)
        PROVE  QType' /\ Timing'
    <2>1. /\ SettleForm({f}) /\ Delivers(Resolved(f))
          /\ UNCHANGED <<host, skew, deletedSessions, task, spawns, child>>
      BY <1>4 DEF HandleResolved
    <2>2. seen' \in [Events -> 0 .. MaxSeen]
      BY <2>1, Delivered DEF Events, QInv
    <2>3. entry' = Cleared({f} \cap pending) /\ pending' = pending \ {f} /\ settled' \subseteq Forms
      BY <2>1 DEF SettleForm, QInv, QType
    <2> QED
      BY <2>1, <2>2, <2>3, ClearedTimes DEF QInv, QType, host, child
  <1>5. ASSUME NEW f \in Forms, HandleCreated(f)
        PROVE  QType' /\ Timing'
    <2>1. /\ Delivers(Created(f)) /\ (UNCHANGED <<pending, entry>> \/ Track(f))
          /\ UNCHANGED <<host, skew, settled, deletedSessions, task, spawns, child>>
      BY <1>5 DEF HandleCreated
    <2>2. seen' \in [Events -> 0 .. MaxSeen]
      BY <2>1, Delivered DEF Events, QInv
    <2>3. CASE UNCHANGED <<pending, entry>>
      BY <2>1, <2>2, <2>3 DEF QInv, QType, host, child, Timing
    <2>4. CASE Track(f)
      <3> DEFINE x == [local |-> form[f].dir = "own", session |-> FALSE,
                       timer |-> Delay, remaining |-> Delay,
                       ready |-> IF form[f].dir = "absent" THEN "running" ELSE "none"]
      <3>1. x \in Entries /\ x.timer = Delay /\ x.remaining = Delay
        BY DEF Entries, Bounds
      <3>2. entry' = [entry EXCEPT ![f] = x] /\ pending' = pending \cup {f}
        BY <2>4 DEF Track
      <3> HIDE DEF x
      <3>3. Timed(x, f, pending', skew)
        BY <3>1, <3>2 DEF Timed, Bounds, QInv, QType
      <3>4. entry' \in [Forms -> Entries] /\ Timing'
        BY <2>1, <3>1, <3>2, <3>3, OneEntry
      <3> QED
        BY <2>1, <2>2, <3>2, <3>4 DEF QInv, QType, host, child
    <2> QED
      BY <2>1, <2>3, <2>4
  <1>6. ASSUME NEW f \in Forms, ResolveLocation(f)
        PROVE  QType' /\ Timing'
    <2>1. UNCHANGED <<host, seen, skew, deletedSessions, task, spawns, child>>
      BY <1>6 DEF ResolveLocation
    <2>2. entry[f] \in Entries /\ Timed(entry[f], f, pending, skew) /\ skew \in Nat /\ Delay \in Nat
      BY DEF QInv, QType, Timing, Bounds
    <2>3. ASSUME NEW x \in Entries, entry' = [entry EXCEPT ![f] = x],
                 \/ x.timer = entry[f].timer /\ x.remaining = entry[f].remaining
                      /\ UNCHANGED <<pending, settled>>
                 \/ x.timer = -1 /\ pending' = pending \ {f} /\ settled' = settled \cup {f}
          PROVE  QType' /\ Timing'
      <3>1. Timed(x, f, pending', skew) /\ pending \ {f} \subseteq pending'
        BY <2>2, <2>3 DEF Timed
      <3>2. entry' \in [Forms -> Entries] /\ Timing'
        BY <2>1, <2>3, <3>1, OneEntry
      <3> QED
        BY <2>1, <2>3, <3>2 DEF QInv, QType, host, child
    <2> DEFINE a == [entry[f] EXCEPT !.ready = "done"]
               b == [a EXCEPT !.timer = -1]
               c == [a EXCEPT !.local = TRUE, !.session = TRUE]
    <2>4. /\ a \in Entries /\ a.timer = entry[f].timer /\ a.remaining = entry[f].remaining
      BY <2>2 DEF Entries
    <2>5. \/ entry' = [entry EXCEPT ![f] = a] /\ UNCHANGED <<pending, settled>>
          \/ /\ entry' = [entry EXCEPT ![f] = b]
             /\ settled' = settled \cup {f} /\ pending' = pending \ {f}
          \/ entry' = [entry EXCEPT ![f] = c] /\ UNCHANGED <<pending, settled>>
      <3>1. PICK found \in Lookup(f) :
              IF ~IsActive(f)
              THEN /\ entry' = [entry EXCEPT ![f].ready = "done"]
                   /\ UNCHANGED <<pending, settled>>
              ELSE IF found # "own"
              THEN /\ settled' = settled \cup {f}
                   /\ pending' = pending \ {f}
                   /\ entry' = [entry EXCEPT ![f].ready = "done", ![f].timer = -1]
              ELSE /\ entry' = [entry EXCEPT ![f].ready = "done",
                                             ![f].local = TRUE, ![f].session = TRUE]
                   /\ UNCHANGED <<pending, settled>>
        BY <1>6 DEF ResolveLocation
      <3>2. entry \in [Forms -> Entries]
        BY DEF QInv, QType
      <3>3. [entry EXCEPT ![f].ready = "done", ![f].timer = -1] = [entry EXCEPT ![f] = b]
        BY <2>2, <3>2 DEF Entries
      <3>4. [entry EXCEPT ![f].ready = "done", ![f].local = TRUE, ![f].session = TRUE]
              = [entry EXCEPT ![f] = c]
        BY <2>2, <3>2 DEF Entries
      <3> QED
        BY <3>1, <3>3, <3>4
    <2> HIDE DEF a
    <2>6. b \in Entries /\ b.timer = -1
      BY <2>4 DEF Entries
    <2>7. c \in Entries /\ c.timer = a.timer /\ c.remaining = a.remaining
      BY <2>4 DEF Entries
    <2> HIDE DEF b, c
    <2> QED
      BY <2>3, <2>4, <2>5, <2>6, <2>7
  <1> QED
    BY <1>1, <1>2, <1>3, <1>4, <1>5, <1>6

\* What a step of the delivery task of f does: it ends, or it settles the form and may
\* start the child, which it does only for a form that is still waited for.
Sends(f) ==
    /\ IsActive(f)
    /\ SettleForm({f})
    /\ \/ UNCHANGED <<spawns, cli>>
       \/ spawns' = [spawns EXCEPT ![f] = @ + 1] /\ cli' = [cli EXCEPT ![f] = "start"]

LEMMA DeliveryTask ==
    ASSUME QInv, NEW f \in Forms, AfterReady(f) \/ AfterTitle(f)
    PROVE  /\ task' \in [Forms -> Tasks]
           /\ UNCHANGED <<host, seen, skew, deletedSessions, disposed, streamEnded, row, sent>>
           /\ Sends(f) \/ UNCHANGED <<pending, settled, entry, spawns, cli>>
  <1>1. task \in [Forms -> Tasks]
    BY DEF QInv, QType
  <1>2. ASSUME NEW t, Send(f, t)
        PROVE  /\ SettleForm({f}) /\ task' \in [Forms -> Tasks] /\ UNCHANGED <<row, sent>>
               /\ \/ UNCHANGED <<spawns, cli>>
                  \/ /\ spawns' = [spawns EXCEPT ![f] = @ + 1]
                     /\ cli' = [cli EXCEPT ![f] = "start"]
    BY <1>1, <1>2 DEF Send, SettleTold, Tasks, child
  <1>3. /\ UNCHANGED <<host, seen, skew, deletedSessions, disposed, streamEnded>>
        /\ \/ /\ task' = [task EXCEPT ![f] = "done"]
              /\ UNCHANGED <<pending, settled, entry, spawns, child>>
           \/ IsActive(f) /\ \E t \in Titles(f) : Send(f, t)
    BY DEF AfterReady, AfterTitle
  <1>4. CASE /\ task' = [task EXCEPT ![f] = "done"]
             /\ UNCHANGED <<pending, settled, entry, spawns, child>>
    BY <1>1, <1>3, <1>4 DEF Tasks, child
  <1>5. CASE IsActive(f) /\ \E t \in Titles(f) : Send(f, t)
    BY <1>2, <1>3, <1>5 DEF Sends
  <1> QED
    BY <1>3, <1>4, <1>5

LEMMA TaskTypes ==
    ASSUME Bounds, QInv, NEW f \in Forms,
           \/ OnTimer(f) \/ AfterReady(f) \/ AfterTitle(f)
           \/ WriteStdin(f) \/ WriteFails(f) \/ AwaitExit(f)
    PROVE  QType' /\ Timing'
  <1>1. CASE OnTimer(f)
    <2>1. entry[f] \in Entries /\ Timed(entry[f], f, pending, skew) /\ entry[f].timer = 0
          /\ skew \in Nat /\ Delay \in Nat
      BY <1>1 DEF OnTimer, QInv, QType, Timing, Bounds
    <2>2. UNCHANGED <<host, seen, skew, tracked, spawns, child>> /\ task' \in [Forms -> Tasks]
      BY <1>1 DEF OnTimer, QInv, QType, Tasks
    <2> DEFINE n == IF entry[f].remaining > 0 THEN entry[f].remaining ELSE -1
               x == [entry[f] EXCEPT !.timer = n]
    <2>3. entry' = [entry EXCEPT ![f] = x]
      BY <1>1 DEF OnTimer, Rearm
    <2>4. entry[f].remaining \in Int
      BY <2>1 DEF Entries
    <2>5. n \in Int /\ n >= -1 /\ (n >= 0 => n = entry[f].remaining)
      BY <2>4
    <2> HIDE DEF n
    <2>6. x \in Entries /\ x.timer = n /\ x.remaining = entry[f].remaining
      BY <2>1, <2>5 DEF Entries
    <2> HIDE DEF x
    <2>7. Timed(x, f, pending', skew) /\ pending' = pending
      BY <2>1, <2>2, <2>5, <2>6 DEF Timed, tracked
    <2>8. entry' \in [Forms -> Entries] /\ Timing'
      BY <2>2, <2>3, <2>6, <2>7, OneEntry
    <2> QED
      BY <2>2, <2>8 DEF QInv, QType, host, tracked, child
  <1>2. CASE AfterReady(f) \/ AfterTitle(f)
    <2>1. /\ task' \in [Forms -> Tasks]
          /\ UNCHANGED <<host, seen, skew, deletedSessions, row, sent>>
      BY <1>2, DeliveryTask
    <2>2. CASE UNCHANGED <<pending, settled, entry, spawns, cli>>
      BY <2>1, <2>2 DEF QInv, QType, Timing, host
    <2>3. CASE Sends(f)
      <3>1. entry' = Cleared({f} \cap pending) /\ pending' = pending \ {f} /\ settled' \subseteq Forms
        BY <2>3 DEF Sends, SettleForm, QInv, QType
      <3>2. spawns' \in [Forms -> Nat] /\ cli' \in [Forms -> Stages]
        BY <2>3 DEF Sends, QInv, QType, Stages
      <3> QED
        BY <2>1, <3>1, <3>2, ClearedTimes DEF QInv, QType, host
    <2> QED
      BY <1>2, <2>2, <2>3, DeliveryTask
  <1>3. CASE WriteStdin(f) \/ WriteFails(f) \/ AwaitExit(f)
    <2>1. /\ UNCHANGED <<host, seen, skew, tracked, entry, spawns, row, sent>>
          /\ task' \in [Forms -> Tasks] /\ cli' \in [Forms -> Stages]
      BY <1>3 DEF WriteStdin, WriteFails, AwaitExit, QInv, QType, Tasks, Stages, child
    <2> QED
      BY <2>1 DEF QInv, QType, Timing, host, tracked
  <1> QED
    BY <1>1, <1>2, <1>3

\* The steps of the child of f.
ChildSteps(f) ==
    CliGate(f) \/ CliRead(f) \/ CliFire(f) \/ CliDeliver(f) \/ CliMark(f) \/ Timeout(f)

LEMMA ChildTypes ==
    ASSUME Bounds, QInv, NEW f \in Forms, ChildSteps(f)
    PROVE  /\ QType' /\ Timing'
           /\ UNCHANGED <<host, seen, skew, tracked, entry, task, spawns>>
  <1>1. UNCHANGED <<host, seen, skew, tracked, entry, task, spawns>>
    BY DEF ChildSteps, CliGate, CliRead, CliFire, CliDeliver, CliMark, Timeout
  <1>2. cli \in [Forms -> Stages] /\ row \in [Forms -> Marks] /\ sent \in [Forms -> Nat]
    BY DEF QInv, QType
  <1>3. CASE CliGate(f) \/ CliRead(f) \/ Timeout(f)
    <2>1. cli' \in [Forms -> Stages] /\ UNCHANGED <<row, sent>>
      BY <1>2, <1>3 DEF CliGate, CliRead, Timeout, Stages
    <2> QED
      BY <1>1, <2>1 DEF QInv, QType, Timing, host, tracked
  <1>4. CASE CliFire(f)
    <2>1. cli' \in [Forms -> Stages] /\ row' \in [Forms -> Marks] /\ UNCHANGED sent
      BY <1>2, <1>4 DEF CliFire, Stages, Marks
    <2> QED
      BY <1>1, <2>1 DEF QInv, QType, Timing, host, tracked
  <1>5. CASE CliDeliver(f)
    <2>1. cli' \in [Forms -> Stages] /\ sent' \in [Forms -> Nat] /\ UNCHANGED row
      BY <1>2, <1>5 DEF CliDeliver, Stages
    <2> QED
      BY <1>1, <2>1 DEF QInv, QType, Timing, host, tracked
  <1>6. CASE CliMark(f)
    <2>1. cli' \in [Forms -> Stages] /\ row' \in [Forms -> Marks] /\ UNCHANGED sent
      BY <1>2, <1>6 DEF CliMark, Stages, Marks
    <2> QED
      BY <1>1, <2>1 DEF QInv, QType, Timing, host, tracked
  <1> QED
    BY <1>1, <1>3, <1>4, <1>5, <1>6 DEF ChildSteps

(***************************************************************************)
(* What the notifier remembers.                                            *)
(***************************************************************************)

LEMMA HostRemembers ==
    ASSUME Bounds, QInv,
           \/ \E s \in Sessions : HostDeletes(s) \/ HostMoves(s)
           \/ \E f \in Forms : HostCreates(f) \/ HostResolves(f)
    PROVE  Remembered'
  <1>1. UNCHANGED <<seen, pending, settled, deletedSessions, disposed, spawns>>
    BY DEF HostDeletes, HostMoves, HostCreates, HostResolves, tracked
  <1>2. ASSUME NEW g \in Forms, g \in pending
        PROVE  form'[g].life # "none" /\ form'[g].dir # "other"
    <2>1. form[g] \in FormRows /\ form[g].life # "none" /\ form[g].dir # "other"
      BY <1>2 DEF QInv, QType, Remembered
    <2>2. CASE form'[g] = form[g]
      BY <2>1, <2>2
    <2>3. CASE form'[g] = [form[g] EXCEPT !.life = "resolved"]
      BY <2>1, <2>3 DEF FormRows
    <2>4. form'[g] = form[g] \/ form'[g] = [form[g] EXCEPT !.life = "resolved"]
      BY <2>1 DEF HostDeletes, HostMoves, HostCreates, HostResolves, QInv, QType
    <2> QED
      BY <2>2, <2>3, <2>4
  <1> QED
    BY <1>1, <1>2 DEF QInv, Remembered

\* Whoever is settled is no longer waited for, and stays remembered.
LEMMA SettledRemembers ==
    ASSUME Bounds, QInv, NEW fs \in SUBSET Forms,
           settled' = settled \cup fs, pending' = pending \ fs,
           UNCHANGED <<form, deletedSessions, disposed>>,
           \A f \in Forms : seen'[Resolved(f)] > 0 => seen[Resolved(f)] > 0 \/ f \in fs,
           \A s \in Sessions : seen'[Deleted(s)] = seen[Deleted(s)],
           \A f \in Forms : spawns'[f] > 0 => spawns[f] > 0 \/ f \in fs
    PROVE  Remembered'
  BY DEF QInv, Remembered

LEMMA HandlerRemembers ==
    ASSUME Bounds, QInv,
           \/ StreamEnds \/ Dispose \/ \E s \in Sessions : HandleDeleted(s)
           \/ \E f \in Forms : HandleResolved(f) \/ HandleCreated(f) \/ ResolveLocation(f)
    PROVE  Remembered'
  <1>0. Remembered /\ QType /\ pending \subseteq Forms
    BY DEF QInv, QType
  <1>1. CASE StreamEnds
    BY <1>0, <1>1 DEF StreamEnds, ClearPending, Remembered, host
  <1>2. CASE Dispose
    BY <1>0, <1>2 DEF Dispose, ClearPending, Remembered, host
  <1>3. ASSUME NEW s \in Sessions, HandleDeleted(s)
        PROVE  Remembered'
    <2> DEFINE fs == {f \in pending : SessionOf[f] = s}
    <2>1. /\ settled' = settled \cup fs /\ pending' = pending \ fs
          /\ Delivers(Deleted(s)) /\ deletedSessions' = deletedSessions \cup {s}
          /\ UNCHANGED <<form, disposed, spawns>>
      BY <1>3 DEF HandleDeleted, SettleForm, host
    <2>2. /\ \A d \in Events : d # Deleted(s) => seen'[d] = seen[d]
          /\ Deleted(s) \in Events /\ ~disposed
      BY <1>0, <2>1, Delivered DEF Events
    <2>3. ASSUME NEW f \in Forms
          PROVE  seen'[Resolved(f)] = seen[Resolved(f)]
      BY <2>2, EventNames
    <2>4. ASSUME NEW t \in Sessions, t # s
          PROVE  seen'[Deleted(t)] = seen[Deleted(t)]
      BY <2>2, <2>4 DEF Deleted, Events
    <2> QED
      BY <1>0, <2>1, <2>2, <2>3, <2>4 DEF Remembered
  <1>4. ASSUME NEW f \in Forms, HandleResolved(f)
        PROVE  Remembered'
    <2>1. /\ settled' = settled \cup {f} /\ pending' = pending \ {f}
          /\ Delivers(Resolved(f))
          /\ UNCHANGED <<form, deletedSessions, disposed, spawns>>
      BY <1>4 DEF HandleResolved, SettleForm, host
    <2>2. /\ \A d \in Events : d # Resolved(f) => seen'[d] = seen[d]
      BY <1>0, <2>1, Delivered DEF Events
    <2>3. ASSUME NEW g \in Forms, g # f
          PROVE  seen'[Resolved(g)] = seen[Resolved(g)]
      BY <2>2, <2>3 DEF Resolved, Events
    <2>4. ASSUME NEW t \in Sessions
          PROVE  seen'[Deleted(t)] = seen[Deleted(t)]
      BY <2>2, EventNames
    <2> QED
      BY <2>1, <2>3, <2>4, SettledRemembers
  <1>5. ASSUME NEW f \in Forms, HandleCreated(f)
        PROVE  Remembered'
    <2>1. /\ Delivers(Created(f)) /\ form[f].life # "none"
          /\ IF Ignored(f) THEN UNCHANGED pending ELSE pending' = pending \cup {f}
          /\ UNCHANGED <<form, settled, deletedSessions, disposed, spawns>>
      BY <1>5 DEF HandleCreated, Track, host
    <2>2. /\ \A d \in Events : d # Created(f) => seen'[d] = seen[d]
          /\ ~disposed
      BY <1>0, <2>1, Delivered DEF Events
    <2>3. ASSUME NEW g \in Forms
          PROVE  seen'[Resolved(g)] = seen[Resolved(g)]
      BY <2>2, EventNames DEF Resolved, Created, Events
    <2>4. ASSUME NEW t \in Sessions
          PROVE  seen'[Deleted(t)] = seen[Deleted(t)]
      BY <2>2, EventNames DEF Deleted, Created, Events
    <2>5. ASSUME NEW g \in Forms, g \in pending'
          PROVE  /\ g \notin settled /\ SessionOf[g] \notin deletedSessions
                 /\ form[g].life # "none" /\ form[g].dir # "other"
      BY <1>0, <2>1, <2>5 DEF Remembered, Ignored
    <2> QED
      BY <1>0, <2>1, <2>2, <2>3, <2>4, <2>5 DEF Remembered
  <1>6. ASSUME NEW f \in Forms, ResolveLocation(f)
        PROVE  Remembered'
    <2>1. /\ UNCHANGED <<form, seen, deletedSessions, disposed, spawns>>
          /\ \/ UNCHANGED <<pending, settled>>
             \/ settled' = settled \cup {f} /\ pending' = pending \ {f}
      BY <1>6 DEF ResolveLocation, host
    <2>2. CASE UNCHANGED <<pending, settled>>
      BY <1>0, <2>1, <2>2 DEF Remembered
    <2>3. CASE settled' = settled \cup {f} /\ pending' = pending \ {f}
      BY <2>1, <2>3, SettledRemembers
    <2> QED
      BY <2>1, <2>2, <2>3
  <1> QED
    BY <1>1, <1>2, <1>3, <1>4, <1>5, <1>6

LEMMA TaskRemembers ==
    ASSUME Bounds, QInv, NEW f \in Forms, AfterReady(f) \/ AfterTitle(f)
    PROVE  Remembered'
  <1>1. UNCHANGED <<form, seen, deletedSessions, disposed>>
    BY DeliveryTask DEF host
  <1>2. CASE UNCHANGED <<pending, settled, entry, spawns, cli>>
    BY <1>1, <1>2 DEF QInv, Remembered
  <1>3. CASE Sends(f)
    <2>1. settled' = settled \cup {f} /\ pending' = pending \ {f}
      BY <1>3 DEF Sends, SettleForm
    <2>2. \A g \in Forms : spawns'[g] > 0 => spawns[g] > 0 \/ g \in {f}
      BY <1>3 DEF Sends, QInv, QType
    <2>3. \A g \in Forms : seen'[Resolved(g)] > 0 => seen[Resolved(g)] > 0 \/ g \in {f}
      BY <1>1
    <2>4. \A s \in Sessions : seen'[Deleted(s)] = seen[Deleted(s)]
      BY <1>1
    <2> QED
      BY <1>1, <2>1, <2>2, <2>3, <2>4 DEF QInv, Remembered
  <1> QED
    BY <1>2, <1>3, DeliveryTask

(***************************************************************************)
(* The child and its row.                                                  *)
(***************************************************************************)

\* The child of one form changes.
LEMMA OneChild ==
    ASSUME QInv, NEW f \in Forms, Truthful(cli'[f], spawns'[f], row'[f], sent'[f]),
           \A g \in Forms : g # f => /\ cli'[g] = cli[g] /\ spawns'[g] = spawns[g]
                                     /\ row'[g] = row[g] /\ sent'[g] = sent[g]
    PROVE  Children'
  <1>1. ASSUME NEW g \in Forms
        PROVE  Truthful(cli'[g], spawns'[g], row'[g], sent'[g])
    BY DEF QInv, Children
  <1> QED
    BY <1>1 DEF Children

LEMMA ChildTruthful ==
    ASSUME Bounds, QInv, NEW f \in Forms, ChildSteps(f)
    PROVE  Children'
  <1>1. /\ Truthful(cli[f], spawns[f], row[f], sent[f]) /\ spawns' = spawns
        /\ cli \in [Forms -> Stages] /\ row \in [Forms -> Marks] /\ sent \in [Forms -> Nat]
        /\ spawns \in [Forms -> Nat]
    BY ChildTypes DEF QInv, QType, Children
  <1>2. \A g \in Forms : g # f => /\ cli'[g] = cli[g] /\ spawns'[g] = spawns[g]
                                  /\ row'[g] = row[g] /\ sent'[g] = sent[g]
    BY <1>1 DEF ChildSteps, CliGate, CliRead, CliFire, CliDeliver, CliMark, Timeout
  <1>3. CASE CliGate(f)
    BY <1>1, <1>2, <1>3, OneChild DEF CliGate, Truthful
  <1>4. CASE CliRead(f)
    BY <1>1, <1>2, <1>4, OneChild DEF CliRead, Truthful
  <1>5. CASE Timeout(f)
    BY <1>1, <1>2, <1>5, OneChild DEF Timeout, Running, Truthful, Stages
  <1>6. CASE CliFire(f)
    <2>1. /\ cli[f] = "fire" /\ sent' = sent
          /\ \/ cli'[f] = "exited" /\ row'[f] \in {row[f], "none", "skipped"}
             \/ cli'[f] \in {"send", "failed"} /\ row'[f] = "pending"
      BY <1>1, <1>6 DEF CliFire
    <2> QED
      BY <1>1, <1>2, <2>1, OneChild DEF Truthful
  <1>7. CASE CliDeliver(f)
    <2>1. /\ cli[f] = "send" /\ row' = row
          /\ \/ cli'[f] = "delivered" /\ sent'[f] = sent[f] + 1
             \/ cli'[f] = "failed" /\ sent'[f] \in {sent[f] + 0, sent[f] + 1}
      BY <1>1, <1>7 DEF CliDeliver
    <2> QED
      BY <1>1, <1>2, <2>1, OneChild DEF Truthful
  <1>8. CASE CliMark(f)
    <2>1. /\ cli[f] \in {"delivered", "failed"} /\ sent' = sent
          /\ cli'[f] = "exited" /\ row'[f] \in {cli[f], "pending"}
      BY <1>1, <1>8 DEF CliMark
    <2> QED
      BY <1>1, <1>2, <2>1, OneChild DEF Truthful
  <1> QED
    BY <1>3, <1>4, <1>5, <1>6, <1>7, <1>8 DEF ChildSteps

LEMMA TaskTruthful ==
    ASSUME Bounds, QInv, NEW f \in Forms, AfterReady(f) \/ AfterTitle(f) \/ WriteFails(f)
    PROVE  Children'
  <1>1. /\ Truthful(cli[f], spawns[f], row[f], sent[f])
        /\ cli \in [Forms -> Stages] /\ spawns \in [Forms -> Nat]
    BY DEF QInv, QType, Children
  <1>2. CASE WriteFails(f)
    <2>1. cli[f] \in {"exited", "killed"} /\ cli' = [cli EXCEPT ![f] = "killed"]
          /\ UNCHANGED <<spawns, row, sent>>
      BY <1>2 DEF WriteFails
    <2> QED
      BY <1>1, <2>1, OneChild DEF Truthful
  <1>3. CASE (AfterReady(f) \/ AfterTitle(f)) /\ UNCHANGED <<spawns, cli>>
    BY <1>3, DeliveryTask DEF QInv, Children
  <1>4. CASE (AfterReady(f) \/ AfterTitle(f)) /\ Sends(f) /\ ~UNCHANGED <<spawns, cli>>
    <2>1. /\ spawns' = [spawns EXCEPT ![f] = @ + 1] /\ cli' = [cli EXCEPT ![f] = "start"]
          /\ UNCHANGED <<row, sent>>
      BY <1>4, DeliveryTask DEF Sends
    <2>2. spawns[f] = 0
      BY <1>1, <1>4 DEF Sends, IsActive, QInv, Remembered
    <2>3. Truthful(cli'[f], spawns'[f], row'[f], sent'[f])
      BY <1>1, <2>1, <2>2 DEF Truthful
    <2> QED
      BY <1>1, <2>1, <2>3, OneChild
  <1> QED
    BY <1>2, <1>3, <1>4, DeliveryTask

(***************************************************************************)
(* Theorems.                                                               *)
(***************************************************************************)

LEMMA QuestionsInit ==
    ASSUME Bounds, Init
    PROVE  QInv
  <1>1. NoForm \in FormRows /\ NoForm.life = "none"
    <2> DEFINE c == [sid |-> Empty, fields |-> <<>>]
               x == [life |-> "none", dir |-> "absent", content |-> c]
    <2>1. NoForm = x
      BY DEF NoForm
    <2> HIDE DEF c
    <2>2. x.content = c /\ x.life = "none"
      OBVIOUS
    <2>5. NoForm.content = c
      BY <2>1, <2>2
    <2>3. c \in Contents
      BY <2>5 DEF Contents
    <2>4. x \in FormRows
      BY <2>3 DEF FormRows
    <2> QED
      BY <2>1, <2>2, <2>4
  <1>2. NoEntry \in Entries /\ NoEntry.timer = -1
    BY DEF NoEntry, Entries
  <1>3. QType
    BY <1>1, <1>2 DEF Init, QType, Bounds, Tasks, Stages, Marks
  <1>4. Timing
    BY <1>2 DEF Init, Timing, Timed
  <1>5. Remembered
    <2>1. ASSUME NEW f \in Forms PROVE seen[Resolved(f)] = 0
      BY DEF Init, Events, Resolved
    <2>2. ASSUME NEW s \in Sessions PROVE seen[Deleted(s)] = 0
      BY DEF Init, Events, Deleted
    <2> QED
      BY <2>1, <2>2 DEF Init, Remembered
  <1>6. Children
    BY DEF Init, Children, Truthful
  <1> QED
    BY <1>3, <1>4, <1>5, <1>6 DEF QInv

LEMMA QuestionsNext ==
    ASSUME Bounds, QInv, [Next]_vars
    PROVE  QInv'
  <1>1. CASE UNCHANGED vars
    BY <1>1 DEF vars, host, tracked, child, QInv, QType, Timing, Remembered, Children
  <1>2. CASE \/ \E s \in Sessions : HostDeletes(s) \/ HostMoves(s)
             \/ \E f \in Forms : HostCreates(f) \/ HostResolves(f)
    <2>1. UNCHANGED <<spawns, child>>
      BY <1>2 DEF HostDeletes, HostMoves, HostCreates, HostResolves
    <2>2. Children'
      BY <2>1 DEF QInv, Children, child
    <2> QED
      BY <1>2, <2>2, HostTypes, HostRemembers DEF QInv
  <1>3. CASE Tick \/ WallClockSetBack
    <2>1. UNCHANGED <<host, seen, tracked, spawns, child>>
      BY <1>3 DEF Tick, WallClockSetBack
    <2>2. Remembered' /\ Children'
      BY <2>1 DEF QInv, Remembered, Children, host, tracked, child
    <2> QED
      BY <1>3, <2>2, ClockTypes DEF QInv
  <1>4. CASE \/ StreamEnds \/ Dispose \/ \E s \in Sessions : HandleDeleted(s)
             \/ \E f \in Forms : HandleResolved(f) \/ HandleCreated(f) \/ ResolveLocation(f)
    <2>1. /\ UNCHANGED <<spawns, row, sent>>
          /\ \A f \in Forms : cli'[f] = cli[f] \/ (cli[f] # "none" /\ cli'[f] = "killed")
      BY <1>4 DEF StreamEnds, Dispose, Running, HandleDeleted, HandleResolved,
                  HandleCreated, ResolveLocation, child
    <2>2. ASSUME NEW f \in Forms
          PROVE  Truthful(cli'[f], spawns'[f], row'[f], sent'[f])
      <3>1. Truthful(cli[f], spawns[f], row[f], sent[f])
        BY DEF QInv, Children
      <3> QED
        BY <2>1, <3>1 DEF Truthful
    <2>3. Children'
      BY <2>2 DEF Children
    <2> QED
      BY <1>4, <2>3, HandlerTypes, HandlerRemembers DEF QInv
  <1>5. ASSUME NEW f \in Forms, AfterReady(f) \/ AfterTitle(f)
        PROVE  QInv'
    BY <1>5, TaskTypes, TaskRemembers, TaskTruthful DEF QInv
  <1>6. ASSUME NEW f \in Forms, OnTimer(f) \/ WriteStdin(f) \/ WriteFails(f) \/ AwaitExit(f)
        PROVE  QInv'
    <2>1. UNCHANGED <<host, seen, tracked, spawns>>
      BY <1>6 DEF OnTimer, WriteStdin, WriteFails, AwaitExit
    <2>2. Remembered'
      BY <2>1 DEF QInv, Remembered, host, tracked
    <2>3. Children'
      <3>1. CASE WriteFails(f)
        BY <3>1, TaskTruthful
      <3>2. CASE OnTimer(f) \/ WriteStdin(f) \/ AwaitExit(f)
        BY <3>2 DEF OnTimer, WriteStdin, AwaitExit, child, QInv, Children
      <3> QED
        BY <1>6, <3>1, <3>2
    <2> QED
      BY <1>6, <2>2, <2>3, TaskTypes DEF QInv
  <1>7. ASSUME NEW f \in Forms, ChildSteps(f)
        PROVE  QInv'
    <2>1. QType' /\ Timing' /\ UNCHANGED <<host, seen, tracked, spawns>>
      BY <1>7, ChildTypes
    <2>2. Remembered'
      BY <2>1 DEF QInv, Remembered, host, tracked
    <2>3. Children'
      BY <1>7, ChildTruthful
    <2> QED
      BY <2>1, <2>2, <2>3 DEF QInv
  <1> QED
    BY <1>1, <1>2, <1>3, <1>4, <1>5, <1>6, <1>7 DEF Next, ChildSteps

\* The inductive invariant of the notifier and its children: what the sets of notify.js
\* remember between events, what a running timer says, and how far a child, its row and
\* its message have come.
THEOREM RemindersKept ==
    ASSUME Bounds
    PROVE  Spec => []QInv
  <1>1. Init => QInv
    BY QuestionsInit
  <1>2. QInv /\ [Next]_vars => QInv'
    BY QuestionsNext
  <1> QED
    BY <1>1, <1>2, PTL DEF Spec

\* The state of notify.js and of its children keeps its types, and a timer runs only for a
\* pending form, never longer than the delay and what the clock was set back.
THEOREM TypeCorrect ==
    ASSUME Bounds
    PROVE  Spec => []TypeOK
  <1>1. ASSUME QInv PROVE TypeOK
    <2>1. QType
      BY <1>1 DEF QInv
    <2>2. ASSUME NEW f \in Forms
          PROVE  entry[f].timer \in -1 .. (Delay + MaxSkew) /\ (Armed(f) => f \in pending)
      <3>1. /\ entry[f] \in Entries /\ Timed(entry[f], f, pending, skew)
            /\ skew \in 0 .. MaxSkew /\ MaxSkew \in Nat /\ Delay \in Nat
        BY <1>1 DEF QInv, QType, Timing, Bounds
      <3>2. entry[f].timer \in Int
        BY <3>1 DEF Entries
      <3> QED
        BY <3>1, <3>2 DEF Timed, Armed
    <2>3. ASSUME NEW f \in Forms
          PROVE  /\ form[f].life \in {"none", "open", "resolved"}
                 /\ form[f].dir \in {"own", "other", "absent"}
                 /\ entry[f].ready \in {"none", "running", "done"}
      BY <2>1 DEF QType, FormRows, Entries
    <2> QED
      BY <2>1, <2>2, <2>3 DEF QType, TypeOK, Tasks, Stages, Marks
  <1>2. QInv => TypeOK
    BY <1>1
  <1> QED
    BY <1>2, RemindersKept, PTL

\* A form is told at most once: one child, and at most one message accepted by the channel,
\* however often its event is replayed and wherever its child is killed (notify.js:5).
THEOREM OneReminder ==
    ASSUME Bounds
    PROVE  Spec => []ToldOnce
  <1>1. QInv => ToldOnce
    BY DEF QInv, Children, Truthful, ToldOnce
  <1> QED
    BY <1>1, RemindersKept, PTL

\* A message leaves only for a row recorded before it, and a row marked delivered has one:
\* fire_question records first and mark_result last, and the child may be killed between.
THEOREM RowsAreTrue ==
    ASSUME Bounds
    PROVE  Spec => []RowsTellTheTruth
  <1>1. QInv => RowsTellTheTruth
    BY DEF QInv, Children, Truthful, RowsTellTheTruth
  <1> QED
    BY <1>1, RemindersKept, PTL

\* No child starts for a form whose reply or whose session's deletion was handled, whose
\* event named another directory, or after the stream was lost or the notifier disposed.
THEOREM NeverStale ==
    ASSUME Bounds
    PROVE  Spec => NoStaleReminder
  <1>1. ASSUME QInv, [Next]_vars, NEW f \in Forms, spawns'[f] > spawns[f]
        PROVE  /\ seen[Resolved(f)] = 0 /\ seen[Deleted(SessionOf[f])] = 0
               /\ form[f].dir # "other" /\ ~disposed /\ ~streamEnded
    <2>1. spawns \in [Forms -> Nat] /\ spawns' # spawns
      BY <1>1 DEF QInv, QType
    <2>2. PICK g \in Forms : AfterReady(g) \/ AfterTitle(g)
      <3>1. ~UNCHANGED vars
        BY <2>1 DEF vars
      <3>2. ~(Tick \/ WallClockSetBack \/ StreamEnds \/ Dispose)
        BY <2>1 DEF Tick, WallClockSetBack, StreamEnds, Dispose
      <3>3. ASSUME NEW s \in Sessions
            PROVE  ~(HostDeletes(s) \/ HostMoves(s) \/ HandleDeleted(s))
        BY <2>1 DEF HostDeletes, HostMoves, HandleDeleted
      <3>4. ASSUME NEW g \in Forms
            PROVE  ~(\/ HostCreates(g) \/ HostResolves(g) \/ HandleCreated(g)
                     \/ HandleResolved(g) \/ ResolveLocation(g) \/ OnTimer(g)
                     \/ WriteStdin(g) \/ WriteFails(g) \/ AwaitExit(g))
        BY <2>1 DEF HostCreates, HostResolves, HandleCreated, HandleResolved,
                    ResolveLocation, OnTimer, WriteStdin, WriteFails, AwaitExit
      <3>5. ASSUME NEW g \in Forms
            PROVE  ~(\/ CliGate(g) \/ CliRead(g) \/ CliFire(g) \/ CliDeliver(g)
                     \/ CliMark(g) \/ Timeout(g))
        BY <2>1 DEF CliGate, CliRead, CliFire, CliDeliver, CliMark, Timeout
      <3> QED
        BY <1>1, <3>1, <3>2, <3>3, <3>4, <3>5 DEF Next
    <2>3. Sends(g) /\ spawns' = [spawns EXCEPT ![g] = @ + 1]
      BY <1>1, <2>1, <2>2, DeliveryTask DEF Sends
    <2>4. g = f
      BY <1>1, <2>1, <2>3
    <2>5. f \in pending /\ ~disposed /\ ~streamEnded
      BY <2>3, <2>4 DEF Sends, IsActive
    <2>6. /\ f \notin settled /\ SessionOf[f] \notin deletedSessions
          /\ form[f].dir # "other" /\ SessionOf[f] \in Sessions
      BY <1>1, <2>5 DEF QInv, Remembered, Bounds
    <2>7. ~(seen[Resolved(f)] > 0) /\ ~(seen[Deleted(SessionOf[f])] > 0)
      BY <1>1, <2>5, <2>6 DEF QInv, Remembered
    <2>8. /\ seen[Resolved(f)] \in 0 .. MaxSeen
          /\ seen[Deleted(SessionOf[f])] \in 0 .. MaxSeen
      BY <1>1, <2>6, EventNames DEF QInv, QType
    <2>9. seen[Resolved(f)] = 0 /\ seen[Deleted(SessionOf[f])] = 0
      BY <2>7, <2>8 DEF Bounds
    <2> QED
      BY <2>5, <2>6, <2>9
  <1>2. QInv /\ [Next]_vars =>
          \A f \in Forms : spawns'[f] > spawns[f] =>
              /\ seen[Resolved(f)] = 0
              /\ seen[Deleted(SessionOf[f])] = 0
              /\ form[f].dir # "other"
              /\ ~disposed /\ ~streamEnded
    BY <1>1
  <1> QED
    BY <1>2, RemindersKept, PTL DEF Spec, NoStaleReminder
=============================================================================

--------------------------- MODULE PlacementProofs ---------------------------
(***************************************************************************)
(* Theorems about Placement, for any number of sessions, prompts and       *)
(* worktrees and any order of the host's answers.                          *)
(*                                                                         *)
(* NoWayBackByLease compares the target a prompt chose many awaits ago     *)
(* with what was abandoned since.  The invariant says why the two agree:   *)
(* whoever marks a directory as abandoned also takes the session's record  *)
(* of its attempt away, so an attempt that still has its record aims at    *)
(* nothing abandoned.  The same record serialises the host's moves.        *)
(***************************************************************************)
EXTENDS Placement, FiniteSetTheorems, TLAPS

Places == Dirs \cup {None}
Entries == [worktree : Places, origin : Places, abandoned : SUBSET Dirs,
            placed : BOOLEAN, confirmed : BOOLEAN, info : Places,
            attempt : Prompts \cup {None}, dispatched : Prompts \cup {None}]
Points == {"idle", "reconcile", "info", "inherit", "child", "probe", "leases", "join",
           "earlier", "locate", "move"}
Slots == [s : Sessions \cup {None}, pc : Points,
          reg : Places, target : Places, dir : Places, wait : Prompts \cup {None}]
Calls == {"none", "inflight", "accepted", "rejected"}

\* The steps of an attempt.
Trying == {"earlier", "locate", "move"}

\* What prompt q, in slot x, relies on; r is the registry and m the host's calls.
Steady(x, q, r, m) ==
    /\ x.pc # "idle" => x.s \in Sessions
    /\ x.pc \in {"inherit", "child"} => Parent[x.s] # None
    /\ x.pc = "child" => x.target \in Dirs
    /\ x.pc = "reconcile" => x.reg # None
    /\ m = "inflight" => x.pc = "move" /\ r[x.s].dispatched = q

\* What the record e of session s says: its attempt is under way, aims at no abandoned
\* directory, and does not overtake the move that was dispatched before it.
Owned(s, e, slots, calls) ==
    /\ Parent[s] = None => e.worktree \notin e.abandoned
    /\ e.dispatched # None => slots[e.dispatched].s = s /\ slots[e.dispatched].pc = "move"
    /\ e.attempt # None =>
         LET x == slots[e.attempt]
         IN  /\ x.s = s /\ x.pc \in Trying
             /\ Parent[s] = None => x.target \notin e.abandoned
             /\ x.pc = "earlier" => e.dispatched \in {None, x.wait}
             /\ x.pc = "locate" /\ e.dispatched # None =>
                  calls[e.dispatched] # "inflight"
             /\ x.pc = "move" => e.dispatched = e.attempt

PType ==
    /\ at \in [Sessions -> Dirs] /\ queued \in [Sessions -> Places]
    /\ registry \in [Sessions -> Entries]
    /\ prompt \in [Prompts -> Slots]
    /\ move \in [Prompts -> Calls]

PInv ==
    /\ PType
    /\ \A q \in Prompts : Steady(prompt[q], q, registry, move[q])
    /\ \A s \in Sessions : Owned(s, registry[s], prompt, move)

(***************************************************************************)
(* What the functions of the registry keep of a record.                    *)
(***************************************************************************)

\* f comes of the record e of session s: it may lose its attempt, and a directory is
\* abandoned only along with it.
Kept(s, e, f) ==
    /\ f \in Entries
    /\ f.attempt \in {e.attempt, None}
    /\ f.attempt # None => f.abandoned = e.abandoned
    /\ f.dispatched = e.dispatched
    /\ Parent[s] = None /\ e.worktree \notin e.abandoned => f.worktree \notin f.abandoned

AllKept(r) == r \in [Sessions -> Entries] /\ \A t \in Sessions : Kept(t, registry[t], r[t])

LEMMA KeptSelf ==
    ASSUME NEW s, NEW e \in Entries
    PROVE  Kept(s, e, e)
  BY DEF Kept

LEMMA KeptTwice ==
    ASSUME NEW s, NEW e, NEW f, NEW g, Kept(s, e, f), Kept(s, f, g)
    PROVE  Kept(s, e, g)
  BY DEF Kept

LEMMA CachedKept ==
    ASSUME NEW s, NEW e \in Entries, NEW d \in Places
    PROVE  Kept(s, e, Cached(e, d)) /\ Cached(e, d).attempt = e.attempt
  <1>1. CASE d = None
    BY <1>1, KeptSelf DEF Cached
  <1>2. CASE d # None
    <2> DEFINE f == [e EXCEPT !.info = d]
    <2>1. /\ f \in Entries /\ f.attempt = e.attempt /\ f.abandoned = e.abandoned
          /\ f.dispatched = e.dispatched /\ f.worktree = e.worktree
      BY DEF Entries
    <2>2. Cached(e, d) = f
      BY <1>2 DEF Cached
    <2> HIDE DEF f
    <2> QED
      BY <2>1, <2>2 DEF Kept
  <1> QED
    BY <1>1, <1>2

LEMMA MarkedKept ==
    ASSUME NEW s, NEW e \in Entries, NEW b \in BOOLEAN
    PROVE  /\ Kept(s, e, [e EXCEPT !.placed = b]) /\ Kept(s, e, [e EXCEPT !.confirmed = b])
           /\ [e EXCEPT !.placed = b].attempt = e.attempt
           /\ [e EXCEPT !.confirmed = b].attempt = e.attempt
  BY DEF Kept, Entries

LEMMA ForgetKept ==
    ASSUME NEW s, NEW e \in Entries
    PROVE  Kept(s, e, ForgetSessionWorktree(e))
  <1> DEFINE a == [e EXCEPT !.worktree = None, !.origin = None]
             b == [a EXCEPT !.placed = FALSE, !.confirmed = FALSE]
             c == [b EXCEPT !.info = None, !.attempt = None]
  <1>1. /\ a \in Entries /\ a.worktree = None /\ a.abandoned = e.abandoned
        /\ a.dispatched = e.dispatched
    BY DEF Entries, Places
  <1>2. c = ForgetSessionWorktree(e)
    BY DEF ForgetSessionWorktree, SupersedeAttempt, Entries
  <1> HIDE DEF a
  <1>3. /\ b \in Entries /\ b.worktree = None /\ b.abandoned = e.abandoned
        /\ b.dispatched = e.dispatched
    BY <1>1 DEF Entries
  <1> HIDE DEF b
  <1>4. /\ c \in Entries /\ c.worktree = None /\ c.abandoned = e.abandoned
        /\ c.dispatched = e.dispatched /\ c.attempt = None
    BY <1>3 DEF Entries, Places
  <1>5. None \notin c.abandoned
    BY <1>4, NoneAssumption DEF Entries, Dirs
  <1> HIDE DEF c
  <1>6. Kept(s, e, c)
    BY <1>4, <1>5 DEF Kept
  <1> QED
    BY <1>2, <1>6

LEMMA RelocatedKept ==
    ASSUME NEW s, NEW e \in Entries, NEW d \in Dirs
    PROVE  Kept(s, e, Relocated(e, d))
  <1> DEFINE f == MarkTargetAbandoned(e, d)
             g == ForgetSessionWorktree(f)
  <1>1. f \in Entries /\ f.dispatched = e.dispatched
    BY DEF MarkTargetAbandoned, Entries
  <1> HIDE DEF f
  <1>2. Kept(s, f, g)
    BY <1>1, ForgetKept
  <1>3. g.attempt = None /\ g.worktree = None
    BY <1>1 DEF ForgetSessionWorktree, SupersedeAttempt, Entries
  <1>4. None \notin g.abandoned
    BY <1>2, NoneAssumption DEF Kept, Entries, Dirs
  <1> HIDE DEF g
  <1>5. Kept(s, e, g)
    BY <1>1, <1>2, <1>3, <1>4 DEF Kept
  <1> QED
    BY <1>5 DEF Relocated, f, g

LEMMA RememberKept ==
    ASSUME NEW s, NEW e \in Entries, NEW d \in Dirs, NEW from \in Places,
           Parent[s] = None => d \notin e.abandoned
    PROVE  /\ Kept(s, e, RememberWorktree(e, d, from))
           /\ RememberWorktree(e, d, from).abandoned = e.abandoned
  <1> DEFINE a == [e EXCEPT !.origin = None, !.placed = FALSE]
             b == [a EXCEPT !.confirmed = FALSE, !.attempt = None]
             f == IF e.worktree \notin {None, d} THEN b ELSE e
             g == [f EXCEPT !.worktree = d]
             h == [g EXCEPT !.origin = IF from # None THEN from ELSE @]
  <1>1. /\ a \in Entries /\ a.attempt = e.attempt /\ a.abandoned = e.abandoned
        /\ a.dispatched = e.dispatched
    BY DEF Entries, Places
  <1>2. h = RememberWorktree(e, d, from)
    BY DEF RememberWorktree, SupersedeAttempt, Entries
  <1> HIDE DEF a
  <1>3. /\ b \in Entries /\ b.attempt = None /\ b.abandoned = e.abandoned
        /\ b.dispatched = e.dispatched
    BY <1>1 DEF Entries
  <1> HIDE DEF b
  <1>4. /\ f \in Entries /\ f.attempt \in {e.attempt, None}
        /\ f.abandoned = e.abandoned /\ f.dispatched = e.dispatched
    BY <1>3
  <1> HIDE DEF f
  <1>5. /\ g \in Entries /\ g.attempt \in {e.attempt, None} /\ g.worktree = d
        /\ g.abandoned = e.abandoned /\ g.dispatched = e.dispatched
    BY <1>4 DEF Entries, Places
  <1> HIDE DEF g
  <1>6. /\ h \in Entries /\ h.attempt \in {e.attempt, None} /\ h.worktree = d
        /\ h.abandoned = e.abandoned /\ h.dispatched = e.dispatched
    BY <1>5 DEF Entries
  <1> HIDE DEF h
  <1>7. Kept(s, e, h)
    BY <1>6 DEF Kept
  <1> QED
    BY <1>2, <1>6, <1>7

\* One record changes, and what it becomes is kept.
LEMMA OneKept ==
    ASSUME NEW r, AllKept(r), NEW s \in Sessions, NEW f, Kept(s, r[s], f)
    PROVE  LET q == [r EXCEPT ![s] = f] IN AllKept(q) /\ q[s] = f
  <1> DEFINE q == [r EXCEPT ![s] = f]
  <1>1. r \in [Sessions -> Entries] /\ f \in Entries
    BY DEF AllKept, Kept
  <1>2. q \in [Sessions -> Entries] /\ q[s] = f
    BY <1>1
  <1>3. ASSUME NEW t \in Sessions
        PROVE  Kept(t, registry[t], q[t])
    <2>1. Kept(t, registry[t], r[t])
      BY DEF AllKept
    <2>2. CASE t = s
      BY <1>2, <2>1, <2>2, KeptTwice
    <2>3. CASE t # s
      BY <1>1, <2>1, <2>3
    <2> QED
      BY <2>2, <2>3
  <1> QED
    BY <1>2, <1>3 DEF AllKept

LEMMA SameKept ==
    ASSUME PInv
    PROVE  AllKept(registry)
  BY KeptSelf DEF PInv, PType, AllKept

(***************************************************************************)
(* The ways a prompt's step ends.                                          *)
(***************************************************************************)

\* What the invariant says of a session whose record was kept, when the attempts stand
\* where they stood and the host's calls only settle.
LEMMA OwnedKept ==
    ASSUME NEW s \in Sessions, NEW e \in Entries, NEW f, Kept(s, e, f),
           NEW slots, NEW calls, Owned(s, e, slots, calls),
           NEW slots2, NEW calls2,
           f.attempt # None => slots2[f.attempt] = slots[f.attempt],
           f.dispatched # None => slots2[f.dispatched] = slots[f.dispatched],
           \A q \in Prompts : calls2[q] = "inflight" => calls[q] = "inflight"
    PROVE  Owned(s, f, slots2, calls2)
  BY DEF Owned, Kept, Entries

\* A prompt that runs no attempt goes on to slot x, or ends.
LEMMA QuietStep ==
    ASSUME PInv, NEW p \in Prompts, prompt[p].pc \notin Trying,
           NEW r, AllKept(r), registry' = r,
           NEW x \in Slots, x.pc \notin Trying, prompt' = [prompt EXCEPT ![p] = x],
           x.pc # "idle" => x.s \in Sessions,
           x.pc \in {"inherit", "child"} => Parent[x.s] # None,
           x.pc = "child" => x.target \in Dirs,
           x.pc = "reconcile" => x.reg # None,
           UNCHANGED <<at, queued, move>>
    PROVE  PInv'
  <1>1. PType'
    BY DEF PInv, PType, AllKept
  <1>2. ASSUME NEW q \in Prompts
        PROVE  Steady(prompt'[q], q, registry', move'[q])
    <2>1. Steady(prompt[q], q, registry, move[q]) /\ Steady(prompt[p], p, registry, move[p])
      BY DEF PInv
    <2>2. CASE q = p
      BY <2>1, <2>2 DEF Steady, Trying, PInv, PType
    <2>3. CASE q # p
      <3>1. prompt'[q] = prompt[q] /\ move'[q] = move[q]
        BY <2>3 DEF PInv, PType
      <3>2. move[q] = "inflight" => r[prompt[q].s].dispatched = registry[prompt[q].s].dispatched
        BY <2>1 DEF Steady, AllKept, Kept
      <3> QED
        BY <2>1, <3>1, <3>2 DEF Steady
    <2> QED
      BY <2>2, <2>3
  <1>3. ASSUME NEW s \in Sessions
        PROVE  Owned(s, registry'[s], prompt', move')
    <2>1. registry[s] \in Entries /\ Kept(s, registry[s], r[s]) /\ Owned(s, registry[s], prompt, move)
      BY DEF PInv, PType, AllKept
    <2>2. r[s].attempt # None =>
              r[s].attempt = registry[s].attempt /\ r[s].attempt \in Prompts
                /\ prompt[r[s].attempt].pc \in Trying
      BY <2>1 DEF Kept, Entries, Owned
    <2>3. r[s].attempt # None => prompt'[r[s].attempt] = prompt[r[s].attempt]
      BY <2>2 DEF PInv, PType
    <2>4. r[s].dispatched # None =>
              r[s].dispatched \in Prompts /\ prompt[r[s].dispatched].pc \in Trying
      BY <2>1 DEF Kept, Entries, Owned, Trying
    <2>5. r[s].dispatched # None => prompt'[r[s].dispatched] = prompt[r[s].dispatched]
      BY <2>4 DEF PInv, PType
    <2> QED
      BY <2>1, <2>3, <2>5, OwnedKept
  <1> QED
    BY <1>1, <1>2, <1>3 DEF PInv

LEMMA IdleSlot ==
    Idle \in Slots /\ Idle.pc = "idle"
  BY DEF Idle, Slots, Places, Points

LEMMA EndStep ==
    ASSUME PInv, NEW p \in Prompts, prompt[p].pc \notin Trying,
           NEW r, AllKept(r), registry' = r, End(p), UNCHANGED <<at, queued, move>>
    PROVE  PInv'
  <1>1. prompt' = [prompt EXCEPT ![p] = Idle]
    BY DEF End
  <1> QED
    BY <1>1, IdleSlot, QuietStep DEF Trying

LEMMA BecomeStep ==
    ASSUME PInv, NEW p \in Prompts, prompt[p].pc \notin Trying, prompt[p].pc # "idle",
           NEW r, AllKept(r), registry' = r,
           NEW pc \in {"info", "child", "probe", "leases"}, NEW target \in Places,
           pc = "child" => Parent[For(p)] # None /\ target \in Dirs,
           Become(p, pc, target), UNCHANGED <<at, queued, move>>
    PROVE  PInv'
  <1> DEFINE w == [Idle EXCEPT !.s = For(p), !.pc = pc]
             x == [w EXCEPT !.target = target]
  <1>1. For(p) \in Sessions
    BY DEF PInv, Steady, For
  <1>2. x \in Slots /\ x.s = For(p) /\ x.pc = pc /\ x.target = target
    <2>1. w \in Slots /\ w.s = For(p) /\ w.pc = pc
      BY <1>1 DEF Idle, Slots, Places, Points
    <2> HIDE DEF w
    <2> QED
      BY <2>1 DEF Slots
  <1>3. prompt' = [prompt EXCEPT ![p] = x]
    BY DEF Become, At
  <1> HIDE DEF x
  <1> QED
    BY <1>1, <1>2, <1>3, QuietStep DEF Trying

\* A prompt enters moveSessionToWorktree: it ends, joins the attempt, or starts one.
LEMMA EnterStep ==
    ASSUME PInv, NEW p \in Prompts, prompt[p].pc \notin Trying, prompt[p].pc # "idle",
           NEW r, AllKept(r), NEW target \in Places,
           Parent[For(p)] = None => target \notin r[For(p)].abandoned,
           EnterMove(p, r, target), UNCHANGED <<at, queued, move>>
    PROVE  PInv'
  <1> DEFINE s == For(p)
             e == r[s]
  <1>1. s \in Sessions /\ e \in Entries /\ r \in [Sessions -> Entries]
    BY DEF PInv, Steady, For, AllKept
  <1>2. CASE e.placed
    BY <1>2, EndStep DEF EnterMove
  <1>3. CASE ~e.placed /\ e.attempt # None
    <2> DEFINE w == [Idle EXCEPT !.s = s, !.pc = "join"]
               x == [w EXCEPT !.target = target, !.wait = e.attempt]
    <2>1. w \in Slots /\ w.s = s /\ w.pc = "join"
      BY <1>1 DEF Idle, Slots, Places, Points
    <2>2. registry' = r /\ prompt' = [prompt EXCEPT ![p] = x]
      BY <1>3 DEF EnterMove, At
    <2>3. e.attempt \in Prompts \cup {None}
      BY <1>1 DEF Entries
    <2> HIDE DEF w
    <2>4. x \in Slots /\ x.s = s /\ x.pc = "join"
      BY <2>1, <2>3 DEF Slots
    <2> HIDE DEF x
    <2> QED
      BY <1>1, <2>2, <2>4, QuietStep DEF Trying
  <1>4. CASE ~e.placed /\ e.attempt = None
    <2> DEFINE pc == IF e.dispatched = None THEN "locate" ELSE "earlier"
               w == [Idle EXCEPT !.s = s, !.pc = pc]
               x == [w EXCEPT !.target = target, !.wait = e.dispatched]
               f == [e EXCEPT !.attempt = p]
    <2>1. w \in Slots /\ w.s = s /\ w.pc = pc
      <3>1. pc \in Points
        BY DEF Points
      <3> HIDE DEF pc
      <3> QED
        BY <1>1, <3>1 DEF Idle, Slots, Places
    <2>2. registry' = [r EXCEPT ![s] = f] /\ prompt' = [prompt EXCEPT ![p] = x]
      BY <1>4 DEF EnterMove, At
    <2>3. e.dispatched \in Prompts \cup {None}
      BY <1>1 DEF Entries
    <2> HIDE DEF w
    <2>4. x \in Slots /\ x.s = s /\ x.pc = pc /\ x.target = target /\ x.wait = e.dispatched
      BY <2>1, <2>3 DEF Slots
    <2>5. /\ f \in Entries /\ f.attempt = p /\ f.abandoned = e.abandoned
          /\ f.worktree = e.worktree /\ f.dispatched = e.dispatched
      BY <1>1 DEF Entries
    <2> HIDE DEF x, f
    <2>6. /\ registry' \in [Sessions -> Entries] /\ registry'[s] = f
          /\ \A t \in Sessions : t # s => registry'[t] = r[t]
          /\ \A t \in Sessions : registry'[t].dispatched = registry[t].dispatched
      BY <1>1, <2>2, <2>5 DEF AllKept, Kept
    <2>7. prompt' \in [Prompts -> Slots] /\ prompt'[p] = x /\ \A q \in Prompts : q # p => prompt'[q] = prompt[q]
      BY <2>2, <2>4 DEF PInv, PType
    <2>8. PType'
      BY <2>6, <2>7 DEF PInv, PType
    <2>9. ASSUME NEW q \in Prompts
          PROVE  Steady(prompt'[q], q, registry', move'[q])
      <3>1. Steady(prompt[q], q, registry, move[q]) /\ move'[q] = move[q]
        BY DEF PInv
      <3>2. CASE q = p
        BY <1>1, <2>4, <2>7, <3>1, <3>2 DEF Steady, Trying
      <3>3. CASE q # p
        <4>1. move[q] = "inflight" => prompt[q].s \in Sessions
          BY <3>1 DEF Steady
        <4> QED
          BY <2>6, <2>7, <3>1, <3>3, <4>1 DEF Steady
      <3> QED
        BY <3>2, <3>3
    <2>10. ASSUME NEW t \in Sessions
           PROVE  Owned(t, registry'[t], prompt', move')
      <3>1. registry[t] \in Entries /\ Kept(t, registry[t], r[t]) /\ Owned(t, registry[t], prompt, move)
        BY DEF PInv, PType, AllKept
      <3>2. CASE t = s
        <4>1. Parent[s] = None => f.worktree \notin f.abandoned
          BY <2>5, <3>1, <3>2 DEF Kept, Owned
        <4>2. f.dispatched # None =>
                 /\ f.dispatched \in Prompts /\ f.dispatched # p
                 /\ prompt[f.dispatched].s = s /\ prompt[f.dispatched].pc = "move"
          BY <2>3, <2>5, <3>1, <3>2 DEF Kept, Owned, Trying
        <4>3. f.dispatched # None => prompt'[f.dispatched] = prompt[f.dispatched]
          BY <2>7, <4>2
        <4> QED
          BY <2>4, <2>5, <2>6, <2>7, <3>2, <4>1, <4>2, <4>3 DEF Owned, Trying
      <3>3. CASE t # s
        <4>1. r[t].attempt # None => r[t].attempt \in Prompts /\ prompt[r[t].attempt].pc \in Trying
          BY <3>1 DEF Kept, Entries, Owned
        <4>2. r[t].attempt # None => prompt'[r[t].attempt] = prompt[r[t].attempt]
          BY <2>7, <4>1
        <4>3. r[t].dispatched # None =>
                  r[t].dispatched \in Prompts /\ prompt[r[t].dispatched].pc \in Trying
          BY <3>1 DEF Kept, Entries, Owned, Trying
        <4>4. r[t].dispatched # None => prompt'[r[t].dispatched] = prompt[r[t].dispatched]
          BY <2>7, <4>3
        <4>5. Owned(t, r[t], prompt', move')
          BY <3>1, <4>2, <4>4, OwnedKept
        <4> QED
          BY <2>6, <3>3, <4>5
      <3> QED
        BY <3>2, <3>3
    <2> QED
      BY <2>8, <2>9, <2>10 DEF PInv
  <1> QED
    BY <1>2, <1>3, <1>4

\* An attempt settles, whether or not it still has its record.
LEMMA SettleStep ==
    ASSUME PInv, NEW p \in Prompts, prompt[p].pc \in Trying, move[p] # "inflight",
           prompt[p].pc = "earlier" => registry[For(p)].attempt # p,
           NEW r, AllKept(r), Settle(p, r), UNCHANGED <<at, queued>>
    PROVE  PInv'
  <1> DEFINE s == For(p)
             e == r[s]
             f == [e EXCEPT !.attempt = IF @ = p THEN None ELSE @,
                            !.dispatched = IF @ = p \/ r[s].attempt = p THEN None ELSE @]
  <1>1. s \in Sessions /\ e \in Entries /\ r \in [Sessions -> Entries]
    BY DEF PInv, Steady, For, AllKept, Trying
  <1>2. registry' = [r EXCEPT ![s] = f]
    BY <1>1 DEF Settle
  <1>3. /\ f \in Entries /\ f.abandoned = e.abandoned /\ f.worktree = e.worktree
        /\ f.attempt = IF e.attempt = p THEN None ELSE e.attempt
        /\ f.dispatched = IF e.dispatched = p \/ e.attempt = p THEN None ELSE e.dispatched
    BY <1>1 DEF Entries
  <1> HIDE DEF f
  <1>4. /\ registry' \in [Sessions -> Entries] /\ registry'[s] = f
        /\ \A t \in Sessions : t # s => registry'[t] = r[t]
    BY <1>1, <1>2, <1>3
  <1>5. /\ prompt' \in [Prompts -> Slots]
        /\ \A q \in Prompts :
             prompt'[q] = IF q = p \/ (prompt[q].pc = "join" /\ prompt[q].wait = p)
                          THEN Idle ELSE prompt[q]
    BY IdleSlot DEF Settle, PInv, PType
  <1>6. /\ move' \in [Prompts -> Calls]
        /\ \A q \in Prompts : move'[q] = IF q = p THEN "none" ELSE move[q]
    BY DEF Settle, PInv, PType, Calls
  <1>7. PType'
    BY <1>4, <1>5, <1>6 DEF PInv, PType
  <1>8. ASSUME NEW q \in Prompts
        PROVE  Steady(prompt'[q], q, registry', move'[q])
    <2>1. Steady(prompt[q], q, registry, move[q])
      BY DEF PInv
    <2>2. CASE q = p
      BY <1>5, <1>6, <2>2, IdleSlot DEF Steady
    <2>3. CASE q # p /\ prompt[q].pc = "join"
      BY <1>5, <1>6, <2>1, <2>3, IdleSlot DEF Steady
    <2>4. CASE q # p /\ prompt[q].pc # "join"
      <3> DEFINE t == prompt[q].s
      <3>1. prompt'[q] = prompt[q] /\ move'[q] = move[q]
        BY <1>5, <1>6, <2>4
      <3>2. ASSUME move[q] = "inflight"
            PROVE  registry'[t].dispatched = q
        <4>1. t \in Sessions /\ registry[t].dispatched = q
          BY <2>1, <3>2 DEF Steady
        <4>2. Kept(t, registry[t], r[t]) /\ Owned(t, registry[t], prompt, move)
          BY <4>1 DEF AllKept, PInv
        <4>3. CASE t # s
          BY <1>4, <4>1, <4>2, <4>3 DEF Kept
        <4>4. CASE t = s
          <5>1. e.attempt # p
            BY <2>4, <3>2, <4>1, <4>2, <4>4, NoneAssumption DEF Kept, Owned, Trying
          <5>2. e.dispatched = q
            BY <4>1, <4>2, <4>4 DEF Kept
          <5>3. f.dispatched = q
            BY <1>3, <2>4, <5>1, <5>2
          <5> QED
            BY <1>4, <4>4, <5>3
        <4> QED
          BY <4>3, <4>4
      <3> QED
        BY <2>1, <3>1, <3>2 DEF Steady
    <2> QED
      BY <2>2, <2>3, <2>4
  <1>9. ASSUME NEW t \in Sessions
        PROVE  Owned(t, registry'[t], prompt', move')
    <2>1. /\ registry[t] \in Entries /\ Kept(t, registry[t], r[t])
          /\ Owned(t, registry[t], prompt, move)
      BY DEF PInv, PType, AllKept
    <2>2. r[t].attempt # None =>
            /\ r[t].attempt \in Prompts /\ prompt[r[t].attempt].pc \in Trying
            /\ prompt[r[t].attempt].s = t
      BY <2>1 DEF Kept, Entries, Owned
    <2>3. r[t].attempt \notin {None, p} => prompt'[r[t].attempt] = prompt[r[t].attempt]
      BY <1>5, <2>2 DEF Trying
    <2>4. \A q \in Prompts : move'[q] = "inflight" => move[q] = "inflight"
      BY <1>6
    <2>8. r[t].dispatched # None =>
            /\ r[t].dispatched \in Prompts /\ prompt[r[t].dispatched].pc = "move"
            /\ prompt[r[t].dispatched].s = t
      BY <2>1 DEF Kept, Entries, Owned
    <2>9. r[t].dispatched \notin {None, p} =>
            prompt'[r[t].dispatched] = prompt[r[t].dispatched]
      BY <1>5, <2>8
    <2>5. CASE t # s
      <3>1. r[t].attempt # p /\ r[t].dispatched # p
        BY <2>2, <2>5, <2>8, NoneAssumption DEF For
      <3>2. Owned(t, r[t], prompt', move')
        BY <2>1, <2>3, <2>4, <2>9, <3>1, OwnedKept
      <3> QED
        BY <1>4, <2>5, <3>2
    <2>6. CASE t = s /\ e.attempt = p
      <3>1. /\ f.attempt = None /\ f.dispatched = None
            /\ Parent[s] = None => f.worktree \notin f.abandoned
        BY <1>3, <2>1, <2>6 DEF Kept, Owned
      <3> QED
        BY <1>4, <2>6, <3>1 DEF Owned
    <2>7. CASE t = s /\ e.attempt # p
      <3>1. f.attempt = e.attempt /\ f.dispatched \in {e.dispatched, None} \ {p}
        BY <1>3, <2>7, NoneAssumption
      <3>2. e.dispatched = e.attempt => f.dispatched = e.dispatched
        BY <1>3, <2>7
      <3>3. /\ f.attempt # None => prompt'[f.attempt] = prompt[f.attempt]
            /\ f.dispatched # None => prompt'[f.dispatched] = prompt[f.dispatched]
        BY <2>3, <2>7, <2>9, <3>1
      <3>5. Owned(s, e, prompt, move)
        BY <1>1, <2>1, <2>7, OwnedKept
      <3>6. f.dispatched \in Prompts \cup {None}
        BY <1>3 DEF Entries
      <3>4. Owned(s, f, prompt', move')
        BY <1>3, <2>4, <3>1, <3>2, <3>3, <3>5, <3>6 DEF Owned
      <3> QED
        BY <1>4, <2>7, <3>4
    <2> QED
      BY <2>5, <2>6, <2>7
  <1> QED
    BY <1>7, <1>8, <1>9 DEF PInv

(***************************************************************************)
(* The actions.                                                            *)
(***************************************************************************)

LEMMA AnswerType ==
    ASSUME PInv, NEW s \in Sessions, NEW d \in Answers(s)
    PROVE  d \in Places
  BY DEF PInv, PType, Answers, Places

\* The answer d of the host is in the record.
LEMMA FreshKept ==
    ASSUME PInv, NEW s \in Sessions, NEW d \in Places
    PROVE  /\ registry[s] \in Entries
           /\ Cached(registry[s], d) \in Entries
           /\ Kept(s, registry[s], Cached(registry[s], d))
           /\ Cached(registry[s], d).attempt = registry[s].attempt
           /\ AllKept([registry EXCEPT ![s] = Cached(registry[s], d)])
           /\ [registry EXCEPT ![s] = Cached(registry[s], d)][s] = Cached(registry[s], d)
  <1>1. registry[s] \in Entries
    BY DEF PInv, PType
  <1>2. /\ Kept(s, registry[s], Cached(registry[s], d))
        /\ Cached(registry[s], d).attempt = registry[s].attempt
    BY <1>1, CachedKept
  <1>3. Cached(registry[s], d) \in Entries
    BY <1>2 DEF Kept
  <1> QED
    BY <1>1, <1>2, <1>3, SameKept, OneKept

\* The session record that is kept twice.
LEMMA ChangedKept ==
    ASSUME PInv, NEW s \in Sessions, NEW d \in Places, NEW f,
           Kept(s, Cached(registry[s], d), f)
    PROVE  LET r == [registry EXCEPT ![s] = f] IN AllKept(r) /\ r[s] = f
  <1>1. Kept(s, registry[s], f)
    BY FreshKept, KeptTwice
  <1> QED
    BY <1>1, SameKept, OneKept

LEMMA StartStep ==
    ASSUME PInv, NEW p \in Prompts, NEW s \in Sessions, Start(p, s)
    PROVE  PInv'
  <1> DEFINE reg == registry[s].worktree
             pc == IF reg = None THEN "info" ELSE "reconcile"
             x == [Idle EXCEPT !.s = s, !.pc = pc, !.reg = reg]
  <1>1. prompt[p].pc = "idle"
    <2>1. \E q \in Prompts : prompt[q].pc = "idle"
      BY DEF Start
    <2>2. p = CHOOSE q \in Prompts : prompt[q].pc = "idle"
      BY DEF Start
    <2> QED
      BY <2>1, <2>2
  <1>2. reg \in Places
    BY DEF PInv, PType, Entries
  <1>3. x \in Slots /\ x.s = s /\ x.pc = pc /\ x.reg = reg
    BY <1>2 DEF Idle, Slots, Places, Points
  <1>4. prompt' = [prompt EXCEPT ![p] = x] /\ registry' = registry /\ UNCHANGED <<at, queued, move>>
    BY DEF Start, host
  <1> HIDE DEF x
  <1> QED
    BY <1>1, <1>3, <1>4, SameKept, QuietStep DEF Trying

LEMMA ReconcileStep ==
    ASSUME PInv, NEW p \in Prompts, Reconcile(p)
    PROVE  PInv'
  <1> DEFINE s == For(p)
             reg == prompt[p].reg
  <1>1. /\ s \in Sessions /\ reg \in Dirs /\ prompt[p].pc = "reconcile"
        /\ prompt[p].pc \notin Trying /\ prompt[p].pc # "idle"
        /\ UNCHANGED <<at, queued, move>>
    BY DEF Reconcile, host, PInv, PType, Steady, For, Slots, Places, Trying
  <1>2. PICK d \in Answers(s) :
          LET e == Cached(registry[s], d)
              KeepWith(f) == registry' = [registry EXCEPT ![s] = f] /\ Become(p, "info", None)
              DropWith(f) == registry' = [registry EXCEPT ![s] = f] /\ End(p)
          IN  \/ DropWith(ForgetSessionWorktree(e))
              \/ KeepWith(e)
              \/ KeepWith([e EXCEPT !.confirmed = TRUE])
              \/ DropWith(Relocated(e, reg))
    BY Zenon DEF Reconcile
  <1> DEFINE e == Cached(registry[s], d)
  <1>3. d \in Places /\ None \in Places
    BY <1>1, AnswerType DEF Places
  <1>4. e \in Entries
    BY <1>1, <1>3, FreshKept
  <1>5. /\ Kept(s, e, ForgetSessionWorktree(e)) /\ Kept(s, e, e)
        /\ Kept(s, e, [e EXCEPT !.confirmed = TRUE]) /\ Kept(s, e, Relocated(e, reg))
    BY <1>1, <1>4, KeptSelf, ForgetKept, RelocatedKept, MarkedKept
  <1>6. ASSUME NEW f, Kept(s, e, f), registry' = [registry EXCEPT ![s] = f],
               End(p) \/ Become(p, "info", None)
        PROVE  PInv'
    <2>1. AllKept([registry EXCEPT ![s] = f])
      BY <1>1, <1>3, <1>6, ChangedKept
    <2>2. CASE End(p)
      BY <1>1, <1>6, <2>1, <2>2, EndStep
    <2>3. CASE Become(p, "info", None)
      BY <1>1, <1>3, <1>6, <2>1, <2>3, BecomeStep
    <2> QED
      BY <1>6, <2>2, <2>3
  <1> QED
    BY <1>2, <1>5, <1>6

LEMMA InfoStep ==
    ASSUME PInv, NEW p \in Prompts, Info(p)
    PROVE  PInv'
  <1> DEFINE s == For(p)
  <1>1. /\ s \in Sessions /\ prompt[p].pc \notin Trying /\ prompt[p].pc # "idle"
        /\ UNCHANGED <<at, queued, move>>
    BY DEF Info, host, PInv, Steady, For, Trying
  <1>2. PICK d \in Places :
          LET r == [registry EXCEPT ![s] = Cached(registry[s], d)]
          IN  \/ /\ Parent[s] # None
                 /\ prompt' = [prompt EXCEPT ![p] = [At(p, "inherit") EXCEPT
                        !.dir = d, !.reg = registry[Parent[s]].worktree]]
                 /\ registry' = r
              \/ r[s].worktree # None /\ EnterMove(p, r, r[s].worktree)
              \/ registry' = r /\ Become(p, "probe", None)
    <2>1. PICK d \in IF registry[s].info # None THEN {registry[s].info} ELSE Answers(s) :
          LET r == [registry EXCEPT ![s] = Cached(@, d)]
          IN  \/ /\ d # None /\ Parent[s] # None
                 /\ prompt' = [prompt EXCEPT ![p] = [At(p, "inherit") EXCEPT
                        !.dir = d, !.reg = registry[Parent[s]].worktree]]
                 /\ registry' = r
              \/ /\ d = None \/ Parent[s] = None
                 /\ IF r[s].worktree # None
                    THEN EnterMove(p, r, r[s].worktree)
                    ELSE registry' = r /\ Become(p, "probe", None)
      BY Zenon DEF Info
    <2>2. d \in Places
      BY <1>1, AnswerType DEF PInv, PType, Entries
    <2> QED
      BY <2>1, <2>2
  <1> DEFINE e == Cached(registry[s], d)
             r == [registry EXCEPT ![s] = e]
  <1>3. AllKept(r) /\ r[s] = e /\ e \in Entries
    BY <1>1, FreshKept
  <1>4. CASE /\ Parent[s] # None
             /\ prompt' = [prompt EXCEPT ![p] = [At(p, "inherit") EXCEPT
                    !.dir = d, !.reg = registry[Parent[s]].worktree]]
             /\ registry' = r
    <2> DEFINE w == [Idle EXCEPT !.s = s, !.pc = "inherit"]
               g == registry[Parent[s]].worktree
               x == [w EXCEPT !.dir = d, !.reg = g]
    <2>1. w \in Slots /\ w.s = s /\ w.pc = "inherit"
      BY <1>1 DEF Idle, Slots, Places, Points
    <2>2. g \in Places
      BY <1>1, <1>4, ParentAssumption DEF PInv, PType, Entries
    <2>3. prompt' = [prompt EXCEPT ![p] = x]
      BY <1>4 DEF At
    <2> HIDE DEF w, g
    <2>4. x \in Slots /\ x.s = s /\ x.pc = "inherit"
      BY <2>1, <2>2 DEF Slots
    <2>5. registry' = r
      BY <1>4
    <2> HIDE DEF x, r
    <2> QED
      BY <1>1, <1>3, <1>4, <2>3, <2>4, <2>5, QuietStep DEF Trying
  <1>5. CASE r[s].worktree # None /\ EnterMove(p, r, r[s].worktree)
    <2>1. Parent[s] = None => r[s].worktree \notin r[s].abandoned
      BY <1>1, <1>3 DEF AllKept, Kept, PInv, Owned
    <2>2. r[s].worktree \in Places
      BY <1>3 DEF Entries
    <2> HIDE DEF r
    <2> QED
      BY <1>1, <1>3, <1>5, <2>1, <2>2, EnterStep
  <1>6. CASE registry' = r /\ Become(p, "probe", None)
    BY <1>1, <1>3, <1>6, BecomeStep DEF Places
  <1> QED
    BY <1>2, <1>4, <1>5, <1>6

LEMMA InheritStep ==
    ASSUME PInv, NEW p \in Prompts, Inherit(p)
    PROVE  PInv'
  <1> DEFINE s == For(p)
             par == Parent[s]
             reg == prompt[p].reg
  <1>1. /\ s \in Sessions /\ par # None /\ par \in Sessions /\ reg \in Places
        /\ prompt[p].pc \notin Trying /\ prompt[p].pc # "idle"
        /\ UNCHANGED <<at, queued, move>>
    BY ParentAssumption DEF Inherit, host, PInv, PType, Steady, For, Slots, Trying
  <1>2. PICK d \in Answers(par) :
          LET e == Cached(registry[par], d)
          IN  IF d = None THEN End(p) /\ UNCHANGED registry
              ELSE InheritParentWorktree(p,
                       [registry EXCEPT ![par] = InheritedParent(e, reg, d)],
                       InheritedTarget(e, reg, d))
    BY Zenon DEF Inherit
  <1> DEFINE e == Cached(registry[par], d)
             f == InheritedParent(e, reg, d)
             r == [registry EXCEPT ![par] = f]
             target == InheritedTarget(e, reg, d)
  <1>3. d \in Places
    BY <1>1, AnswerType
  <1>4. e \in Entries
    BY <1>1, <1>3, FreshKept
  <1>5. Kept(par, e, f)
    <2>1. reg # None => reg \in Dirs
      BY <1>1 DEF Places
    <2> QED
      BY <1>4, <2>1, KeptSelf, MarkedKept, RelocatedKept DEF InheritedParent
  <1>6. AllKept(r)
    BY <1>1, <1>3, <1>5, ChangedKept
  <1>7. CASE d = None
    BY <1>1, <1>2, <1>7, SameKept, EndStep
  <1>8. CASE d # None
    <2>1. target \in Dirs
      BY <1>1, <1>3, <1>8 DEF InheritedTarget, Places
    <2>2. InheritParentWorktree(p, r, target)
      BY <1>2, <1>8
    <2> HIDE DEF r, target
    <2>3. CASE registry' = r /\ End(p)
      BY <1>1, <1>6, <2>3, EndStep
    <2>4. CASE registry' = r /\ Become(p, "child", target)
      BY <1>1, <1>6, <2>1, <2>4, BecomeStep DEF Places
    <2>5. CASE EnterMove(p, [r EXCEPT ![s] = RememberWorktree(r[s], target, None)], target)
      <3> DEFINE q == [r EXCEPT ![s] = RememberWorktree(r[s], target, None)]
      <3>1. r[s] \in Entries
        BY <1>1, <1>6 DEF AllKept
      <3>2. Kept(s, r[s], RememberWorktree(r[s], target, None))
        BY <1>1, <2>1, <3>1, RememberKept DEF Places
      <3>3. AllKept(q)
        BY <1>1, <1>6, <3>2, OneKept
      <3> HIDE DEF q
      <3> QED
        BY <1>1, <2>1, <2>5, <3>3, EnterStep DEF Places, q
    <2> QED
      BY <2>2, <2>3, <2>4, <2>5 DEF InheritParentWorktree
  <1> QED
    BY <1>7, <1>8

LEMMA ChildStep ==
    ASSUME PInv, NEW p \in Prompts, ChildRead(p)
    PROVE  PInv'
  <1> DEFINE s == For(p)
             target == prompt[p].target
  <1>1. /\ s \in Sessions /\ Parent[s] # None /\ target \in Dirs
        /\ prompt[p].pc \notin Trying /\ prompt[p].pc # "idle"
        /\ UNCHANGED <<at, queued, move>>
    BY DEF ChildRead, host, PInv, PType, Steady, For, Slots, Trying
  <1>2. PICK d \in Answers(s) :
          LET e == Cached(registry[s], d)
          IN  IF d = target
              THEN /\ registry' = [registry EXCEPT ![s] =
                          [RememberWorktree(e, target, d) EXCEPT
                              !.placed = TRUE, !.confirmed = TRUE]]
                   /\ End(p)
              ELSE EnterMove(p, [registry EXCEPT ![s] =
                       RememberWorktree(e, target, None)], target)
    BY Zenon DEF ChildRead
  <1> DEFINE e == Cached(registry[s], d)
  <1>3. d \in Places
    BY <1>1, AnswerType
  <1>4. e \in Entries
    BY <1>1, <1>3, FreshKept
  <1>5. CASE d = target
    <2> DEFINE f == RememberWorktree(e, target, d)
               g == [f EXCEPT !.placed = TRUE]
               h == [g EXCEPT !.confirmed = TRUE]
    <2>1. Kept(s, e, f)
      BY <1>1, <1>3, <1>4, RememberKept
    <2>2. registry' = [registry EXCEPT ![s] = h] /\ End(p)
      <3> HIDE DEF f
      <3>1. [f EXCEPT !.placed = TRUE, !.confirmed = TRUE] = h
        BY <2>1 DEF Kept, Entries
      <3> QED
        BY <1>2, <1>5, <3>1 DEF f
    <2> HIDE DEF f
    <2>3. f \in Entries /\ Kept(s, f, g)
      BY <2>1, MarkedKept DEF Kept
    <2> HIDE DEF g
    <2>4. Kept(s, g, h)
      BY <2>3, MarkedKept DEF Kept
    <2>5. Kept(s, e, h)
      BY <2>1, <2>3, <2>4, KeptTwice
    <2> HIDE DEF h
    <2>6. AllKept([registry EXCEPT ![s] = h])
      BY <1>1, <1>3, <2>5, ChangedKept
    <2> QED
      BY <1>1, <2>2, <2>6, EndStep
  <1>6. CASE d # target
    <2> DEFINE f == RememberWorktree(e, target, None)
               r == [registry EXCEPT ![s] = f]
    <2>1. Kept(s, e, f)
      BY <1>1, <1>4, RememberKept DEF Places
    <2>2. AllKept(r)
      BY <1>1, <1>3, <2>1, ChangedKept
    <2>3. EnterMove(p, r, target)
      BY <1>2, <1>6
    <2> HIDE DEF r
    <2> QED
      BY <1>1, <2>2, <2>3, EnterStep DEF Places
  <1> QED
    BY <1>5, <1>6

\* What a lookup found is entered only if it is not abandoned.
LEMMA EnterDiscoveredStep ==
    ASSUME PInv, NEW p \in Prompts, prompt[p].pc \notin Trying, prompt[p].pc # "idle",
           NEW r, AllKept(r), NEW target \in Places,
           EnterDiscovered(p, r, target), UNCHANGED <<at, queued, move>>
    PROVE  PInv'
  <1> DEFINE s == For(p)
             q == [r EXCEPT ![s] = ForgetSessionWorktree(r[s])]
  <1>1. s \in Sessions /\ r[s] \in Entries
    BY DEF PInv, Steady, For, AllKept
  <1>2. AllKept(q)
    BY <1>1, ForgetKept, OneKept
  <1> HIDE DEF q
  <1>3. CASE target \in r[s].abandoned
    <2>1. registry' = q /\ End(p)
      BY <1>3 DEF EnterDiscovered, q
    <2> QED
      BY <1>2, <2>1, EndStep
  <1>4. CASE target \notin r[s].abandoned
    BY <1>4, EnterStep DEF EnterDiscovered
  <1> QED
    BY <1>3, <1>4

LEMMA ProbeStep ==
    ASSUME PInv, NEW p \in Prompts, Probe(p)
    PROVE  PInv'
  <1> DEFINE s == For(p)
  <1>1. /\ s \in Sessions /\ prompt[p].pc \notin Trying /\ prompt[p].pc # "idle"
        /\ UNCHANGED <<at, queued, move>>
    BY DEF Probe, host, PInv, Steady, For, Trying
  <1>2. PICK d \in Answers(s) :
          LET r == [registry EXCEPT ![s] = Cached(@, d)]
          IN  IF r[s].worktree # None
              THEN EnterDiscovered(p, r, r[s].worktree)
              ELSE registry' = r /\ Become(p, "leases", None)
    BY Zenon DEF Probe
  <1> DEFINE r == [registry EXCEPT ![s] = Cached(registry[s], d)]
  <1>3. AllKept(r) /\ r[s] \in Entries
    <2>1. d \in Places
      BY <1>1, AnswerType
    <2> QED
      BY <1>1, <2>1, FreshKept
  <1>4. r[s].worktree \in Places /\ None \in Places
    BY <1>3 DEF Entries, Places
  <1>5. \/ EnterDiscovered(p, r, r[s].worktree)
        \/ registry' = r /\ Become(p, "leases", None)
    BY <1>2
  <1> HIDE DEF r
  <1>6. CASE EnterDiscovered(p, r, r[s].worktree)
    BY <1>1, <1>3, <1>4, <1>6, EnterDiscoveredStep
  <1>7. CASE registry' = r /\ Become(p, "leases", None)
    BY <1>1, <1>3, <1>4, <1>7, BecomeStep
  <1> QED
    BY <1>5, <1>6, <1>7

LEMMA LeasesStep ==
    ASSUME PInv, NEW p \in Prompts, Leases(p)
    PROVE  PInv'
  <1> DEFINE s == For(p)
  <1>1. /\ s \in Sessions /\ prompt[p].pc \notin Trying /\ prompt[p].pc # "idle"
        /\ UNCHANGED <<at, queued, move>> /\ registry[s] \in Entries
    BY DEF Leases, host, PInv, PType, Steady, For, Trying
  <1>2. PICK path \in Worktrees \cup {None} :
          IF path = None \/ path \in registry[s].abandoned
          THEN UNCHANGED registry /\ End(p)
          ELSE EnterDiscovered(p, [registry EXCEPT ![s] =
                   RememberWorktree(@, path, None)], path)
    BY Zenon DEF Leases
  <1>3. CASE path = None \/ path \in registry[s].abandoned
    BY <1>1, <1>2, <1>3, SameKept, EndStep
  <1>4. CASE path # None /\ path \notin registry[s].abandoned
    <2> DEFINE f == RememberWorktree(registry[s], path, None)
               r == [registry EXCEPT ![s] = f]
    <2>1. path \in Dirs /\ path \in Places /\ None \in Places
      BY <1>4 DEF Dirs, Places
    <2>2. Kept(s, registry[s], f)
      BY <1>1, <1>4, <2>1, RememberKept
    <2>3. AllKept(r)
      BY <1>1, <2>2, SameKept, OneKept
    <2>4. EnterDiscovered(p, r, path)
      BY <1>2, <1>4
    <2> HIDE DEF r
    <2> QED
      BY <1>1, <2>1, <2>3, <2>4, EnterDiscoveredStep
  <1> QED
    BY <1>3, <1>4

\* An attempt takes its next step, and nothing else changes but the record of its session.
LEMMA EarlierStep ==
    ASSUME PInv, NEW p \in Prompts, Earlier(p)
    PROVE  PInv'
  <1> DEFINE s == For(p)
  <1>1. /\ s \in Sessions /\ prompt[p].pc = "earlier" /\ prompt[p].pc \in Trying
        /\ UNCHANGED <<at, queued>> /\ registry[s] \in Entries /\ prompt[p] \in Slots
        /\ move[p] # "inflight"
    BY DEF Earlier, host, PInv, PType, Steady, For, Trying
  <1>2. CASE ~Current(p)
    <2>1. Settle(p, registry) /\ registry[s].attempt # p
      BY <1>2 DEF Earlier, Current
    <2> QED
      BY <1>1, <2>1, SameKept, SettleStep
  <1>3. CASE Current(p)
    <2> DEFINE x == [prompt[p] EXCEPT !.pc = "locate"]
    <2>1. /\ prompt' = [prompt EXCEPT ![p] = x] /\ registry' = registry /\ move' = move
          /\ registry[s].attempt = p /\ move[prompt[p].wait] # "inflight"
      BY <1>3 DEF Earlier, Current
    <2>2. x \in Slots /\ x.pc = "locate" /\ x.s = s /\ x.target = prompt[p].target
      BY <1>1 DEF Slots, Points, For
    <2> HIDE DEF x
    <2>3. /\ prompt' \in [Prompts -> Slots] /\ prompt'[p] = x
          /\ \A q \in Prompts : q # p => prompt'[q] = prompt[q]
      BY <2>1, <2>2 DEF PInv, PType
    <2>4. PType'
      BY <1>1, <2>1, <2>3 DEF PInv, PType
    <2>5. ASSUME NEW q \in Prompts
          PROVE  Steady(prompt'[q], q, registry', move'[q])
      <3>1. Steady(prompt[q], q, registry, move[q])
        BY DEF PInv
      <3> QED
        BY <1>1, <2>1, <2>2, <2>3, <3>1 DEF Steady
    <2>6. ASSUME NEW t \in Sessions
          PROVE  Owned(t, registry'[t], prompt', move')
      <3>1. Owned(t, registry[t], prompt, move) /\ registry[t] \in Entries
        BY DEF PInv, PType
      <3>2. CASE t = s
        <4>1. registry[s].dispatched # None => move[registry[s].dispatched] # "inflight"
          BY <1>1, <2>1, <3>1, <3>2, NoneAssumption DEF Owned
        <4>2. registry[s].dispatched # None =>
                 prompt'[registry[s].dispatched] = prompt[registry[s].dispatched]
          BY <1>1, <2>3, <3>1, <3>2 DEF Owned, Entries
        <4> QED
          BY <1>1, <2>1, <2>2, <2>3, <3>1, <3>2, <4>1, <4>2, NoneAssumption DEF Owned, Trying
      <3>3. CASE t # s
        <4>1. registry[t].attempt # None => registry[t].attempt \in Prompts /\ registry[t].attempt # p
          BY <3>1, <3>3 DEF Owned, Entries, For
        <4>2. registry[t].attempt # None => prompt'[registry[t].attempt] = prompt[registry[t].attempt]
          BY <2>3, <4>1
        <4>3. registry[t].dispatched # None =>
                 prompt'[registry[t].dispatched] = prompt[registry[t].dispatched]
          BY <1>1, <2>3, <3>1 DEF Owned, Entries
        <4> QED
          BY <2>1, <3>1, <4>2, <4>3 DEF Owned
      <3> QED
        BY <3>2, <3>3
    <2> QED
      BY <2>4, <2>5, <2>6 DEF PInv
  <1> QED
    BY <1>2, <1>3

LEMMA LocateStep ==
    ASSUME PInv, NEW p \in Prompts, Locate(p)
    PROVE  PInv'
  <1> DEFINE s == For(p)
             target == prompt[p].target
  <1>1. /\ s \in Sessions /\ prompt[p].pc = "locate" /\ prompt[p].pc \in Trying
        /\ UNCHANGED <<at, queued>> /\ prompt[p] \in Slots /\ move[p] # "inflight"
    BY DEF Locate, host, PInv, PType, Steady, For, Trying
  <1>2. PICK d \in Answers(s) :
          LET r == [registry EXCEPT ![s] = Cached(@, d)]
          IN  \/ Settle(p, r)
              \/ Settle(p, [r EXCEPT ![s].placed = TRUE, ![s].confirmed = TRUE])
              \/ /\ Current(p)
                 /\ registry' = [r EXCEPT
                        ![s].origin = IF @ = None THEN d ELSE @,
                        ![s].dispatched = p]
                 /\ prompt' = [prompt EXCEPT ![p].pc = "move"]
                 /\ move' = [move EXCEPT ![p] = "inflight"]
    BY Zenon DEF Locate
  <1> DEFINE e == Cached(registry[s], d)
             r == [registry EXCEPT ![s] = e]
  <1>3. d \in Places
    BY <1>1, AnswerType
  <1>4. AllKept(r) /\ r[s] = e /\ e \in Entries /\ e.attempt = registry[s].attempt
    BY <1>1, <1>3, FreshKept
  <1>5. CASE Settle(p, r)
    <2> HIDE DEF r
    <2> QED
      BY <1>1, <1>4, <1>5, SettleStep
  <1>6. CASE Settle(p, [r EXCEPT ![s].placed = TRUE, ![s].confirmed = TRUE])
    <2> DEFINE f == [e EXCEPT !.placed = TRUE]
               g == [f EXCEPT !.confirmed = TRUE]
               q == [r EXCEPT ![s] = g]
    <2>0. r \in [Sessions -> Entries]
      BY <1>4 DEF AllKept
    <2> HIDE DEF r, e
    <2>1. [r EXCEPT ![s].placed = TRUE, ![s].confirmed = TRUE] = q
      BY <1>1, <1>4, <2>0 DEF Entries
    <2>2. Kept(s, e, f)
      BY <1>4, MarkedKept
    <2> HIDE DEF f
    <2>3. Kept(s, f, g)
      BY <2>2, MarkedKept DEF Kept
    <2> HIDE DEF g
    <2>4. AllKept(q)
      BY <1>1, <1>4, <2>2, <2>3, KeptTwice, OneKept
    <2> HIDE DEF q
    <2> QED
      BY <1>1, <1>6, <2>1, <2>4, SettleStep
  <1>7. CASE /\ Current(p)
             /\ registry' = [r EXCEPT
                    ![s].origin = IF @ = None THEN d ELSE @,
                    ![s].dispatched = p]
             /\ prompt' = [prompt EXCEPT ![p].pc = "move"]
             /\ move' = [move EXCEPT ![p] = "inflight"]
    <2> DEFINE f == [e EXCEPT !.origin = IF @ = None THEN d ELSE @, !.dispatched = p]
               x == [prompt[p] EXCEPT !.pc = "move"]
    <2>0. r \in [Sessions -> Entries]
      BY <1>4 DEF AllKept
    <2>a. /\ registry' = [r EXCEPT ![s].origin = IF @ = None THEN d ELSE @,
                                   ![s].dispatched = p]
          /\ Kept(s, registry[s], e)
          /\ registry[s].attempt = p
      BY <1>1, <1>3, <1>7, FreshKept DEF Current
    <2> HIDE DEF r, e
    <2>1. registry' = [r EXCEPT ![s] = f]
      BY <1>1, <1>4, <2>0, <2>a DEF Entries
    <2>2. /\ f \in Entries /\ f.attempt = e.attempt /\ f.abandoned = e.abandoned
          /\ f.worktree = e.worktree /\ f.dispatched = p
      BY <1>3, <1>4 DEF Entries
    <2>3. x \in Slots /\ x.pc = "move" /\ x.s = s /\ x.target = target
      BY <1>1 DEF Slots, Points, For
    <2> HIDE DEF f
    <2>4. /\ registry' \in [Sessions -> Entries] /\ registry'[s] = f
          /\ \A t \in Sessions : t # s => registry'[t] = r[t]
      BY <1>1, <2>0, <2>1, <2>2
    <2>5. /\ prompt' \in [Prompts -> Slots] /\ prompt'[p] = x
          /\ \A q \in Prompts : q # p => prompt'[q] = prompt[q]
      BY <1>7, <2>3 DEF PInv, PType
    <2> HIDE DEF x
    <2>6. /\ move' \in [Prompts -> Calls]
          /\ \A q \in Prompts : move'[q] = IF q = p THEN "inflight" ELSE move[q]
      BY <1>7 DEF PInv, PType, Calls
    <2>7. PType'
      BY <1>1, <2>4, <2>5, <2>6 DEF PInv, PType
    <2>8. Owned(s, registry[s], prompt, move) /\ registry[s] \in Entries
      BY <1>1 DEF PInv, PType
    <2>9. registry[s].dispatched # None => move[registry[s].dispatched] # "inflight"
      BY <1>1, <2>a, <2>8, NoneAssumption DEF Owned
    <2>10. ASSUME NEW q \in Prompts
           PROVE  Steady(prompt'[q], q, registry', move'[q])
      <3>1. Steady(prompt[q], q, registry, move[q])
        BY DEF PInv
      <3>2. CASE q = p
        BY <1>1, <2>2, <2>3, <2>4, <2>5, <3>2 DEF Steady
      <3>3. CASE q # p
        <4>1. ASSUME move[q] = "inflight"
              PROVE  registry'[prompt[q].s].dispatched = q
          <5>1. prompt[q].s \in Sessions /\ registry[prompt[q].s].dispatched = q
            BY <3>1, <4>1 DEF Steady
          <5>2. prompt[q].s # s
            BY <2>9, <4>1, <5>1, NoneAssumption
          <5> QED
            BY <1>4, <2>4, <5>1, <5>2 DEF AllKept, Kept
        <4> QED
          BY <2>5, <2>6, <3>1, <3>3, <4>1 DEF Steady
      <3> QED
        BY <3>2, <3>3
    <2>11. ASSUME NEW t \in Sessions
           PROVE  Owned(t, registry'[t], prompt', move')
      <3>1. CASE t = s
        <4>1. /\ Parent[s] = None => f.worktree \notin f.abandoned
              /\ Parent[s] = None => target \notin f.abandoned
          BY <2>2, <2>8, <2>a, <1>4, NoneAssumption DEF Owned, Kept
        <4> QED
          BY <1>4, <2>2, <2>3, <2>4, <2>5, <2>a, <3>1, <4>1 DEF Owned, Trying
      <3>2. CASE t # s
        <4>1. registry[t] \in Entries /\ Owned(t, registry[t], prompt, move)
              /\ Kept(t, registry[t], r[t])
          BY <1>4 DEF PInv, PType, AllKept
        <4>2. r[t].attempt # None =>
                /\ r[t].attempt \in Prompts /\ r[t].attempt # p
                /\ r[t].dispatched = registry[t].dispatched
                /\ r[t].attempt = registry[t].attempt
                /\ r[t].abandoned = registry[t].abandoned
          BY <3>2, <4>1 DEF Owned, Kept, Entries, For
        <4>3. r[t].attempt # None => prompt'[r[t].attempt] = prompt[r[t].attempt]
          BY <2>5, <4>2
        <4>7. r[t].dispatched # None =>
                /\ r[t].dispatched \in Prompts /\ r[t].dispatched # p
                /\ prompt[r[t].dispatched].s = t /\ prompt[r[t].dispatched].pc = "move"
                /\ prompt'[r[t].dispatched] = prompt[r[t].dispatched]
          BY <1>1, <2>5, <4>1 DEF Owned, Kept, Entries
        <4>4. ASSUME r[t].attempt # None, prompt[r[t].attempt].pc = "locate",
                     r[t].dispatched # None
              PROVE  move'[r[t].dispatched] # "inflight"
          <5>1. r[t].dispatched \in Prompts /\ move[r[t].dispatched] # "inflight"
            BY <4>1, <4>2, <4>4 DEF Owned, Kept, Entries
          <5> QED
            BY <2>6, <4>7, <5>1, <4>4
        <4>5. Parent[t] = None => r[t].worktree \notin r[t].abandoned
          BY <4>1 DEF Owned, Kept
        <4>6. Owned(t, r[t], prompt', move')
          BY <4>1, <4>2, <4>3, <4>4, <4>5, <4>7 DEF Owned
        <4> QED
          BY <2>4, <3>2, <4>6
      <3> QED
        BY <3>1, <3>2
    <2> QED
      BY <2>7, <2>10, <2>11 DEF PInv
  <1> QED
    BY <1>2, <1>5, <1>6, <1>7

LEMMA MovedStep ==
    ASSUME PInv, NEW p \in Prompts, Moved(p)
    PROVE  PInv'
  <1> DEFINE s == For(p)
             f == [registry[s] EXCEPT !.placed = TRUE]
             r == [registry EXCEPT ![s] = f]
  <1>1. /\ s \in Sessions /\ prompt[p].pc = "move" /\ prompt[p].pc \in Trying
        /\ UNCHANGED <<at, queued>> /\ move[p] # "inflight" /\ registry[s] \in Entries
    BY DEF Moved, host, PInv, PType, Steady, For, Trying
  <1>2. Settle(p, r) \/ Settle(p, registry)
    BY DEF Moved
  <1>3. Kept(s, registry[s], f)
    BY <1>1, MarkedKept
  <1>4. AllKept(r) /\ AllKept(registry)
    BY <1>1, <1>3, SameKept, OneKept
  <1> HIDE DEF r
  <1> QED
    BY <1>1, <1>2, <1>4, SettleStep

LEMMA HostStep ==
    ASSUME PInv, NEW p \in Prompts, HostAnswers(p)
    PROVE  PInv'
  <1>1. prompt[p] \in Slots /\ For(p) \in Sessions /\ prompt[p].pc = "move"
    BY DEF HostAnswers, HostAccepts, HostRejects, PInv, PType, Steady, For
  <1>2. /\ move' \in [Prompts -> Calls]
        /\ \A q \in Prompts : move'[q] = "inflight" => move[q] = "inflight"
        /\ UNCHANGED <<at, registry, prompt>>
    BY DEF HostAnswers, HostAccepts, HostRejects, host, PInv, PType, Calls
  <1>3. queued' \in [Sessions -> Places]
    BY <1>1 DEF HostAnswers, HostAccepts, HostRejects, host, PInv, PType, Slots
  <1>4. PType'
    BY <1>2, <1>3 DEF PInv, PType
  <1>5. ASSUME NEW q \in Prompts
        PROVE  Steady(prompt'[q], q, registry', move'[q])
    <2>1. Steady(prompt[q], q, registry, move[q])
      BY DEF PInv
    <2> QED
      BY <1>2, <2>1 DEF Steady
  <1>6. ASSUME NEW s \in Sessions
        PROVE  Owned(s, registry'[s], prompt', move')
    <2>1. Owned(s, registry[s], prompt, move) /\ registry[s] \in Entries
      BY DEF PInv, PType
    <2>2. Kept(s, registry[s], registry[s])
      BY <2>1, KeptSelf
    <2>3. Owned(s, registry[s], prompt', move')
      BY <1>2, <2>1, <2>2, OwnedKept
    <2> QED
      BY <1>2, <2>3
  <1> QED
    BY <1>4, <1>5, <1>6 DEF PInv

LEMMA WorldStep ==
    ASSUME PInv, NEW s \in Sessions, HostLands(s) \/ OthersMove(s)
    PROVE  PInv'
  <1>1. UNCHANGED <<registry, prompt, move>>
    BY DEF HostLands, OthersMove
  <1>2. at' \in [Sessions -> Dirs] /\ queued' \in [Sessions -> Places]
    BY DEF HostLands, OthersMove, PInv, PType, Places
  <1> QED
    BY <1>1, <1>2 DEF PInv, PType

(***************************************************************************)
(* Theorems.                                                               *)
(***************************************************************************)

LEMMA PlacementInit ==
    Init => PInv
  <1> SUFFICES ASSUME Init PROVE PInv
    OBVIOUS
  <1>1. /\ NoEntry \in Entries /\ NoEntry.worktree = None /\ NoEntry.abandoned = {}
        /\ NoEntry.attempt = None /\ NoEntry.dispatched = None
    BY DEF NoEntry, Entries, Places
  <1>2. PType
    BY <1>1, IdleSlot DEF Init, PType, Dirs, Places, Calls
  <1>3. \A q \in Prompts : Steady(prompt[q], q, registry, move[q])
    BY IdleSlot DEF Init, Steady
  <1>4. \A s \in Sessions : Owned(s, registry[s], prompt, move)
    BY <1>1 DEF Init, Owned
  <1> QED
    BY <1>2, <1>3, <1>4 DEF PInv

LEMMA PlacementNext ==
    ASSUME PInv, [Next]_vars
    PROVE  PInv'
  <1>1. CASE UNCHANGED vars
    BY <1>1 DEF vars, host, PInv, PType
  <1>2. ASSUME NEW p \in Prompts, Step(p)
        PROVE  PInv'
    BY <1>2, ReconcileStep, InfoStep, InheritStep, ChildStep, ProbeStep, LeasesStep,
       EarlierStep, LocateStep, MovedStep DEF Step
  <1> QED
    BY <1>1, <1>2, StartStep, HostStep, WorldStep DEF Next

\* The attempt that has a session's record is under way, aims at no abandoned directory,
\* and does not overtake the move dispatched before it: what the maps of session.js hold
\* between the awaits of all prompts.
THEOREM AttemptsKept ==
    Spec => []PInv
  BY PlacementInit, PlacementNext, PTL DEF Spec

\* The adapter's maps and the host's answers keep their types.
THEOREM TypeCorrect ==
    Spec => []TypeOK
  <1>1. PInv => TypeOK
    BY DEF PInv, PType, TypeOK, Entries, Slots, Places, Points
  <1> QED
    BY <1>1, AttemptsKept, PTL

\* The host never works on two moves of one session at once (session.js:48-52): the attempt
\* that replaces a superseded one waits for its move.
THEOREM OneMoveAtOnce ==
    Spec => []MovesAreSerial
  <1>1. ASSUME PInv, NEW s \in Sessions
        PROVE  Cardinality({p \in Prompts : For(p) = s /\ move[p] = "inflight"}) <= 1
    <2> DEFINE D == {p \in Prompts : For(p) = s /\ move[p] = "inflight"}
               q == registry[s].dispatched
    <2>1. D \subseteq {q}
      BY <1>1 DEF PInv, Steady, For
    <2>2. IsFiniteSet({q}) /\ Cardinality({q}) = 1
      BY FS_Singleton
    <2>3. Cardinality(D) <= Cardinality({q})
      BY <2>1, <2>2, FS_Subset
    <2> QED
      BY <2>2, <2>3
  <1>2. PInv => MovesAreSerial
    BY <1>1 DEF MovesAreSerial
  <1> QED
    BY <1>2, AttemptsKept, PTL

\* A prompt of a session without a parent asks the host for a directory only if the session
\* was not moved out of it, however many awaits lie between the choice and the request.
THEOREM NoWayBack ==
    Spec => NoWayBackByLease
  <1>1. ASSUME PInv, [Next]_vars, NEW p \in Prompts, Dispatches(p), Parent[For(p)] = None
        PROVE  prompt[p].target \notin registry[For(p)].abandoned
    <2>1. move \in [Prompts -> Calls] /\ move[p] # "inflight" /\ move'[p] = "inflight"
      BY <1>1 DEF Dispatches, PInv, PType
    <2>2. ASSUME NEW q \in Prompts, NEW r, Settle(q, r)
          PROVE  FALSE
      BY <2>1, <2>2 DEF Settle
    <2>3. move' # move
      BY <2>1
    <2>4. Locate(p) /\ Current(p)
      <3>1. PICK q \in Prompts : Step(q) \/ HostAnswers(q)
        <4>1. ~UNCHANGED vars
          BY <2>3 DEF vars
        <4>2. ~ \E q \in Prompts, s \in Sessions : Start(q, s)
          BY <2>3 DEF Start
        <4>3. ~ \E s \in Sessions : HostLands(s) \/ OthersMove(s)
          BY <2>3 DEF HostLands, OthersMove
        <4> QED
          BY <1>1, <4>1, <4>2, <4>3 DEF Next
      <3>2. ~HostAnswers(q)
        BY <2>1 DEF HostAnswers, HostAccepts, HostRejects
      <3>3. ~(Reconcile(q) \/ Info(q) \/ Inherit(q) \/ ChildRead(q) \/ Probe(q) \/ Leases(q))
        BY <2>3 DEF Reconcile, Info, Inherit, ChildRead, Probe, Leases
      <3>4. ~Earlier(q) /\ ~Moved(q)
        BY <2>2, <2>3 DEF Earlier, Moved
      <3>5. Locate(q)
        BY <3>1, <3>2, <3>3, <3>4 DEF Step
      <3>6. Current(q) /\ move' = [move EXCEPT ![q] = "inflight"]
        BY <2>2, <3>5 DEF Locate
      <3>7. q = p
        BY <2>1, <3>6
      <3> QED
        BY <3>5, <3>6, <3>7
    <2>5. registry[For(p)].attempt = p
      BY <2>4 DEF Current
    <2>6. For(p) \in Sessions
      BY <1>1, <2>4 DEF Locate, PInv, Steady, For
    <2>7. Owned(For(p), registry[For(p)], prompt, move)
      BY <1>1, <2>6 DEF PInv
    <2> QED
      BY <1>1, <2>5, <2>7, NoneAssumption DEF Owned
  <1>2. PInv /\ [Next]_vars =>
          \A p \in Prompts : Dispatches(p) /\ Parent[For(p)] = None =>
              prompt[p].target \notin registry[For(p)].abandoned
    BY <1>1
  <1> QED
    BY <1>2, AttemptsKept, PTL DEF Spec, NoWayBackByLease
=============================================================================

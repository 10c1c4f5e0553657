----------------------------- MODULE Placement -----------------------------
(***************************************************************************)
(* Session placement of the OpenCode adapter (assets/opencode/src/         *)
(* session.js, session-reconcile.js, discovery.js, binding.js).            *)
(*                                                                         *)
(* Every prompt of a session runs ensureSessionWorktree: it reconciles the *)
(* registered target with the directory the host reports, inherits the     *)
(* parent's directory or discovers a leased worktree, and asks the host to *)
(* move the session.  Prompts of one session may overlap, every host or    *)
(* CLI call is an await, and the code from the answer of one to the next   *)
(* call runs alone (each answer arrives in a task of its own): that is one *)
(* action.  The host accepts a move and applies it later; others           *)
(* (`issue close`, an operator) move sessions too.                         *)
(***************************************************************************)
EXTENDS Naturals, FiniteSets

CONSTANTS
    Sessions, Parent,   \* the sessions and the session each was spawned by
    Prompts,            \* how many prompts may be under way at once
    Main, Worktrees,    \* the main checkout and the worktree directories
    None,
    MaxRelocations,     \* bound: moves made by others
    MaxRuns             \* bound: prompts submitted

ASSUME ParentAssumption == Parent \in [Sessions -> Sessions \cup {None}]
ASSUME NoneAssumption ==
    None \notin Sessions \cup Prompts \cup Worktrees \cup {Main}

VARIABLES
    at,             \* host: the directory of each session
    queued,         \* host: the accepted move that has not landed
    relocations,    \* host: how often others moved a session
    registry,       \* the adapter's maps, one record per session
    prompt,         \* what each prompt holds across its awaits
    move,           \* the host call each prompt's attempt dispatched
    runs            \* prompts submitted so far

host == <<at, queued, relocations>>
vars == <<host, registry, prompt, move, runs>>

Dirs == {Main} \cup Worktrees

\* sessionWorktrees, placementOrigins, abandonedTargets, placedSessions,
\* confirmedSessions, the directory of sessionInfo, and moveAttempts: the
\* prompt whose attempt runs and the prompt that dispatched the last move.
NoEntry == [worktree |-> None, origin |-> None, abandoned |-> {},
            placed |-> FALSE, confirmed |-> FALSE, info |-> None,
            attempt |-> None, dispatched |-> None]

\* A prompt of session s that waits at pc.
Idle == [s |-> None, pc |-> "idle", reg |-> None, target |-> None, dir |-> None,
         wait |-> None]

-----------------------------------------------------------------------------
(* The registry: what each function makes of a session's record e.         *)

SupersedeAttempt(e) == [e EXCEPT !.attempt = None]

\* The markers of one target never decide the placement of another.
RememberWorktree(e, directory, from) ==
    LET other == e.worktree \notin {None, directory}
        fresh == IF other THEN SupersedeAttempt([e EXCEPT !.origin = None,
                                   !.placed = FALSE, !.confirmed = FALSE])
                 ELSE e
    IN  [fresh EXCEPT !.worktree = directory,
                      !.origin = IF from # None THEN from ELSE @]

MarkTargetAbandoned(e, directory) ==
    [e EXCEPT !.abandoned = @ \cup {directory}]

ForgetSessionWorktree(e) ==
    SupersedeAttempt([e EXCEPT !.worktree = None, !.origin = None,
                               !.placed = FALSE, !.confirmed = FALSE,
                               !.info = None])

\* The host moved the session out of directory.
Relocated(e, directory) ==
    ForgetSessionWorktree(MarkTargetAbandoned(e, directory))

\* The host reports the origin of a target it never confirmed: the accepted
\* move has not landed yet.
Lagging(e, directory) ==
    e.origin # None /\ directory = e.origin /\ ~e.confirmed

\* readAuthoritativeDirectory: an answer refreshes the cached record.
Answers(s) == {at[s], None}
Cached(e, directory) ==
    IF directory = None THEN e ELSE [e EXCEPT !.info = directory]

-----------------------------------------------------------------------------
(* Prompts end, and enter moveSessionToWorktree.                           *)

For(p) == prompt[p].s
At(p, pc) == [Idle EXCEPT !.s = For(p), !.pc = pc]

Become(p, pc, target) ==
    prompt' = [prompt EXCEPT ![p] = [At(p, pc) EXCEPT !.target = target]]

\* The prompt's turn goes on and its slot is free.
End(p) == prompt' = [prompt EXCEPT ![p] = Idle]

\* A placed session is left alone and a running attempt is joined; otherwise
\* an attempt starts, which waits for the host move dispatched before it.
EnterMove(p, r, target) ==
    LET s == For(p)
        e == r[s]
    IN  IF e.placed
        THEN registry' = r /\ End(p)
        ELSE IF e.attempt # None
        THEN /\ registry' = r
             /\ prompt' = [prompt EXCEPT ![p] = [At(p, "join") EXCEPT
                               !.target = target, !.wait = e.attempt]]
        ELSE /\ registry' = [r EXCEPT ![s].attempt = p]
             /\ prompt' = [prompt EXCEPT ![p] =
                    [At(p, IF e.dispatched = None THEN "locate" ELSE "earlier")
                        EXCEPT !.target = target, !.wait = e.dispatched]]

\* (A mutant of Settle: the prompts that joined the attempt are not told.)
SettleAlone(p, r) ==
    /\ prompt' = [prompt EXCEPT ![p] = Idle]
    /\ registry' = [r EXCEPT
           ![For(p)].attempt = IF @ = p THEN None ELSE @,
           ![For(p)].dispatched = IF @ = p THEN None ELSE @]
    /\ move' = [move EXCEPT ![p] = "none"]

\* p's attempt settles: p and the prompts that joined it end (in an error
\* where the attempt failed), and its record goes unless the attempt was
\* superseded; then only the settled host move is dropped from the record.
Settle(p, r) ==
    /\ prompt' = [q \in Prompts |->
           IF q = p \/ (prompt[q].pc = "join" /\ prompt[q].wait = p)
           THEN Idle ELSE prompt[q]]
    /\ registry' = [r EXCEPT
           ![For(p)].attempt = IF @ = p THEN None ELSE @,
           ![For(p)].dispatched = IF @ = p \/ r[For(p)].attempt = p
                                  THEN None ELSE @]
    /\ move' = [move EXCEPT ![p] = "none"]

\* isCurrent: the attempt was not superseded while it waited.
Current(p) == registry[For(p)].attempt = p

-----------------------------------------------------------------------------
(* ensureSessionWorktree.                                                  *)

\* A prompt takes a free slot (any one: they are alike);
\* reconcileSessionLocation captures the registered target and reads the host.
Start(p, s) ==
    LET reg == registry[s].worktree
    IN  /\ \E q \in Prompts : prompt[q].pc = "idle"
        /\ p = CHOOSE q \in Prompts : prompt[q].pc = "idle"
        /\ runs < MaxRuns
        /\ runs' = runs + 1
        /\ prompt' = [prompt EXCEPT ![p] = [Idle EXCEPT !.s = s,
                          !.pc = IF reg = None THEN "info" ELSE "reconcile",
                          !.reg = reg]]
        /\ UNCHANGED <<host, registry, move>>

Reconcile(p) ==
    LET s == For(p)
        reg == prompt[p].reg
        KeepWith(e) == /\ registry' = [registry EXCEPT ![s] = e]
                       /\ Become(p, "info", None)
        DropWith(e) == registry' = [registry EXCEPT ![s] = e] /\ End(p)
    IN  /\ prompt[p].pc = "reconcile"
        /\ \E d \in Answers(s) :
             LET e == Cached(registry[s], d)
             IN  \/ /\ d = None /\ e.placed
                    /\ DropWith(ForgetSessionWorktree(e))
                 \/ /\ d = None /\ ~e.placed
                    /\ KeepWith(e)
                 \/ /\ d = reg
                    /\ KeepWith([e EXCEPT !.confirmed = TRUE])
                 \/ /\ d \notin {None, reg} /\ Lagging(e, d)
                    /\ KeepWith(e)
                 \/ /\ d \notin {None, reg} /\ ~Lagging(e, d)
                    /\ DropWith(Relocated(e, reg))
        /\ UNCHANGED <<host, move, runs>>

\* readSessionInfo answers, from the cache where it can: a child inherits, a
\* registered session moves, any other session is probed.
Info(p) ==
    LET s == For(p)
    IN  /\ prompt[p].pc = "info"
        /\ \E d \in IF registry[s].info # None THEN {registry[s].info}
                    ELSE Answers(s) :
             LET r == [registry EXCEPT ![s] = Cached(@, d)]
             IN  \/ /\ d # None /\ Parent[s] # None
                    /\ prompt' = [prompt EXCEPT ![p] = [At(p, "inherit") EXCEPT
                            !.dir = d, !.reg = registry[Parent[s]].worktree]]
                    /\ registry' = r
                 \/ /\ d = None \/ Parent[s] = None
                    /\ IF r[s].worktree # None
                       THEN EnterMove(p, r, r[s].worktree)
                       ELSE registry' = r /\ Become(p, "probe", None)
        /\ UNCHANGED <<host, move, runs>>

\* inheritedWorktree: where a child goes for the parent's captured target reg
\* and the directory d the host reports, and what becomes of the parent.
InheritedTarget(e, reg, d) ==
    IF reg # None /\ (d = reg \/ Lagging(e, d)) THEN reg ELSE d
InheritedParent(e, reg, d) ==
    IF reg = None \/ (d # reg /\ Lagging(e, d)) THEN e
    ELSE IF d = reg THEN [e EXCEPT !.confirmed = TRUE]
    ELSE Relocated(e, reg)

\* inheritParentWorktree, given the registry r after that: a child whose
\* cached record already names the target is looked up first; any other child
\* is registered and moved.
InheritParentWorktree(p, r, target) ==
    LET s == For(p)
    IN  IF target \in r[s].abandoned
        THEN registry' = r /\ End(p)
        ELSE IF prompt[p].dir = target
        THEN registry' = r /\ Become(p, "child", target)
        ELSE EnterMove(p, [r EXCEPT ![s] = RememberWorktree(@, target, None)],
                       target)

Inherit(p) ==
    LET par == Parent[For(p)]
        reg == prompt[p].reg
    IN  /\ prompt[p].pc = "inherit"
        /\ \E d \in Answers(par) :
             LET e == Cached(registry[par], d)
             IN  IF d = None THEN End(p) /\ UNCHANGED registry
                 ELSE InheritParentWorktree(p,
                          [registry EXCEPT ![par] = InheritedParent(e, reg, d)],
                          InheritedTarget(e, reg, d))
        /\ UNCHANGED <<host, move, runs>>

ChildRead(p) ==
    LET s == For(p)
        target == prompt[p].target
    IN  /\ prompt[p].pc = "child"
        /\ \E d \in Answers(s) :
             LET e == Cached(registry[s], d)
             IN  IF d = target
                 THEN /\ registry' = [registry EXCEPT ![s] =
                             [RememberWorktree(e, target, d) EXCEPT
                                 !.placed = TRUE, !.confirmed = TRUE]]
                      /\ End(p)
                 ELSE EnterMove(p, [registry EXCEPT ![s] =
                          RememberWorktree(e, target, None)], target)
        /\ UNCHANGED <<host, move, runs>>

\* What discoverWorktreeForSession found is entered unless the host moved
\* the session out of it.
EnterDiscovered(p, r, target) ==
    IF target \in r[For(p)].abandoned
    THEN /\ registry' = [r EXCEPT ![For(p)] = ForgetSessionWorktree(@)]
         /\ End(p)
    ELSE EnterMove(p, r, target)

\* The probes start where the session is; by now it may be registered.
Probe(p) ==
    LET s == For(p)
    IN  /\ prompt[p].pc = "probe"
        /\ \E d \in Answers(s) :
             LET r == [registry EXCEPT ![s] = Cached(@, d)]
             IN  IF r[s].worktree # None
                 THEN EnterDiscovered(p, r, r[s].worktree)
                 ELSE registry' = r /\ Become(p, "leases", None)
        /\ UNCHANGED <<host, move, runs>>

\* (A mutant of Leases: the abandoned directories are not consulted.)
LeasesAnyway(p) ==
    /\ prompt[p].pc = "leases"
    /\ \E path \in Worktrees :
         EnterMove(p, [registry EXCEPT ![For(p)] =
             RememberWorktree(@, path, None)], path)
    /\ UNCHANGED <<host, move, runs>>

\* The binding and the lease are read.  Other commands acquire and release
\* leases at any time, and a probe that fails finds nothing.
Leases(p) ==
    LET s == For(p)
    IN  /\ prompt[p].pc = "leases"
        /\ \E path \in Worktrees \cup {None} :
             IF path = None \/ path \in registry[s].abandoned
             THEN UNCHANGED registry /\ End(p)
             ELSE EnterDiscovered(p, [registry EXCEPT ![s] =
                      RememberWorktree(@, path, None)], path)
        /\ UNCHANGED <<host, move, runs>>

-----------------------------------------------------------------------------
(* moveSessionToWorktree: the attempt.                                     *)

\* The earlier host move has settled, with or without success.
Earlier(p) ==
    /\ prompt[p].pc = "earlier"
    /\ move[prompt[p].wait] \in {"none", "accepted", "rejected"}
    /\ IF Current(p)
       THEN /\ prompt' = [prompt EXCEPT ![p].pc = "locate"]
            /\ UNCHANGED <<registry, move>>
       ELSE Settle(p, registry)
    /\ UNCHANGED <<host, runs>>

\* The fresh read decides: superseded, unverified, already there, or a move
\* whose origin is recorded before it is dispatched.
Locate(p) ==
    LET s == For(p)
        target == prompt[p].target
    IN  /\ prompt[p].pc = "locate"
        /\ \E d \in Answers(s) :
             LET r == [registry EXCEPT ![s] = Cached(@, d)]
             IN  \/ /\ ~Current(p)
                    /\ Settle(p, r)
                 \/ /\ Current(p) /\ d = None
                    /\ Settle(p, r)
                 \/ /\ Current(p) /\ d = target
                    /\ Settle(p, [r EXCEPT ![s].placed = TRUE,
                                           ![s].confirmed = TRUE])
                 \/ /\ Current(p) /\ d \notin {None, target}
                    /\ registry' = [r EXCEPT
                           ![s].origin = IF @ = None THEN d ELSE @,
                           ![s].dispatched = p]
                    /\ prompt' = [prompt EXCEPT ![p].pc = "move"]
                    /\ move' = [move EXCEPT ![p] = "inflight"]
        /\ UNCHANGED <<host, runs>>

\* The answer of the host move reaches the attempt.
Moved(p) ==
    /\ prompt[p].pc = "move"
    /\ \/ /\ move[p] = "accepted"
          /\ Settle(p, IF Current(p)
                       THEN [registry EXCEPT ![For(p)].placed = TRUE]
                       ELSE registry)
       \/ /\ move[p] = "rejected"
          /\ Settle(p, registry)
    /\ UNCHANGED <<host, runs>>

-----------------------------------------------------------------------------
(* The host, and the others who use it.                                    *)

HostAccepts(p) ==
    /\ move[p] = "inflight"
    /\ move' = [move EXCEPT ![p] = "accepted"]
    /\ queued' = [queued EXCEPT ![For(p)] = prompt[p].target]
    /\ UNCHANGED <<at, relocations, registry, prompt, runs>>

HostRejects(p) ==
    /\ move[p] = "inflight"
    /\ move' = [move EXCEPT ![p] = "rejected"]
    /\ UNCHANGED <<host, registry, prompt, runs>>

\* The runner reaches a step boundary.
HostLands(s) ==
    /\ queued[s] # None
    /\ at' = [at EXCEPT ![s] = queued[s]]
    /\ queued' = [queued EXCEPT ![s] = None]
    /\ UNCHANGED <<relocations, registry, prompt, move, runs>>

\* `issue close` or an operator moves a session.
OthersMove(s) ==
    /\ relocations < MaxRelocations
    /\ relocations' = relocations + 1
    /\ \E d \in Dirs \ {at[s]} : at' = [at EXCEPT ![s] = d]
    /\ queued' = [queued EXCEPT ![s] = None]
    /\ UNCHANGED <<registry, prompt, move, runs>>

-----------------------------------------------------------------------------
Init ==
    /\ at = [s \in Sessions |-> Main]
    /\ queued = [s \in Sessions |-> None]
    /\ relocations = 0
    /\ registry = [s \in Sessions |-> NoEntry]
    /\ prompt = [p \in Prompts |-> Idle]
    /\ move = [p \in Prompts |-> "none"]
    /\ runs = 0

Step(p) ==
    \/ Reconcile(p) \/ Info(p) \/ Inherit(p) \/ ChildRead(p) \/ Probe(p)
    \/ Leases(p) \/ Earlier(p) \/ Locate(p) \/ Moved(p)

HostAnswers(p) == HostAccepts(p) \/ HostRejects(p)

Next ==
    \/ \E p \in Prompts, s \in Sessions : Start(p, s)
    \/ \E p \in Prompts : Step(p) \/ HostAnswers(p)
    \/ \E s \in Sessions : HostLands(s) \/ OthersMove(s)

\* Awaits are answered: the event loop runs every prompt on.
Fairness == \A p \in Prompts : WF_vars(Step(p)) /\ WF_vars(HostAnswers(p))

Spec == Init /\ [][Next]_vars /\ Fairness
-----------------------------------------------------------------------------
(* Properties.                                                             *)

\* The variables have their types.
TypeOK ==
    /\ at \in [Sessions -> Dirs]
    /\ queued \in [Sessions -> Dirs \cup {None}]
    /\ \A s \in Sessions :
         /\ registry[s].worktree \in Dirs \cup {None}
         /\ registry[s].origin \in Dirs \cup {None}
         /\ registry[s].abandoned \subseteq Dirs
         /\ registry[s].attempt \in Prompts \cup {None}
         /\ registry[s].dispatched \in Prompts \cup {None}
    /\ \A p \in Prompts :
         prompt[p].pc \in {"idle", "reconcile", "info", "inherit", "child",
             "probe", "leases", "join", "earlier", "locate", "move"}

\* Host moves of a session are serialised ("the attempt that replaces it
\* waits for the earlier host move instead of overtaking it",
\* session.js:48-52), so the last accepted move is the last one decided.
MovesAreSerial ==
    \A s \in Sessions :
        Cardinality({p \in Prompts : For(p) = s /\ move[p] = "inflight"}) <= 1

\* p asks the host for a move.
Dispatches(p) == move[p] # "inflight" /\ move'[p] = "inflight"

\* A lease that is found again never hands back a directory the host moved
\* the session out of, whatever other prompts of the session do meanwhile.
NoWayBackByLease ==
    [][\A p \in Prompts : Dispatches(p) /\ Parent[For(p)] = None =>
          prompt[p].target \notin registry[For(p)].abandoned]_vars

\* Every prompt gets its answer: joining an attempt and waiting for an
\* earlier move never wait in a circle.
PromptEnds ==
    \A p \in Prompts : prompt[p].pc # "idle" ~> prompt[p].pc = "idle"
=============================================================================

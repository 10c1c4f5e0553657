----------------------------- MODULE MCEndings -----------------------------
(* What has to come to an end: the retries of a timer run whose entry Redmine *)
(* refuses or loses (Timers, the retry part) and the wait of a cleanup pass   *)
(* for moves the host may never deliver (Cleanup, the wait part).  Neither    *)
(* reads what the other writes; part says which a behaviour belongs to.       *)
EXTENDS Timers

CONSTANTS c1, c2, r1, i1, NoScope

VARIABLES
    part,
    leases, dirs, content, open, place, running, inflight, pass, unseen

passVars == <<leases, dirs, content, open, place, running, inflight, pass, unseen>>

\* A prune or its preview over one tree, of a root session and its child.
W == INSTANCE Cleanup WITH
    MaxClock <- 0, QueryLimit <- 1, MaxLeases <- 1,
    Projects <- {"forgejo"}, Scopes <- {}, Issues <- {"i"},
    Paths <- {"main", "tree"}, Main <- "main",
    Sessions <- {"root", "child"}, OpenCode <- {"root", "child"},
    Parent <- [s \in {"root", "child"} |-> IF s = "child" THEN "root" ELSE "none"],
    NoSession <- "none", MaxParentEdges <- 2, PollBudget <- 1,
    Passes <- {"p"}, Modes <- {"prune", "preview"},
    Events <- {"acquire", "issues", "sessions", "running"},
    late <- unseen

\* The part that is not explored stays in one of its first states.
EndingsInit ==
    /\ part \in {"retry", "wait"}
    /\ Init /\ (part = "wait" => \A r \in Runs : runs[r].status = "absent")
    /\ W!Init

EndingsNext ==
    /\ UNCHANGED part
    /\ \/ part = "retry" /\ Next /\ UNCHANGED passVars
       \/ part = "wait" /\ W!Next /\ UNCHANGED vars

\* The fairness of Timers and of Cleanup, for the part that runs.
Retries(A) == part = "retry" /\ A /\ UNCHANGED <<part, passVars>>
Waits(A) == part = "wait" /\ A /\ UNCHANGED <<part, vars>>
EndingsFairness ==
    /\ \A c \in Clients : SF_vars(Retries(Step(c)))
    /\ \A r \in Runs : /\ SF_vars(Retries(Retry(r))) /\ SF_vars(Retries(Reclaim(r)))
                       /\ WF_vars(Retries(Expire(r)))
    /\ WF_passVars(Waits(W!PassStep("p")))

EndingsSpec ==
    EndingsInit /\ [][EndingsNext]_<<part, vars, passVars>> /\ EndingsFairness

\* Every pass comes to an end: the wait for pending moves has one budget for the whole
\* call (close_worktree.rs:159), whatever the host and its sessions do meanwhile.
PassEnds == W!PassEnds
=============================================================================

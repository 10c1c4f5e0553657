------------------------------ MODULE MCTracker ------------------------------
(* The two long conversations with a tracker: moving an issue through its      *)
(* statuses (Tracker) and bootstrapping a project (Bootstrap).  Neither reads  *)
(* what the other writes, so each is explored on its own; part says which.     *)
EXTENDS Tracker, TLC

VARIABLES
    part,
    projects, users, names, members, mirror, identity, key, settings, worker, faults, cut

bootVars == <<projects, users, names, members, mirror, identity, key, settings, worker, faults, cut>>
-----------------------------------------------------------------------------
(* Statuses. *)

Cmd(op, target, caller) == [op |-> op, target |-> target, caller |-> caller]

StatusLines ==
    {Cmd("close", None, "orchestrator"), Cmd("set", "Closed", "orchestrator"),
     Cmd("set", "Triaged", "executor"),
     Cmd("advance", "Closed", "orchestrator"), Cmd("auto", None, "orchestrator")}
-----------------------------------------------------------------------------
(* Bootstrap: a process that bootstraps again and again, and one that does     *)
(* what else there is; a new server, and one with an old membership.           *)

Closed == [id |-> "5", name |-> "Closed", closed |-> TRUE]
Open == [id |-> "1", name |-> "New", closed |-> FALSE]
Line(op) == [op |-> op, role |-> "admin", explicit |-> None, foreign |-> FALSE, id |-> None, name |-> None,
             statuses |-> {Open, Closed}]
BootCommands ==
    [b1 |-> {Line("bootstrap")},
     b2 |-> {Line("issue"), [Line("issue") EXCEPT !.id = "1", !.role = "o"],
            Line("apply"), Line("preview")}]
NoRow == [r \in {"o", "e"} |-> None]
OnlyE(v) == [r \in {"o", "e"} |-> IF r = "e" THEN v ELSE None]
OldStores == {[identity |-> NoRow, key |-> OnlyE("x")],
              [identity |-> OnlyE("x"), key |-> OnlyE("x")]}
NoMember == [q \in {"repo", "old"} |-> [u \in {"o", "e", "x"} |-> {}]]
NewServer == [projects |-> {"old"}, members |-> NoMember,
              mirror |-> [q \in {"repo", "old"} |-> None]]
OldServer == [projects |-> {"repo", "old"},
              members |-> [NoMember EXCEPT !["repo"]["x"] = {"extra"}],
              mirror |-> [q \in {"repo", "old"} |-> "ready"]]
RoleNames == {[r \in {"o", "e"} |-> IF r = "o" THEN 2 ELSE 1]}

B == INSTANCE Bootstrap WITH
        Procs <- {"b1", "b2"}, Provisioned <- <<"o", "e">>, Admin <- "admin",
        Others <- {"old"}, Commands <- BootCommands, Stores <- OldStores,
        Names <- RoleNames, Servers <- {NewServer, OldServer}, MaxFaults <- 1, proc <- worker
-----------------------------------------------------------------------------
\* The part that is not explored stays in one of its first states.
TalkInit ==
    /\ part \in {"status", "bootstrap"}
    /\ Init /\ (part = "bootstrap" => kind = "local" /\ ~kids)
    /\ B!Init /\ (part = "status" => identity = NoRow /\ projects = {"old"})

TalkNext ==
    /\ UNCHANGED part
    /\ \/ part = "status" /\ Next /\ UNCHANGED bootVars
       \/ part = "bootstrap" /\ B!Next /\ UNCHANGED vars

\* The fairness of Tracker and of Bootstrap, for the part that runs.
Serves(A) == part = "status" /\ A /\ UNCHANGED <<part, bootVars>>
Boots(A) == part = "bootstrap" /\ A /\ UNCHANGED <<part, vars>>
TalkFairness ==
    /\ \A p \in Procs : WF_vars(Serves(Step(p)))
    /\ \A p \in {"b1", "b2"} :
         /\ WF_bootVars(Boots(B!Step(p)))
         /\ \A c \in B!Whole(p) : SF_bootVars(Boots(B!Start(p, c)))

TalkSpec == TalkInit /\ [][TalkNext]_<<part, vars, bootVars>> /\ TalkFairness
-----------------------------------------------------------------------------
(* The properties of the bootstrap under the names the run checks; those of    *)
(* the status commands are checked under their own.                            *)

\* Settings are stored only for a role whose users, the recorded one and the one of
\* its key, hold it.
SettingsAreBacked == B!SettingsAreBacked
\* The key is one of the user recorded, half-written pairs included.
KeysAreBacked == B!KeysAreBacked
\* A bootstrap that is run again comes to its end.
Converges == part = "bootstrap" => B!Converges
=============================================================================

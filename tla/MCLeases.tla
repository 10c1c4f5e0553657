------------------------------ MODULE MCLeases ------------------------------
(* Two instances of Leases for TLC, which share no command but acquire: in   *)
(* "commands" processes open, release and close leases and are killed; in    *)
(* "stale" time passes, and prune recovers what nobody refreshes.  side says  *)
(* which of the two a behaviour belongs to.                                  *)
EXTENDS Leases, TLC

CONSTANTS main, t1, i1, s1, s2, forgejo

VARIABLE side

\* One scope of a provider without legacy numbers, naming issue i1.
MCScopes == {[project |-> forgejo, number |-> i1, task |-> 0]}

Symmetry == Permutations(Clients)

Opening == INSTANCE Leases WITH
    MaxClock <- 0, Sessions <- {s1},
    Commands <- {"acquire", "release", "close", "kill"}, Options <- {"auto", "isolate"}

LeasesInit == side \in {"commands", "stale"} /\ Init

LeasesNext ==
    /\ UNCHANGED side
    /\ \/ side = "stale" /\ Next
       \/ side = "commands" /\ Opening!Next

LeasesSpec == LeasesInit /\ [][LeasesNext]_<<side, vars>>
=============================================================================

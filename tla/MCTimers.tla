----------------------------- MODULE MCTimers ------------------------------
(* Instances of Timers for TLC.                                            *)
EXTENDS Timers, TLC

CONSTANTS c1, c2, r1, r2, i1

\* Processes and runs are interchangeable.
Symmetry == Permutations(Clients) \cup Permutations(Runs)
=============================================================================

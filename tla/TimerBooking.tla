---------------------------- MODULE TimerBooking ----------------------------
(***************************************************************************)
(* What the timer commands promise about a run: it starts once, it ends    *)
(* once with one result, and its time is booked at the tracker at most     *)
(* once, after it ended.                                                   *)
(***************************************************************************)
EXTENDS Naturals

CONSTANTS
    Runs,      \* run ids
    Results    \* what a run can end with

VARIABLES
    result,    \* "absent", "running" or the result of each run
    booked     \* how many time entries the tracker holds for each run

vars == <<result, booked>>

Init ==
    /\ result \in [Runs -> {"absent", "running"} \cup Results]
    /\ booked \in [Runs -> {0, 1}]
    /\ \A r \in Runs : booked[r] = 1 => result[r] \in Results

Begin(r) ==
    /\ result[r] = "absent"
    /\ result' = [result EXCEPT ![r] = "running"]
    /\ UNCHANGED booked

End(r) ==
    /\ result[r] = "running"
    /\ \E res \in Results : result' = [result EXCEPT ![r] = res]
    /\ UNCHANGED booked

Book(r) ==
    /\ result[r] \in Results
    /\ booked[r] = 0
    /\ booked' = [booked EXCEPT ![r] = 1]
    /\ UNCHANGED result

Next == \E r \in Runs : Begin(r) \/ End(r) \/ Book(r)

Spec == Init /\ [][Next]_vars
=============================================================================

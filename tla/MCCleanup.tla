----------------------------- MODULE MCCleanup -----------------------------
(* Instances of Cleanup for TLC.  The configuration describes `worktree      *)
(* prune` beside edits of the files; Closing is closing and syncing, with two *)
(* issues, a scoped lease and a session f the host does not know.  command   *)
(* says which a behaviour belongs to.                                        *)
EXTENDS Cleanup

CONSTANTS p1, main, t1, i1, i2, r, k, f, forgejo

VARIABLE command

\* The child k descends from r; f is nobody's relative.
MCParent == [s \in OpenCode |-> IF s = k THEN r ELSE NoSession]

MCScopes == {[project |-> forgejo, number |-> i1, task |-> 0]}
NoScopes == {}

Closing == INSTANCE Cleanup WITH
    Issues <- {i1, i2}, OpenCode <- {r}, Parent <- [s \in {r} |-> NoSession],
    Scopes <- MCScopes, Modes <- {"close", "sync"},
    Events <- {"acquire", "issues", "sessions"}

CleanupInit == \/ command = "prune" /\ Init
               \/ command = "close" /\ Closing!Init

CleanupNext ==
    /\ UNCHANGED command
    /\ \/ command = "prune" /\ Next
       \/ command = "close" /\ Closing!Next

CleanupSpec == CleanupInit /\ [][CleanupNext]_<<command, vars>>

\* FairSpec, for the instance of the configuration alone.
ReportInit == command = "prune" /\ Init
ReportNext == Next /\ UNCHANGED command
ReportSpec ==
    /\ ReportInit /\ [][ReportNext]_<<command, vars>>
    /\ \A p \in Passes : WF_vars(PassStep(p) /\ UNCHANGED command)
=============================================================================

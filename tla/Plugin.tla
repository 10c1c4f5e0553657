------------------------------- MODULE Plugin -------------------------------
(***************************************************************************)
(* phasegent plugin install / uninstall: the managed OpenCode adapter in   *)
(* the global and the project plugin directory, or in one explicit one.    *)
(* A run works through its directories in order, one file operation at a   *)
(* time, and may be killed in between.                                     *)
(***************************************************************************)
EXTENDS Naturals, Sequences

CONSTANTS
    Slots,      \* plugin directories, in the order a run takes them
    Foreign,    \* contents of plugin files that are not ours
    MaxRuns,    \* bound on commands
    MaxEdits,   \* bound on the user's own changes
    None

VARIABLES
    file,      \* directory -> what phasegent-worktree.js is
    backup,    \* directory -> what phasegent-worktree.js.phasegent-orig is
    placed,    \* foreign files the user has put there and not taken away
    run,       \* the running command
    runs,
    edits

vars == <<file, backup, placed, run, runs, edits>>

Dirs == {Slots[i] : i \in 1..Len(Slots)}

\* Files with the marker: as this binary ships it, or as another version wrote it.
Managed == {"current", "other"}

Idle == [pc |-> "idle"]

Init ==
    /\ file \in [Dirs -> Foreign \cup {None, "other"}]
    /\ backup = [d \in Dirs |-> None]
    /\ placed = {<<d, file[d]>> : d \in {e \in Dirs : file[e] \in Foreign}}
    /\ run = Idle
    /\ runs = 0
    /\ edits = 0

Active == run.pc \notin {"idle", "done"}

-----------------------------------------------------------------------------
\* execute_install, execute_uninstall: the selected directories, one after the other
\* (both when no scope flag is given); seen is what each held at the start.  Without
\* a home directory the command ends here, whatever it selected.
Start(op, dirs, force) ==
    /\ ~Active /\ runs < MaxRuns /\ runs' = runs + 1
    /\ run' = [pc |-> "look", op |-> op, force |-> force, errors |-> {}, seen |-> file,
               all |-> dirs, todo |-> SelectSeq(Slots, LAMBDA d : d \in dirs)]
    /\ UNCHANGED <<file, backup, placed, edits>>

Here == Head(run.todo)

\* A directory is finished, with or without an error, and the next one begins.
Onward(r) == [r EXCEPT !.todo = Tail(@), !.pc = IF Len(r.todo) = 1 THEN "done" ELSE "look"]

\* A refusal or an error is recorded for its scope; the other scope still runs.
Refuse(r) == Onward([r EXCEPT !.errors = @ \cup {Head(r.todo)}])

\* install_at: a foreign file moves only with --force and an empty backup slot.
CanDisplace(d) == run.force /\ backup[d] = None

\* install_at, up to its first change.
LookInstall ==
    LET d == Here IN
    /\ run.pc = "look" /\ run.op = "install"
    /\ run' = CASE file[d] = "irregular" -> Refuse(run)
                [] file[d] = "current" -> Onward(run)
                [] file[d] \in {None, "other"} -> [run EXCEPT !.pc = "write"]
                [] OTHER -> IF CanDisplace(d) THEN [run EXCEPT !.pc = "rename"] ELSE Refuse(run)
    /\ UNCHANGED <<file, backup, placed, runs, edits>>

Rename ==
    /\ run.pc = "rename"
    /\ backup' = [backup EXCEPT ![Here] = file[Here]]
    /\ file' = [file EXCEPT ![Here] = None]
    /\ run' = [run EXCEPT !.pc = "write"]
    /\ UNCHANGED <<placed, runs, edits>>

\* write_managed: a temporary file renamed over the path.
Write ==
    /\ run.pc = "write"
    /\ file' = [file EXCEPT ![Here] = "current"]
    /\ run' = Onward(run)
    /\ UNCHANGED <<backup, placed, runs, edits>>

\* Whether uninstall may remove a file: any regular one.
RemovableAny(content) == content \notin {None, "irregular"}

\* uninstall_at: only a file with the marker.
Removable(content) == content \in Managed

Uninstall ==
    LET d == Here IN
    /\ run.pc = "look" /\ run.op = "uninstall"
    /\ IF Removable(file[d]) THEN file' = [file EXCEPT ![d] = None] /\ run' = Onward(run)
       ELSE /\ run' = IF file[d] = None THEN Onward(run) ELSE Refuse(run)
            /\ UNCHANGED file
    /\ UNCHANGED <<backup, placed, runs, edits>>

\* A file operation fails: the directory cannot be made or read, a file cannot be
\* moved, removed or written (a full disk).  What the run already did for this
\* directory stays, and the other one still runs.
OperationFails ==
    /\ Active
    /\ run' = Refuse(run)
    /\ UNCHANGED <<file, backup, placed, runs, edits>>

Crash ==
    /\ Active
    /\ run' = Idle
    /\ UNCHANGED <<file, backup, placed, runs, edits>>

-----------------------------------------------------------------------------
\* The user writes or removes the file, or takes the preserved one away.
UserWrites(d, content) ==
    /\ ~Active /\ edits < MaxEdits /\ edits' = edits + 1
    /\ file' = [file EXCEPT ![d] = content]
    /\ placed' = (placed \ {<<d, file[d]>>})
                   \cup (IF content \in Foreign THEN {<<d, content>>} ELSE {})
    /\ run' = Idle
    /\ UNCHANGED <<backup, runs>>

UserTakes(d) ==
    /\ ~Active /\ edits < MaxEdits /\ edits' = edits + 1 /\ backup[d] # None
    /\ backup' = [backup EXCEPT ![d] = None]
    /\ placed' = placed \ {<<d, backup[d]>>}
    /\ run' = Idle
    /\ UNCHANGED <<file, runs>>

Next ==
    \/ \E op \in {"install", "uninstall"}, ds \in (SUBSET Dirs) \ {{}}, f \in BOOLEAN :
          Start(op, ds, f)
    \/ LookInstall \/ Rename \/ Write \/ Uninstall \/ OperationFails \/ Crash
    \/ \E d \in Dirs :
          \/ \E c \in Foreign \cup {None, "other", "irregular"} : UserWrites(d, c)
          \/ UserTakes(d)

Spec == Init /\ [][Next]_vars

-----------------------------------------------------------------------------
(* Properties. *)

\* A plugin file that is not ours survives every sequence of installs (forced or
\* not), uninstalls and kills, in place or beside it, until the user removes it.
ForeignPluginKept ==
    \A x \in placed : file[x[1]] = x[2] \/ backup[x[1]] = x[2]

\* Where a forced install stopped after it moved a foreign file: the file is whole
\* beside its place, which is empty.
MovedAside(d) ==
    /\ run.op = "install" /\ run.force /\ run.seen[d] \in Foreign
    /\ file[d] = None /\ backup[d] = run.seen[d]

\* One scope's error never costs the other scope its result: when a run ends,
\* every directory it selected either reported an error and holds what it held, in
\* place or moved aside, or holds the shipped adapter (install) or nothing
\* (uninstall).
EveryScopeAnswered ==
    run.pc = "done" =>
        \A d \in run.all :
            IF d \in run.errors THEN file[d] = run.seen[d] \/ MovedAside(d)
            ELSE file[d] = (IF run.op = "install" THEN "current" ELSE None)
=============================================================================

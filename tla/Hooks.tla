------------------------------- MODULE Hooks -------------------------------
(***************************************************************************)
(* phasegent hooks install, and the automatic install of a bootstrap: the  *)
(* two managed Git hooks, the foreign hooks they displace and chain to,    *)
(* and an installer that may be killed between any two file operations.    *)
(***************************************************************************)
EXTENDS Naturals, Sequences

CONSTANTS
    Procs,        \* installer processes
    HookOrder,    \* <<"prepare-commit-msg", "commit-msg">>
    Foreign,      \* contents of hooks that are not ours
    MaxInstalls,  \* bound on installs started
    MaxEdits,     \* bound on the user's own changes
    None

VARIABLES
    file,      \* hook -> what .git/hooks/<name> is
    backup,    \* hook -> what phasegent-original/<name> is
    unsafe,    \* hooks whose preserved original is not a regular executable
    placed,    \* foreign hooks the user has put there and not taken away
    proc,      \* installer -> its progress
    installs,
    edits

vars == <<file, backup, unsafe, placed, proc, installs, edits>>

HookNames == {HookOrder[i] : i \in 1..Len(HookOrder)}

\* Our own scripts: without a chain, chained, and chained as older versions wrote it.
Wrappers == {"bare", "chained", "legacy"}

Idle == [pc |-> "idle", at |-> 1, saw |-> None]

Init ==
    /\ file \in [HookNames -> {None}] \cup [HookNames -> Foreign] \cup [HookNames -> {"irregular"}]
    /\ backup = [h \in HookNames |-> None]
    /\ unsafe = {}
    /\ placed = {<<h, file[h]>> : h \in {g \in HookNames : file[g] \in Foreign}}
    /\ proc = [p \in Procs |-> Idle]
    /\ installs = 0
    /\ edits = 0

-----------------------------------------------------------------------------
Hook(p) == HookOrder[proc[p].at]
BackupExists(h) == backup[h] # None

\* validate_original: a regular executable file stands at the backup path.
ValidBackup(h) == BackupExists(h) /\ h \notin unsafe

\* declares_original: the script names the preserved original it chains to.
Declares(content) == content \in {"chained", "legacy"}

\* The first pass: a wrapper that chains, or that would from now on.
ChainDeclared(h) == Declares(file[h]) \/ (file[h] = "bare" /\ BackupExists(h))

Goto(p, pc) == proc' = [proc EXCEPT ![p].pc = pc]
Finish(p, pc) == proc' = [proc EXCEPT ![p] = [Idle EXCEPT !.pc = pc]]

\* auto_install_hooks installs only in a checkout of the bootstrap's repository.
Start(p, matches) ==
    /\ proc[p].pc \in {"idle", "ok", "refused", "skipped"}
    /\ installs < MaxInstalls /\ installs' = installs + 1
    /\ Finish(p, IF matches THEN "validate" ELSE "skipped")
    /\ UNCHANGED <<file, backup, unsafe, placed, edits>>

\* install_in: every declared chain is validated before either wrapper is touched.
Validate(p) ==
    /\ proc[p].pc = "validate"
    /\ IF \A h \in HookNames : ChainDeclared(h) => ValidBackup(h)
       THEN Goto(p, "look") ELSE Finish(p, "refused")
    /\ UNCHANGED <<file, backup, unsafe, placed, installs, edits>>

Advance(p) ==
    IF proc[p].at = Len(HookOrder) THEN Finish(p, "ok")
    ELSE proc' = [proc EXCEPT ![p] = [Idle EXCEPT !.pc = "look", !.at = proc[p].at + 1]]

\* install_hook: what stands at the path decides.  A symlink, a directory, or a
\* foreign hook that is not executable is left alone.
Look(p) ==
    LET h == Hook(p) IN
    /\ proc[p].pc = "look"
    /\ IF file[h] = "irregular" THEN Finish(p, "refused")
       ELSE IF file[h] \in Foreign
            THEN proc' = [proc EXCEPT ![p].pc = "displace", ![p].saw = file[h]]
       ELSE IF (Declares(file[h]) \/ BackupExists(h)) /\ ~ValidBackup(h) THEN Finish(p, "refused")
       ELSE proc' = [proc EXCEPT ![p].pc = "write", ![p].saw = file[h]]
    /\ UNCHANGED <<file, backup, unsafe, placed, installs, edits>>

\* The check forgotten: an earlier original is overwritten by the rename.
DisplaceOver(p) ==
    /\ proc[p].pc = "displace"
    /\ Goto(p, "rename")
    /\ UNCHANGED <<file, backup, unsafe, placed, installs, edits>>

\* displace_foreign_hook: refused while an original is already preserved.
Displace(p) ==
    /\ proc[p].pc = "displace"
    /\ IF BackupExists(Hook(p)) THEN Finish(p, "refused") ELSE Goto(p, "rename")
    /\ UNCHANGED <<file, backup, unsafe, placed, installs, edits>>

\* fs::rename moves whatever is at the path by now, over whatever is at the backup.
Rename(p) ==
    LET h == Hook(p) IN
    /\ proc[p].pc = "rename"
    /\ IF file[h] = None THEN Finish(p, "refused") /\ UNCHANGED <<file, backup, unsafe>>
       ELSE /\ backup' = [backup EXCEPT ![h] = file[h]]
            /\ file' = [file EXCEPT ![h] = None]
            /\ unsafe' = unsafe \ {h}
            /\ Goto(p, "write")
    /\ UNCHANGED <<placed, installs, edits>>

\* A wrapper that chains only when a foreign hook was just moved.
DesiredFresh(h, saw) == IF saw \in Foreign THEN "chained" ELSE "bare"

\* The wrapper to write: chained when an original was moved, declared or is there.
Desired(h, saw) ==
    IF saw \in Foreign \/ Declares(saw) \/ BackupExists(h) THEN "chained" ELSE "bare"

\* write_script: a temporary file renamed over the path.
Write(p) ==
    LET h == Hook(p) IN
    /\ proc[p].pc = "write"
    /\ file' = [file EXCEPT ![h] = Desired(h, proc[p].saw)]
    /\ Advance(p)
    /\ UNCHANGED <<backup, unsafe, placed, installs, edits>>

\* The installer is killed.
Crash(p) ==
    /\ proc[p].pc \in {"validate", "look", "displace", "rename", "write"}
    /\ Finish(p, "idle")
    /\ UNCHANGED <<file, backup, unsafe, placed, installs, edits>>

-----------------------------------------------------------------------------
(* The user, while no installer runs. *)

Quiet == \A p \in Procs : proc[p].pc \in {"idle", "ok", "refused", "skipped"}
Forget == proc' = [p \in Procs |-> Idle]

\* Another tool or the user writes the hook file, or removes it.
UserWrites(h, content) ==
    /\ Quiet /\ edits < MaxEdits /\ edits' = edits + 1
    /\ file' = [file EXCEPT ![h] = content]
    /\ placed' = (placed \ {<<h, file[h]>>})
                   \cup (IF content \in Foreign THEN {<<h, content>>} ELSE {})
    /\ Forget
    /\ UNCHANGED <<backup, unsafe, installs>>

\* The preserved original is removed, or loses its executable bit.
UserBreaks(h, gone) ==
    /\ Quiet /\ edits < MaxEdits /\ edits' = edits + 1 /\ BackupExists(h)
    /\ IF gone THEN /\ backup' = [backup EXCEPT ![h] = None]
                    /\ placed' = placed \ {<<h, backup[h]>>}
                    /\ unsafe' = unsafe \ {h}
               ELSE unsafe' = unsafe \cup {h} /\ UNCHANGED <<backup, placed>>
    /\ Forget
    /\ UNCHANGED <<file, installs>>

Next ==
    \/ \E p \in Procs :
          \/ \E m \in BOOLEAN : Start(p, m)
          \/ Validate(p) \/ Look(p) \/ Displace(p) \/ Rename(p) \/ Write(p) \/ Crash(p)
    \/ \E h \in HookNames :
          \/ \E c \in Foreign \cup {None, "legacy"} : UserWrites(h, c)
          \/ \E g \in BOOLEAN : UserBreaks(h, g)

Spec == Init /\ [][Next]_vars

-----------------------------------------------------------------------------
(* Properties. *)

\* A foreign hook is never clobbered: whatever was installed, refused or killed, it
\* is either still the hook or preserved beside it until the user removes it.
ForeignKept ==
    \A x \in placed : file[x[1]] = x[2] \/ backup[x[1]] = x[2]

\* When an install succeeds, each hook is a wrapper, and it runs the preserved
\* original exactly when there is one, however often earlier installs were cut short.
InstalledChains ==
    \A p \in Procs : proc[p].pc = "ok" /\ Quiet =>
        \A h \in HookNames :
            /\ file[h] = (IF BackupExists(h) THEN "chained" ELSE "bare")
            /\ BackupExists(h) => ValidBackup(h)

\* An install that meets a broken chain touches neither hook.
BrokenChainUntouched ==
    [][\A p \in Procs : proc[p].pc = "write" \/ proc[p].pc = "rename" =>
          (\A h \in HookNames : Declares(file[h]) => ValidBackup(h)) \/ file' = file]_vars
=============================================================================

------------------------------ MODULE Settings ------------------------------
(* The SQLite store of settings and credentials (infra/storage), the        *)
(* commands that write it (auth.rs, config_write), the TOML overlay and the *)
(* resolution of the Redmine address.  Every save_* is one transaction; a   *)
(* command is a sequence of them and may be cut short between two.          *)
EXTENDS Naturals, Sequences, FiniteSets

CONSTANTS
    Procs, Roles,
    Commands,       \* what the commands may be
    Tomls,          \* what phasegent.toml may say, Malformed among them
    Legacies,       \* addresses an old store may hold: functions of Roles
    Columns,        \* MIGRATIONS
    Attempts,       \* tries of BEGIN IMMEDIATE
    MaxRuns, MaxEdits,      \* bounds
    None, Malformed

VARIABLES
    schema,     \* the columns there are, and whether old project ids are left
    lock,       \* the write lock of the database
    provider,   \* role_config.provider, and the kind of command that wrote it
    close,      \* role_redmine_config.close_status_id
    legacy,     \* role_redmine_config.api_base: read, never written
    forgejo,    \* role_forgejo_config
    cred,       \* role_credential: [role, provider] to key and fingerprint
    base,       \* the global row PHASEGENT_REDMINE_API_BASE
    default,    \* the global row PHASEGENT_DEFAULT_PROVIDER
    toml,       \* phasegent.toml
    proc, runs, edits,
    answers     \* history: the addresses resolved, by the edits they saw

store == <<schema, provider, close, forgejo, cred, base, default>>
vars == <<store, lock, legacy, toml, proc, runs, edits, answers>>
-----------------------------------------------------------------------------
(* Addresses.  "A/" and "A" are one server; "bad" is no URL to accept.       *)

Valid(address) == address # "bad"
Normalize(address) == IF address = "A/" THEN "A" ELSE address

\* load_redmine_config: the role's TOML address before the stored one.
RoleBase(role) == IF toml.roles[role] # None THEN toml.roles[role] ELSE legacy[role]

\* legacy_redmine_api_base without the write: one address or none, else no answer.
Given == {RoleBase(r) : r \in Roles} \ {None}
LegacyAddress ==
    LET distinct == {Normalize(a) : a \in Given}
    IN  IF toml = Malformed THEN "error"
        ELSE IF \E a \in Given : ~Valid(a) THEN "error"
        ELSE IF distinct = {} THEN None
        ELSE IF Cardinality(distinct) = 1 THEN CHOOSE a \in distinct : TRUE
        ELSE "error"
-----------------------------------------------------------------------------
(* Writes: one transaction each.                                            *)

Flag(role, kind) == [do |-> "flag", role |-> role, kind |-> kind]
Key(role) == [do |-> "key", role |-> role]
Pair(role, address) == [do |-> "pair", role |-> role, address |-> address]
Default(kind) == [do |-> "default", kind |-> kind]
Address(address) == [do |-> "address", address |-> address]
Close(role, id) == [do |-> "close", role |-> role, id |-> id]
Refuse == [do |-> "refuse"]

Checked(ok, write) == IF ok THEN write ELSE Refuse

\* The provider is switched before the key is there.
SetupRedmineFlagFirst(c) ==
    <<Flag(c.role, "redmine"), Key(c.role)>>

\* setup_provider for Redmine: key, address, close status, provider; each check
\* stands just before its own write.
SetupRedmine(c) ==
    <<Key(c.role)>>
      \o (IF c.address = None THEN <<>>
          ELSE <<Checked(Valid(c.address), Address(c.address))>>)
      \o (IF c.close = None THEN <<>>
          ELSE <<Checked(c.close # "word", Close(c.role, c.close))>>)
      \o <<Flag(c.role, "redmine")>>

SetupForgejo(c) == <<Checked(Valid(c.address), Pair(c.role, c.address))>>

SetupProvider(c) ==
    CASE c.kind = "local" -> <<Flag(c.role, "local")>>
      [] c.kind = "forgejo" -> SetupForgejo(c)
      [] c.kind = "redmine" -> SetupRedmine(c)

\* persist_set_value
ConfigSet(c) ==
    CASE c.setting = "provider" -> <<Flag(c.role, c.value)>>
      [] c.setting = "default" -> <<Default(c.value)>>
      [] c.setting = "api-base" -> <<Checked(Valid(c.value), Address(c.value))>>
      [] c.setting = "close-status" -> <<Checked(c.value \notin {"0", "word"},
                                                 Close(c.role, c.value))>>

\* persist_clear_value
ConfigClear(c) ==
    CASE c.setting = "provider" -> <<Flag(c.role, None)>>
      [] c.setting = "default" -> <<Default(None)>>
      [] c.setting = "api-base" -> <<Address(None)>>
      [] c.setting = "close-status" -> <<Close(c.role, None)>>

\* persist_redmine_bootstrap
PersistBootstrap(c) == <<Close(c.role, c.close), Flag(c.role, "redmine")>>

Program(c) ==
    CASE c.op = "setup" -> SetupProvider(c)
      [] c.op = "set" -> ConfigSet(c)
      [] c.op = "clear" -> ConfigClear(c)
      [] c.op = "bootstrap" -> PersistBootstrap(c)
      [] OTHER -> <<>>

\* save_credential keeps key and fingerprint in one row.
SaveCredential(role, kind, by) ==
    cred' = [cred EXCEPT ![role][kind] = [by |-> by, print |-> by]]
UpdateProvider(role, kind, by) ==
    provider' = [provider EXCEPT ![role] = [kind |-> kind, by |-> by]]
SaveForgejo(role, address, by) ==
    forgejo' = [forgejo EXCEPT ![role] = [address |-> address, by |-> by]]

Write(w, op, by) ==
    CASE w.do = "flag" -> UpdateProvider(w.role, w.kind, op)
                           /\ UNCHANGED <<close, forgejo, cred, base, default>>
      [] w.do = "key" -> SaveCredential(w.role, "redmine", by)
                           /\ UNCHANGED <<provider, close, forgejo, base, default>>
      [] w.do = "pair" -> SaveForgejo(w.role, w.address, by)
                           /\ SaveCredential(w.role, "forgejo", by)
                           /\ UNCHANGED <<provider, close, base, default>>
      [] w.do = "address" -> base' = w.address
                           /\ UNCHANGED <<provider, close, forgejo, cred, default>>
      [] w.do = "default" -> default' = w.kind
                           /\ UNCHANGED <<provider, close, forgejo, cred, base>>
      [] w.do = "close" -> close' = [close EXCEPT ![w.role] = w.id]
                           /\ UNCHANGED <<provider, forgejo, cred, base, default>>
-----------------------------------------------------------------------------
(* Processes.                                                               *)

Idle == [pc |-> "idle"]

Init ==
    /\ schema \in [cols : SUBSET Columns, ids : BOOLEAN]
    /\ lock = None
    /\ provider = [r \in Roles |-> [kind |-> None, by |-> None]]
    /\ close = [r \in Roles |-> None]
    /\ legacy \in Legacies
    /\ forgejo = [r \in Roles |-> None]
    /\ cred = [r \in Roles |-> [k \in {"redmine", "forgejo"} |->
                  IF k = "redmine" /\ legacy[r] # None THEN [by |-> 0, print |-> None] ELSE None]]
    /\ base = None /\ default = None
    /\ toml \in Tomls
    /\ proc = [p \in Procs |-> Idle]
    /\ runs = 0 /\ edits = 0 /\ answers = {}

To(p, pc) == proc' = [proc EXCEPT ![p].pc = pc]
End(p) == proc' = [proc EXCEPT ![p] = Idle]
Fail(p) == End(p)

\* Storage::open is where every command begins, the ones on issues excepted:
\* their admission reads the store as it is.
Start(p) ==
    /\ proc[p].pc = "idle" /\ runs < MaxRuns
    /\ runs' = runs + 1
    /\ \E c \in Commands :
         proc' = [proc EXCEPT ![p] =
            [pc |-> IF c.op \in {"admit", "resolve"} THEN "kind" ELSE "begin", id |-> runs + 1,
             cmd |-> c, left |-> Program(c), tries |-> 0, seen |-> edits, found |-> None]]
    /\ UNCHANGED <<store, lock, legacy, toml, edits, answers>>

\* with_immediate_transaction: busy is tried again, then an error.
BeginImmediate(p) ==
    /\ proc[p].pc = "begin"
    /\ IF lock = None
       THEN /\ lock' = p
            /\ To(p, "migrate")
           
       ELSE /\ IF proc[p].tries + 1 < Attempts
               THEN proc' = [proc EXCEPT ![p].tries = @ + 1]
               ELSE Fail(p)
            /\ UNCHANGED lock
    /\ UNCHANGED <<store, legacy, toml, runs, edits, answers>>

\* resolve_kind: the flag, TOML, the default row, the role's own provider, Redmine.
ResolveKind(c) ==
    LET of == IF toml # Malformed /\ toml.provider # None THEN toml.provider
              ELSE provider[c.role].kind
    IN  IF c.flag # None THEN c.flag
        ELSE IF toml = Malformed THEN "error"
        ELSE IF toml.default # None THEN toml.default
        ELSE IF default # None THEN default
        ELSE IF of # None THEN of ELSE "redmine"

\* Only Redmine has an address to resolve; a command that writes opens the store
\* first.
ReadKind(p) ==
    /\ proc[p].pc = "kind"
    /\ LET kind == ResolveKind(proc[p].cmd) IN
         IF kind # "redmine" THEN End(p)
         ELSE To(p, IF proc[p].cmd.op = "admit" THEN "sources" ELSE "begin")
    /\ UNCHANGED <<store, lock, legacy, toml, runs, edits, answers>>

AfterOpen(p) ==
    CASE proc[p].cmd.op = "resolve" -> "sources"
      [] proc[p].cmd.op = "show" -> "show"
      [] OTHER -> "write"

\* The columns that are missing and the ids that are left go in one commit; a
\* failure rolls all of it back and the open fails.
Commit(p, durable) ==
    IF durable
    THEN schema' = [cols |-> Columns, ids |-> FALSE] /\ To(p, AfterOpen(p))
    ELSE UNCHANGED schema /\ Fail(p)

ApplyMigrations(p) ==
    /\ proc[p].pc = "migrate"
    /\ \E durable \in BOOLEAN : Commit(p, durable)
    /\ lock' = None
    /\ UNCHANGED <<provider, close, forgejo, cred, base, default, legacy, toml, runs, edits, answers>>

\* One transaction of the command; behind a lock it waits, or gives up.
Persist(p) ==
    /\ proc[p].pc = "write"
    /\ IF proc[p].left = <<>> THEN End(p) /\ UNCHANGED <<store, edits>>
       ELSE LET w == Head(proc[p].left) IN
         IF w.do = "refuse" THEN Fail(p) /\ UNCHANGED <<store, edits>>
         ELSE /\ lock = None
              /\ Write(w, proc[p].cmd.op, proc[p].id)
              /\ proc' = [proc EXCEPT ![p].left = Tail(@)]
              /\ edits' = IF w.do = "address" THEN edits + 1 ELSE edits
              /\ UNCHANGED schema
    /\ UNCHANGED <<lock, legacy, toml, runs, answers>>

BusyTimeout(p) ==
    /\ proc[p].pc = "write" /\ lock \notin {None, p}
    /\ Fail(p)
    /\ UNCHANGED <<store, lock, legacy, toml, runs, edits, answers>>

\* A command is killed: what it had not committed is gone.
Crash(p) ==
    /\ proc[p].pc # "idle"
    /\ End(p)
    /\ lock' = IF lock = p THEN None ELSE lock
    /\ UNCHANGED <<store, legacy, toml, runs, edits, answers>>

\* credential_summary: a fingerprint that is missing is filled in with the one
\* of the key that was read.
ReadSummary(p) ==
    /\ proc[p].pc = "show"
    /\ LET row == cred[proc[p].cmd.role]["redmine"] IN
         IF row = None \/ row.print # None THEN End(p)
         ELSE proc' = [proc EXCEPT ![p].pc = "backfill", ![p].found = row.by]
    /\ UNCHANGED <<store, lock, legacy, toml, runs, edits, answers>>

Backfill(p) ==
    /\ proc[p].pc = "backfill" /\ lock = None
    /\ cred' = [cred EXCEPT ![proc[p].cmd.role]["redmine"].print = proc[p].found]
    /\ End(p)
    /\ UNCHANGED <<schema, provider, close, forgejo, base, default, lock, legacy, toml, runs, edits,
                   answers>>

\* An answer is kept when nothing was edited while it was looked for.
Answer(p, value) ==
    /\ End(p)
    /\ answers' = IF proc[p].seen = edits THEN answers \cup {[edits |-> edits, value |-> value]}
                  ELSE answers

\* redmine_api_base_with_legacy: the environment, TOML, then the global row, then the roles'
\* addresses.  An overlay that cannot be read ends it.
ReadSources(p) ==
    /\ proc[p].pc = "sources"
    /\ IF proc[p].cmd.env # None THEN End(p) /\ UNCHANGED answers
       ELSE IF toml = Malformed THEN Answer(p, "error")
       ELSE IF toml.top # None THEN Answer(p, toml.top)
       ELSE IF base # None THEN Answer(p, base)
       ELSE To(p, "legacy") /\ UNCHANGED answers
    /\ UNCHANGED <<store, lock, legacy, toml, runs, edits>>

Migrated(found) == found

ReadLegacy(p) ==
    /\ proc[p].pc = "legacy"
    /\ LET found == LegacyAddress IN
         IF found \in {None, "error"} \/ proc[p].cmd.op = "admit" THEN Answer(p, found)
         ELSE proc' = [proc EXCEPT ![p].pc = "migrateBase", ![p].found = found]
                /\ UNCHANGED answers
    /\ UNCHANGED <<store, lock, legacy, toml, runs, edits>>

\* The upsert does not look whether the row is still missing: after an edit it is
\* an edit of its own.
SaveLegacy(p) ==
    /\ proc[p].pc = "migrateBase" /\ lock = None
    /\ base' = Migrated(proc[p].found)
    /\ Answer(p, proc[p].found)
    /\ edits' = IF proc[p].seen = edits THEN edits ELSE edits + 1
    /\ UNCHANGED <<schema, provider, close, forgejo, cred, default, lock, legacy, toml, runs>>

\* phasegent.toml is edited.
EditToml ==
    /\ edits < MaxEdits
    /\ \E t \in Tomls \ {toml} : toml' = t
    /\ edits' = edits + 1
    /\ UNCHANGED <<store, lock, legacy, proc, runs, answers>>

Next ==
    \/ EditToml
    \/ \E p \in Procs :
         \/ Start(p) \/ ReadKind(p) \/ BeginImmediate(p) \/ ApplyMigrations(p)
         \/ Persist(p) \/ BusyTimeout(p) \/ Crash(p)
         \/ ReadSummary(p) \/ Backfill(p)
         \/ ReadSources(p) \/ ReadLegacy(p) \/ SaveLegacy(p)

Spec == Init /\ [][Next]_vars
-----------------------------------------------------------------------------
(* Properties.                                                              *)

\* A command that got past its open works on a store with every column and no
\* old project id, whoever migrated it and however many tried at once: "callers
\* never observe a successful open when the schema is not durable"
\* (connection.rs).
OpenMeansMigrated ==
    \A p \in Procs : proc[p].pc \in {"write", "show", "backfill"} =>
        schema = [cols |-> Columns, ids |-> FALSE]

\* A role that a setup switched to Redmine has a key to use there: no setup that is
\* refused or killed half way, and no other process between its writes, leaves a role
\* switched to a tracker it has no key for.
SelectedIsUsable ==
    \A r \in Roles :
        provider[r].kind = "redmine" /\ provider[r].by = "setup" => cred[r]["redmine"] # None

\* Migration of the legacy address does not change the answer: as long as nobody
\* edits a setting, admission (which only reads) and the command itself (which
\* migrates) resolve the same Redmine address.
ResolversAgree ==
    \A a, b \in answers : a.edits = b.edits => a.value = b.value

=============================================================================

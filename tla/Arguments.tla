------------------------------ MODULE Arguments ------------------------------
(***************************************************************************)
(* The argument lists of the subcommands (src/command/*.rs).  A parser      *)
(* reads a list twice: validate_options scans it from the left and decides  *)
(* which token is an option, a value or an operand; optional_option and     *)
(* positional_number then look the values up by name and the operands by    *)
(* their place.  The module holds the scan, the look-ups and the grammar of *)
(* every subcommand, and asks whether the two readings agree.               *)
(*                                                                         *)
(* A token is a word, a bare option (--o) or an inline one (--o=value).     *)
(* Of a value only its class is kept: "" is blank, "0" is zero, "7" a       *)
(* positive number, and "x" other text, which is a member of whatever list  *)
(* the option is checked against.                                           *)
(***************************************************************************)
EXTENDS Naturals, Sequences, FiniteSets

CONSTANTS Paths,        \* the subcommands a run explores
          Values,       \* the value classes its tokens carry
          MaxTokens,    \* bound: tokens typed from nothing
          MaxExtra,     \* bound: tokens typed after a complete list
          MaxOptions,   \* bound: different options among the typed tokens
          None

VARIABLES path,         \* the subcommand
          pool,         \* the options this list draws from
          args,         \* the tokens after the subcommand's name
          room          \* tokens still to be typed

vars == <<path, pool, args, room>>

Foreign == "--foreign"  \* stands for every option the subcommand does not have

(***************************************************************************)
(* Tokens                                                                  *)
(***************************************************************************)
Word(v) == [kind |-> "word", option |-> None, value |-> v]
Bare(o) == [kind |-> "bare", option |-> o, value |-> None]
Inline(o, v) == [kind |-> "inline", option |-> o, value |-> v]

StartsWithDash(token) == token.kind # "word"

(***************************************************************************)
(* The grammar of a subcommand.  operands: the numbers of operands that     *)
(* pass; operand: what each must be; values and flags: the options it       *)
(* knows; loose: options that may stand without a value; once: options that *)
(* may not repeat; text, positive, number, listed: what a value that is     *)
(* present must be; required: options that must be there; oneOf: sets of    *)
(* which one must be there; apart: pairs that exclude each other; needs:    *)
(* pairs of which the first needs the second; refused: options known only   *)
(* to be turned down.                                                       *)
(***************************************************************************)
Command(operands, operand, values, flags) ==
    [operands |-> operands, operand |-> operand, values |-> values, flags |-> flags,
     loose |-> {}, once |-> {}, text |-> {}, positive |-> {}, number |-> {}, listed |-> {},
     required |-> {}, oneOf |-> {}, apart |-> {}, needs |-> {}, refused |-> {}]

PageOptions == {"--page", "--limit"}

\* page_request: neither may repeat, both are positive.
Paged(g) == [g EXCEPT !.values = @ \cup PageOptions, !.once = @ \cup PageOptions,
                      !.positive = @ \cup PageOptions]

\* parse_body_flags.
Bodied(g, required) ==
    [g EXCEPT !.values = @ \cup {"--body", "--body-file"}, !.flags = @ \cup {"--keep-body-file"},
              !.apart = @ \cup {{"--body", "--body-file"}},
              !.needs = @ \cup {<<"--keep-body-file", "--body-file">>},
              !.oneOf = IF required THEN @ \cup {{"--body", "--body-file"}} ELSE @]

\* planning_options: kept raw, read by the command itself.
PlanningOptions == {"--parent-issue", "--fixed-version", "--start-date", "--due-date",
                    "--estimated-hours", "--done-ratio"}

\* parse_branch_options: --branch may stand alone, comes once, and --base needs it.
WithBranch(g) == [g EXCEPT !.values = @ \cup {"--base"}, !.text = @ \cup {"--base"},
                           !.loose = @ \cup {"--branch"}, !.once = @ \cup {"--branch"},
                           !.needs = @ \cup {<<"--base", "--branch">>}]

WithAssignee(g) == [g EXCEPT !.values = @ \cup {"--assignee"}, !.flags = @ \cup {"--no-assign"},
                             !.text = @ \cup {"--assignee"},
                             !.apart = @ \cup {{"--assignee", "--no-assign"}}]

\* A session id that is there is not blank.
WithSession(g) == [g EXCEPT !.values = @ \cup {"--session"}, !.text = @ \cup {"--session"}]

IssueCreate ==
    WithSession(WithAssignee(WithBranch(Bodied(
        [Command({0}, "none", PlanningOptions \cup {"--title", "--tracker"}, {})
         EXCEPT !.required = {"--title"}], FALSE))))

IssueUpdate == Bodied(Command({1}, "number", PlanningOptions \cup {"--tracker"}, {}), TRUE)

IssueClose == [Command({1}, "number", {"--worktree-session"}, {})
               EXCEPT !.text = {"--worktree-session"}]

IssueUpload == [Command({1}, "positive", {"--path", "--description"}, {})
                EXCEPT !.required = {"--path"}, !.text = {"--path"}]

IssueBranches == Paged(Command({1}, "positive", {}, {}))

IssueSync == Command({0}, "none", {}, {"--all", "--no-clean"})

IssueSearch == [Command({0}, "none", {"--query", "-q", "--state"} \cup PageOptions,
                        {"--all", "--include-body"})
                EXCEPT !.listed = {"--state"}, !.positive = PageOptions]

\* Lists of numbers: `issue get` takes at least one, `issue bind` likewise and
\* `issue unbind` none or more.  MAX_BATCH_GET and MAX_BATCH_BIND_IDS lie above
\* the lists explored here.
IssueGet == Command(1..20, "positive", {}, {})
IssueBind == Command(1..20, "positive", {}, {})
IssueUnbind == Command(0..20, "positive", {}, {})

Exactly(n, operand) == Command({n}, operand, {}, {})

CommentCreate == Bodied([Command({1}, "number", {"--marker"}, {"--authorized"})
                         EXCEPT !.required = {"--marker"}, !.text = {"--marker"}], TRUE)
CommentFind == [Command({1}, "number", {"--marker"}, {})
                EXCEPT !.required = {"--marker"}, !.text = {"--marker"}]

RecordCreate ==
    Bodied([Command({1}, "number", {"--kind", "--key", "--phase", "--attempt", "--review",
                                    "--recon"}, {"--authorized"})
            EXCEPT !.required = {"--kind", "--key"}, !.listed = {"--kind"},
                   !.text = {"--key", "--phase", "--review", "--recon"},
                   !.positive = {"--attempt"}], TRUE)
RecordList == Paged([Command({1}, "number", {"--kind", "--phase", "--recon"}, {})
                     EXCEPT !.listed = {"--kind"}, !.text = {"--phase", "--recon"}])

ProjectCreate == [Command({0}, "none", {"--name", "--identifier", "--description"}, {"--confirm"})
                  EXCEPT !.required = {"--name", "--identifier", "--confirm"},
                         !.text = {"--name", "--identifier"}]

StatusSet == [Command({1}, "number", {"--status"}, {})
              EXCEPT !.required = {"--status"}, !.text = {"--status"}]
StatusTransition == [Command({1}, "number", {"--to", "--status", "--note"}, {})
                     EXCEPT !.refused = {"--note"}, !.apart = {{"--to", "--status"}},
                            !.text = {"--to", "--status"}]

RelationCreate == [Command({1}, "number", {"--to", "--type", "--delay"}, {})
                   EXCEPT !.required = {"--to", "--type"}, !.listed = {"--type"},
                          !.number = {"--to", "--delay"}]

TimerStart ==
    [Command({1}, "positive", {"--phase", "--agent-role", "--attempt", "--run-id",
                               "--owner-session-id", "--owner-call-id"}, {})
     EXCEPT !.required = {"--phase", "--agent-role", "--attempt"}, !.listed = {"--agent-role"},
            !.positive = {"--attempt"},
            !.text = {"--phase", "--run-id", "--owner-session-id", "--owner-call-id"}]
TimerFinish == [Command({1}, "text", {"--result"}, {})
                EXCEPT !.required = {"--result"}, !.listed = {"--result"}]
TimerList == Paged([Command({0}, "none", {"--status"}, {}) EXCEPT !.listed = {"--status"}])

WorktreeAcquire ==
    [Command({0}, "none", {"--issue", "--session", "--base", "--format"},
             {"--isolate", "--reuse", "--no-sync"})
     EXCEPT !.required = {"--issue"}, !.positive = {"--issue"}, !.text = {"--session", "--base"},
            !.listed = {"--format"}, !.apart = {{"--isolate", "--reuse"}}]

\* A blank --reason counts as none: without --force it passes, with it the
\* override is refused.
WorktreeRelease ==
    [Command({0}, "none", {"--lease", "--retain", "--reason"}, {"--force"})
     EXCEPT !.required = {"--lease"}, !.text = {"--lease"}, !.listed = {"--retain"}]
WorktreeStatus == Paged([Command({0}, "none", {"--issue"}, {})
                         EXCEPT !.required = {"--issue"}, !.positive = {"--issue"}])
WorktreeList == Paged(Command({0}, "none", {"--repo"}, {"--no-sync"}))
WorktreeProbe == [Command({0}, "none", {"--path", "--issue", "--session"}, {})
                  EXCEPT !.text = {"--path", "--session"}, !.positive = {"--issue"},
                         !.apart = {{"--path", "--issue"}}, !.needs = {<<"--session", "--issue">>}]
WorktreePrune ==
    [Command({0}, "none", {"--repo", "--stale-days", "--reason", "--format"},
             {"--release-stale", "--remove", "--no-sync", "--dryrun", "--dry-run", "--json"})
     EXCEPT !.number = {"--stale-days"}, !.listed = {"--format"}]
WorktreeHeartbeat == [Command({0}, "none", {"--lease", "--session"}, {})
                      EXCEPT !.required = {"--lease"}, !.text = {"--lease", "--session"}]

PluginInstall == [Command({0}, "none", {"--path"}, {"--global", "--project", "--force"})
                  EXCEPT !.text = {"--path"},
                         !.apart = {{"--path", "--global"}, {"--path", "--project"}}]
PluginUninstall == [Command({0}, "none", {"--path"}, {"--global", "--project"})
                    EXCEPT !.text = {"--path"},
                           !.apart = {{"--path", "--global"}, {"--path", "--project"}}]
PluginStatus == [Command({0}, "none", {"--path"}, {}) EXCEPT !.text = {"--path"}]

\* --stdin stands alone; without it an event and a title are needed.
NotifySend == [Command({0}, "none", {"--event", "--title", "--body", "--issue", "--phase"},
                       {"--stdin"})
               EXCEPT !.once = {"--stdin"}, !.listed = {"--event"}, !.text = {"--title"},
                      !.positive = {"--issue"},
                      !.oneOf = {{"--stdin", "--event"}, {"--stdin", "--title"}},
                      !.apart = {{"--stdin", o} : o \in {"--event", "--title", "--body",
                                                         "--issue", "--phase"}}]

WorkflowBootstrap ==
    [Command({0}, "none", {"--repository", "--close-status-id", "--close-status-name"},
             {"--all-projects", "--dry-run"})
     EXCEPT !.once = {"--all-projects", "--dry-run"},
            !.needs = {<<"--dry-run", "--all-projects">>},
            !.apart = {{"--all-projects", o} : o \in {"--repository", "--close-status-id",
                                                      "--close-status-name"}}
                      \cup {{"--close-status-id", "--close-status-name"}}]

AuthSetup == [Command({0}, "none", {"--provider", "--api-base", "--repository",
                                    "--close-status-id"}, {"--stdin"})
              EXCEPT !.listed = {"--provider"}]

\* A setting's name, then a value or --stdin; the name is a member of the list
\* of settings.
ConfigSet == [Command({1, 2}, "config", {}, {"--stdin"}) EXCEPT !.once = {"--stdin"}]
ConfigClear == Exactly(1, "listed")
ConfigProviderSet == Exactly(1, "listed")
ConfigShow == Exactly(0, "none")
HooksInstall == Exactly(0, "none")

HooksRun == Command(2..4, "hook", {}, {})

Grammar(p) ==
    CASE p = "issue create" -> IssueCreate
      [] p = "issue update" -> IssueUpdate
      [] p = "issue close" -> IssueClose
      [] p = "issue upload-attachment" -> IssueUpload
      [] p = "issue branches" -> IssueBranches
      [] p = "issue sync" -> IssueSync
      [] p = "issue search" -> IssueSearch
      [] p = "issue get" -> IssueGet
      [] p = "issue bind" -> IssueBind
      [] p = "issue unbind" -> IssueUnbind
      [] p \in {"issue status", "status list", "doctor"} -> Exactly(0, "none")
      [] p \in {"config show", "config provider get", "admin config provider clear"} -> ConfigShow
      [] p = "hooks install" -> HooksInstall
      [] p = "status next" -> Exactly(1, "number")
      [] p \in {"comment get", "record get"} -> Exactly(2, "number")
      [] p = "relation delete" -> Exactly(1, "number")
      [] p \in {"comment list", "relation list"} -> Paged(Exactly(1, "number"))
      [] p \in {"project list", "version list"} -> Paged(Exactly(0, "none"))
      [] p = "comment create" -> CommentCreate
      [] p = "comment find-marker" -> CommentFind
      [] p = "record create" -> RecordCreate
      [] p = "record list" -> RecordList
      [] p = "project create" -> ProjectCreate
      [] p \in {"status set", "status advance"} -> StatusSet
      [] p = "status transition" -> StatusTransition
      [] p = "relation create" -> RelationCreate
      [] p = "timer start" -> TimerStart
      [] p = "timer finish" -> TimerFinish
      [] p \in {"timer get", "timer recover"} -> Exactly(1, "text")
      [] p = "timer list" -> TimerList
      [] p = "worktree acquire" -> WorktreeAcquire
      [] p = "worktree release" -> WorktreeRelease
      [] p = "worktree status" -> WorktreeStatus
      [] p = "worktree list" -> WorktreeList
      [] p = "worktree probe" -> WorktreeProbe
      [] p = "worktree prune" -> WorktreePrune
      [] p = "worktree heartbeat" -> WorktreeHeartbeat
      [] p = "plugin install" -> PluginInstall
      [] p = "plugin uninstall" -> PluginUninstall
      [] p = "plugin status" -> PluginStatus
      [] p = "notify send" -> NotifySend
      [] p = "admin workflow bootstrap" -> WorkflowBootstrap
      [] p = "admin auth setup" -> AuthSetup
      [] p = "admin config set" -> ConfigSet
      [] p = "admin config clear" -> ConfigClear
      [] p = "admin config provider set" -> ConfigProviderSet
      [] p = "hooks run" -> HooksRun

Options(g) == g.values \cup g.flags \cup g.loose

(***************************************************************************)
(* The first reading: what each token is.  A bare value option takes the    *)
(* word after it; --branch takes one when there is one.                     *)
(***************************************************************************)
Roles(g, list) ==
    LET role[i \in 1..Len(list)] ==
            LET t == list[i]
            IN IF t.kind = "word"
               THEN IF i > 1 /\ role[i - 1] = "takes" THEN "value" ELSE "operand"
               ELSE IF t.kind = "bare" /\ t.option \in g.flags THEN "flag"
               ELSE IF t.kind = "inline" /\ t.option \in g.values \cup g.loose THEN "inline"
               ELSE IF t.kind = "bare" /\ t.option \in g.values \cup g.loose THEN "takes"
               ELSE "unknown"
    IN role

\* The scan passes every token of the list so far.
NoneUnknown(g, list) == \A i \in DOMAIN list : Roles(g, list)[i] # "unknown"

OperandCount(g, list) == Cardinality({i \in DOMAIN list : Roles(g, list)[i] = "operand"})

EveryTakerServed(g, list) ==
    \A i \in DOMAIN list : Roles(g, list)[i] = "takes" /\ list[i].option \notin g.loose
        => i < Len(list) /\ Roles(g, list)[i + 1] = "value"

\* Mutant: a bare option at the end, or before another option, passes.
ValidateLenient(g, list) == NoneUnknown(g, list) /\ OperandCount(g, list) \in g.operands

ValidateOptions(g, list) ==
    /\ NoneUnknown(g, list)
    /\ EveryTakerServed(g, list)
    /\ OperandCount(g, list) \in g.operands

(***************************************************************************)
(* The second reading: an option by its name, inline forms first, an        *)
(* operand by its place.                                                    *)
(***************************************************************************)
First(S) == CHOOSE i \in S : \A j \in S : i <= j

InlineAt(list, o) == {i \in DOMAIN list : list[i].kind = "inline" /\ list[i].option = o}
BareAt(list, o) == {i \in 1..(Len(list) - 1) : list[i].kind = "bare" /\ list[i].option = o}

OptionalOption(list, o) ==
    IF InlineAt(list, o) # {} THEN list[First(InlineAt(list, o))].value
    ELSE IF BareAt(list, o) # {} /\ ~StartsWithDash(list[First(BareAt(list, o)) + 1])
         THEN list[First(BareAt(list, o)) + 1].value
         ELSE None

Occurrences(list, o) ==
    {i \in DOMAIN list : list[i].kind \in {"bare", "inline"} /\ list[i].option = o}

HasFlag(list, f) == \E i \in DOMAIN list : list[i] = Bare(f)

Present(g, list, o) == IF o \in g.flags THEN HasFlag(list, o)
                       ELSE IF o \in g.loose THEN Occurrences(list, o) # {}
                       ELSE OptionalOption(list, o) # None

ValueFits(g, o, v) ==
    /\ o \in g.text => v # ""
    /\ o \in g.positive => v = "7"
    /\ o \in g.number => v \in {"0", "7"}
    /\ o \in g.listed => v = "x"

\* The operand a place holds: a number must be a word, a run id is whatever
\* token stands there, blank words apart.
OperandFits(operand, list, i) ==
    LET t == list[i]
    IN CASE operand = "number" -> t.kind = "word" /\ t.value \in {"0", "7"}
         [] operand = "positive" -> t = Word("7")
         [] operand = "listed" -> t = Word("x")
         [] operand = "text" -> t # Word("")
         [] operand = "config" -> i = 1 => t = Word("x")
         [] operand = "hook" -> i = 1 => t = Word("x")
         [] OTHER -> TRUE

OperandsFit(g, list) ==
    \A i \in 1..OperandCount(g, list) :
        (g.operand \in {"config", "hook"} => i = 1) => OperandFits(g.operand, list, i)

\* `worktree release`: a reason if and only if --force; `worktree prune`: a
\* reason only with --release-stale, which needs one unless nothing is written;
\* `config set`: a value or --stdin, not both; `issue get`: no number twice.
Particular(p, g, list) ==
    LET reason == OptionalOption(list, "--reason") \notin {None, ""}
    IN CASE p = "worktree release" -> reason <=> HasFlag(list, "--force")
         [] p = "worktree prune" ->
                /\ HasFlag(list, "--release-stale") =>
                       reason \/ HasFlag(list, "--dryrun") \/ HasFlag(list, "--dry-run")
                /\ reason => HasFlag(list, "--release-stale")
         [] p = "admin config set" -> (OperandCount(g, list) = 2) # HasFlag(list, "--stdin")
         [] p = "issue get" -> \A i, j \in DOMAIN list : i # j => list[i] # list[j]
         [] OTHER -> TRUE

OnceHolds(g, list) == \A o \in g.once : Cardinality(Occurrences(list, o)) <= 1

Accepts(p, g, list) ==
    /\ ValidateOptions(g, list)
    /\ OnceHolds(g, list)
    /\ OperandsFit(g, list)
    /\ \A o \in g.values : Present(g, list, o) => ValueFits(g, o, OptionalOption(list, o))
    /\ \A o \in g.required : Present(g, list, o)
    /\ \A S \in g.oneOf : \E o \in S : Present(g, list, o)
    /\ \A S \in g.apart : \E o \in S : ~Present(g, list, o)
    /\ \A pair \in g.needs : Present(g, list, pair[1]) => Present(g, list, pair[2])
    /\ \A o \in g.refused : ~Present(g, list, o)
    /\ Particular(p, g, list)

(***************************************************************************)
(* The caller types one token after another, from nothing or after a        *)
(* shortest complete list.  A list the scan has already turned down stays   *)
(* turned down, whatever follows, and is not continued.                     *)
(***************************************************************************)
Tokens(options) ==
    {Word(v) : v \in Values} \cup {Bare(o) : o \in options}
    \cup {Inline(o, v) : o \in options, v \in Values}

Fitting(g, o) == CHOOSE v \in {"7", "x"} : ValueFits(g, o, v)

\* A shortest list the subcommand accepts: its operands, then what it requires.
Complete(p) ==
    LET g == Grammar(p)
        must == g.required \cup {CHOOSE o \in S : o \in g.values : S \in g.oneOf}
        words == IF p = "admin config set" THEN 2 ELSE First(g.operands)
        operand == Word(IF g.operand \in {"number", "positive"} THEN "7" ELSE "x")
        order == CHOOSE f \in [1..Cardinality(must) -> must] : \A o \in must : \E i \in DOMAIN f : f[i] = o
    IN [i \in 1..words |-> operand]
       \o [i \in 1..Cardinality(must) |->
              IF order[i] \in g.flags THEN Bare(order[i])
              ELSE Inline(order[i], Fitting(g, order[i]))]

Init ==
    /\ path \in Paths
    /\ pool \in {S \in SUBSET (Options(Grammar(path)) \cup {Foreign}) : Cardinality(S) <= MaxOptions}
    /\ \/ args = <<>> /\ room = MaxTokens
       \/ args = Complete(path) /\ room = MaxExtra

Type ==
    /\ room > 0
    /\ NoneUnknown(Grammar(path), args)
    /\ \E t \in Tokens(pool) : args' = Append(args, t)
    /\ room' = room - 1
    /\ UNCHANGED <<path, pool>>

Next == Type

Spec == Init /\ [][Next]_vars

(***************************************************************************)
(* Properties                                                              *)
(***************************************************************************)

\* What the scan says was written for an option, place by place.
Written(g, list, o) ==
    {list[i].value : i \in {j \in DOMAIN list : Roles(g, list)[j] = "inline" /\ list[j].option = o}}
    \cup {list[i + 1].value : i \in {j \in 1..(Len(list) - 1) :
              list[j] = Bare(o) /\ Roles(g, list)[j + 1] = "value"}}

\* The two readings of an accepted list agree: an option that is written is
\* read, with a value written for it (the only one, when it is written once),
\* one that is not written is not read, and the numbers a command acts on are
\* the words the scan counted as operands.  (parse_helpers.rs: validate_options
\* against optional_option and positional_number; the value of one option is
\* never read as another option, and a word is never both.)
ReadsAsWritten ==
    LET g == Grammar(path)
    IN Accepts(path, g, args) =>
           /\ \A o \in g.values :
                  /\ Occurrences(args, o) = {} <=> OptionalOption(args, o) = None
                  /\ Occurrences(args, o) # {} => OptionalOption(args, o) \in Written(g, args, o)
           /\ g.operand \in {"number", "positive", "listed"} =>
                  \A i \in 1..OperandCount(g, args) : Roles(g, args)[i] = "operand"

==============================================================================

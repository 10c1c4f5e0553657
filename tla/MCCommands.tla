----------------------------- MODULE MCCommands -----------------------------
(* What a phasegent process settles before and while it serves a command: the *)
(* words found in the text of a tool call (Scanner), who it takes its caller to *)
(* be (Invocation), how it reads its arguments (Arguments) and which task the   *)
(* request goes to (Tasks).  Each stage is done with before the next begins and *)
(* leaves it one answer, so each is explored on its own; stage says which.      *)
EXTENDS Tasks

CONSTANTS c1, c2

VARIABLES
    stage,
    text, pieces,
    hooks, inherited, entries, clock, nonces, call, last, scan,
    path, pool, args, room

textVars == <<text, pieces>>
callVars == <<hooks, inherited, entries, clock, nonces, call, last, scan>>
argVars == <<path, pool, args, room>>
-----------------------------------------------------------------------------
(* Tasks. *)

OneBranch == {[repo |-> "r", branch |-> "b"]}

Redmine(i) == [provider |-> "redmine", instance |-> i, project |-> "p"]
\* Redmine moved from A to B; the same project and number exist on both.
TwoRedmines == {Redmine("A"), Redmine("B")}
Ctx(kind, project) ==
    [provider |-> kind, base |-> None, repository |-> None, project |-> project]
RedmineContexts == {Ctx(None, "p"), Ctx("redmine", "p")}
MovingRedmine ==
    {[kind |-> "redmine", redmine |-> i, forgejo |-> "F", origin |-> "q"] : i \in {"A", "B"}}

Symmetry == Permutations(Procs)

-----------------------------------------------------------------------------
(* Invocation. *)

Seg(words, claim, quoted, balanced) ==
    [path |-> words, claim |-> claim, quoted |-> quoted, balanced |-> balanced,
     wrapped |-> FALSE, scope |-> None, session |-> None]
\* One command; a quoted claim before a command that takes the session; quotes
\* the scanner cannot balance; a claim a subagent has no right to.
Lines ==
    { <<Seg("issue get", None, FALSE, TRUE)>>,
      <<Seg("comment create", "orchestrator", TRUE, TRUE),
        Seg("issue close", None, FALSE, TRUE)>>,
      <<Seg("status set", "executor", FALSE, FALSE)>>,
      <<Seg(None, None, FALSE, TRUE), Seg("issue create", "admin", FALSE, TRUE)>> }
ToolEvents ==
    [session : {"s1"}, agent : {"executor"}, line : Lines]
      \cup [session : {"s2"}, agent : {"orchestrator", "custom"},
            line : {<<Seg("issue get", None, FALSE, TRUE)>>}]
AllHooks == {"tool", "shell", "create", "after"}
Tokens == {"--output", "text", "auto", "--output=json", "--no-progress", "--provider",
           "--help", "-x", "issue"}

V == INSTANCE Invocation WITH
        Calls <- {c1, c2}, Events <- ToolEvents,
        Surfaces <- {AllHooks, AllHooks \ {"after"}, {"tool"}},
        Ambient <- {None, "executor"},
        Argvs <- UNION {[1..n -> Tokens] : n \in 0..3},
        Windows <- FALSE, Capacity <- 1, Ttl <- 1, MaxClock <- 2, MaxShells <- 2

-----------------------------------------------------------------------------
(* Scanner: texts of pieces, each of one or more tokens. *)

TextPieces ==
    {<<"p", " ">>, <<";">>, <<"nl">>, <<"'">>, <<"\"">>, <<"\\">>, <<"#">>,
     <<"<<", "E">>, <<"<<-", "'", "E", "'">>, <<"<<<">>, <<"nl", "E">>,
     <<"nl", "E", "nl">>, <<"nl", "tab", "E", "nl">>, <<"\\", "nl">>,
     <<"<<", "\"", "E", "\\", "w", "\"">>, <<"A", " ">>,
     <<"T", " ", "-k", " ", "w", " ">>, <<"V", " ", "-o", " ">>, <<"C", " ">>, <<"w", " ">>}

W == INSTANCE Scanner WITH Pieces <- TextPieces, MaxPieces <- 4
-----------------------------------------------------------------------------
(* Arguments: every subcommand, each from an accepted list. *)

CommandPaths == {"issue create", "issue update", "issue close", "issue upload-attachment",
  "issue branches", "issue sync", "issue search", "issue get", "issue bind", "issue unbind",
  "status list", "status next", "comment get", "relation delete", "comment list", "project list",
  "comment create", "comment find-marker", "record create", "record list", "project create",
  "status set", "status transition", "relation create", "timer start", "timer finish", "timer get",
  "timer list", "worktree acquire", "worktree release", "worktree status", "worktree list",
  "worktree probe", "worktree prune", "worktree heartbeat", "plugin install", "plugin uninstall",
  "plugin status", "notify send", "admin workflow bootstrap", "admin auth setup",
  "admin config set", "admin config clear", "admin config provider set", "hooks run"}

A == INSTANCE Arguments WITH
        Paths <- CommandPaths, Values <- {"", "7"},
        MaxTokens <- 3, MaxExtra <- 2, MaxOptions <- 2

\* What is typed is typed after a list the parser accepts.
ASSUME StartsAccepted ==
    \A p \in CommandPaths : A!Accepts(p, A!Grammar(p), A!Complete(p))
-----------------------------------------------------------------------------
Stages == {"text", "caller", "arguments", "task"}

\* The stages that are not explored have no state; Tasks keeps its first one.
CommandsInit ==
    /\ stage \in Stages
    /\ Init /\ (stage # "task" => config.redmine = "A" /\ DOMAIN issues = {})
    /\ IF stage = "text" THEN W!Init ELSE text = None /\ pieces = None
    /\ IF stage = "caller" THEN V!Init
       ELSE /\ hooks = None /\ inherited = None /\ entries = None /\ clock = None
            /\ nonces = None /\ call = None /\ last = None /\ scan = None
    /\ IF stage = "arguments" THEN A!Init
       ELSE path = None /\ pool = None /\ args = None /\ room = None

CommandsNext ==
    /\ UNCHANGED stage
    /\ \/ /\ stage = "task" /\ Next
          /\ UNCHANGED <<textVars, callVars, argVars>>
       \/ /\ stage = "text" /\ W!Next
          /\ UNCHANGED <<vars, callVars, argVars>>
       \/ /\ stage = "caller" /\ V!Next
          /\ UNCHANGED <<vars, textVars, argVars>>
       \/ /\ stage = "arguments" /\ A!Next
          /\ UNCHANGED <<vars, textVars, callVars>>

CommandsSpec ==
    CommandsInit
      /\ [][CommandsNext]_<<stage, vars, textVars, callVars, argVars>>
-----------------------------------------------------------------------------
(* The properties of the stages under the names the run checks.             *)

\* A request goes to the task its branch or number names, a stored reference is whole,
\* a directory is given up for a close that is fresh, and a timer books here.
TaskIsKept == RequestsFollowTheTask /\ ReferencesAreWhole /\ ClosedIsFresh /\ TimerBooksHere
\* What is typed is what is served: the adapter rewrites no data and misses no command of
\* a text, a process of a tool call runs as the agent that made the call, on a header good
\* for one shell, what its parser accepts is served, in the format the pre-scan chose, and
\* the look-ups read an argument list as the scan accepted it.
ServedAsTyped ==
    /\ stage = "text" => W!RewritesOnlyCode /\ W!EveryCommandFound
    /\ stage = "caller" => /\ V!RunsAsItsAgent /\ V!HeaderUsedOnce
                           /\ V!AcceptedIsServed /\ V!FormatAgrees
    /\ stage = "arguments" => A!ReadsAsWritten
=============================================================================

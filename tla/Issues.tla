------------------------------- MODULE Issues -------------------------------
(* issue get, get of several numbers, create, update, close and search       *)
(* (cli/issue.rs, cli/issue_search.rs), the project guard of numbered Redmine *)
(* commands (cli/project_resolution.rs), and the issue index they write       *)
(* through to and search falls back on (providers/index.rs, infra/            *)
(* issue_index*.rs).  How a close climbs the statuses is in Tracker.          *)
EXTENDS Naturals, Sequences, FiniteSets, TLC

CONSTANTS
    Procs,
    Kinds,          \* of "redmine", "forgejo", "local"
    Numbers,
    ProjectOf,      \* the project each name stands for: a project has an id and an identifier
    Checkout,       \* the id of the project discovery finds for this checkout
    Elsewhere,      \* where Edit moves Redmine issues
    Texts,          \* the widths of the characters of each version of a body
    MaxBytes, MaxChunks,    \* of a chunk, and of the chunks of a document
    Queries, Pages, Limit,
    MaxCommands, MaxEdits, MaxFaults,   \* bounds
    None

VARIABLES
    issues,     \* per kind and number: the issue in the tracker, or None
    past,       \* history: what each issue has been
    since,      \* history: the projects a guarded command's issue was in since it began
    index,      \* per backend: documents, chunks and the full-text table
    url,        \* whether PHASEGENT_INDEX_PG_URL is set
    proc,       \* the commands
    commands, edits, faults     \* counters

history == <<past, since>>
vars == <<issues, past, since, index, url, proc, commands, edits, faults>>

Home(kind) == IF kind = "redmine" THEN ProjectOf[Checkout] ELSE kind
NoIndex == [docs |-> <<>>, chunks |-> {}, fts |-> <<>>]
Idle == [pc |-> "idle"]

Init ==
    /\ issues = [k \in Kinds |-> [n \in Numbers |->
                    IF n = 1 THEN [project |-> Home(k), version |-> 0, open |-> TRUE] ELSE None]]
    /\ past = {<<k, 1, [project |-> Home(k), version |-> 0, open |-> TRUE]>> : k \in Kinds}
    /\ since = [p \in Procs |-> {}]
    /\ index = [b \in {"sqlite", "postgres"} |-> NoIndex]
    /\ url \in BOOLEAN
    /\ proc = [p \in Procs |-> Idle]
    /\ commands = 0 /\ edits = 0 /\ faults = 0

\* A numbered write to Redmine on its way to the tracker.
Guarded(r) == r.pc \in {"resolve", "guard", "request"} /\ r.kind = "redmine"
              /\ r.cmd \in {"update", "close"}
Begins(p, r) ==
    since' = [since EXCEPT ![p] = IF Guarded(r) /\ issues[r.kind][r.n] # None
                                  THEN {issues[r.kind][r.n].project} ELSE {}]
Forgets(p) == since' = [since EXCEPT ![p] = {}]

Put(kind, n, issue) ==
    /\ issues' = [issues EXCEPT ![kind][n] = issue]
    /\ past' = past \cup {<<kind, n, issue>>}
    /\ since' = [p \in Procs |-> IF Guarded(proc[p]) /\ proc[p].kind = kind /\ proc[p].n = n
                                 THEN since[p] \cup {issue.project} ELSE since[p]]
Goto(p, r) == proc' = [proc EXCEPT ![p] = r]
Fault == faults < MaxFaults /\ faults' = faults + 1
-----------------------------------------------------------------------------
(* Documents.                                                                *)

Total(text) == LET sum[i \in 0..Len(text)] == IF i = 0 THEN 0 ELSE sum[i-1] + text[i] IN sum[Len(text)]
Boundaries(text) == {Total(SubSeq(text, 1, i)) : i \in 0..Len(text)}
Lesser(a, b) == IF a < b THEN a ELSE b

\* Cut where the bytes run out, in the middle of a character if need be.
BuildChunksRaw(text) ==
    LET size == Total(text)
        from[k \in 0..MaxChunks] == IF k = 0 THEN 0 ELSE Lesser(from[k-1] + MaxBytes, size)
    IN IF from[MaxChunks] < size THEN None
       ELSE {[ordinal |-> k, from |-> from[k], to |-> from[k+1]] :
                k \in {k \in 0..(MaxChunks - 1) : from[k] < size}}
\* build_chunks: whole characters, at most MaxBytes at a time; None when
\* MaxChunks are not enough, which the size alone does not say.
BuildChunks(text) ==
    LET size == Total(text)
        after(offset) == CHOOSE e \in Boundaries(text) :
            /\ e <= offset + MaxBytes
            /\ \A f \in Boundaries(text) : f <= offset + MaxBytes => f <= e
        from[k \in 0..MaxChunks] == IF k = 0 THEN 0 ELSE after(from[k-1])
    IN IF size > MaxBytes * MaxChunks \/ from[MaxChunks] < size THEN None
       ELSE {[ordinal |-> k, from |-> from[k], to |-> from[k+1]] :
                k \in {k \in 0..(MaxChunks - 1) : from[k] < size}}

\* IssueIndexDocument::new; the titles and keys of the model are well formed.
Indexable(s) == BuildChunks(Texts[s.version + 1]) # None

\* resolve_index_backend: by the URL alone.
Backend == IF url THEN "postgres" ELSE "sqlite"

Cut(key, s) == {[key |-> key, at |-> c] : c \in BuildChunks(Texts[s.version + 1])}
\* upsert of SQLite: one transaction replaces the document, its chunks and its text.
Upsert(ix, key, s) ==
    [docs |-> (key :> s) @@ ix.docs,
     chunks |-> {c \in ix.chunks : c.key # key} \cup Cut(key, s),
     fts |-> (key :> s.version) @@ ix.fts]
\* upsert of PostgreSQL: the searched text follows the document by a trigger.
PgUpsert(ix, key, s) ==
    LET docs == (key :> s) @@ ix.docs IN
    [docs |-> docs,
     chunks |-> {c \in ix.chunks : c.key # key} \cup Cut(key, s),
     fts |-> [k \in DOMAIN docs |-> docs[k].version]]
Keep(key, s) ==
    index' = [index EXCEPT ![Backend] = IF url THEN PgUpsert(@, key, s) ELSE Upsert(@, key, s)]

\* provider_scope; None: a Redmine provider without a project.
Scope(r) == CASE r.kind = "redmine" -> (IF r.named = None THEN None ELSE <<"redmine", r.named>>)
              [] OTHER -> <<r.kind, r.kind>>
\* explicit_scope
ExplicitScope(r) ==
    IF r.explicit /\ r.named # None /\ r.kind # "local" THEN <<r.kind, r.named>> ELSE None
-----------------------------------------------------------------------------
(* Commands.                                                                 *)

\* A task is bound under a project its issue was in.
Bound(n) == {name \in DOMAIN ProjectOf :
                \E h \in past : h[1] = "redmine" /\ h[2] = n /\ h[3].project = ProjectOf[name]}

Command(cmd) ==
    \E kind \in Kinds, n \in Numbers, routed \in BOOLEAN, explicit \in BOOLEAN :
    \E named \in {name \in DOMAIN ProjectOf : kind = "redmine"} \cup {None} :
        /\ routed => kind = "redmine" /\ cmd \in {"get", "update", "close"} /\ named \in Bound(n)
        /\ explicit => cmd = "search" /\ named # None
        /\ cmd \in {"create", "search"} => n = 1
        /\ \E query \in (IF cmd = "search" THEN Queries \cup {None} ELSE {None}),
              want \in (IF cmd = "search" THEN {"open", "all"} ELSE {"all"}),
              page \in (IF cmd = "search" THEN Pages ELSE {1}) :
            LET r == [pc |-> "resolve", cmd |-> cmd, kind |-> kind, n |-> n, named |-> named,
                      asked |-> named, routed |-> routed, explicit |-> explicit, query |-> query,
                      want |-> want, page |-> page, built |-> FALSE,
                      got |-> None, todo |-> <<>>, warmed |-> TRUE] IN
            \E p \in Procs : proc[p].pc = "idle" /\ Goto(p, r) /\ Begins(p, r)

Start ==
    /\ commands < MaxCommands
    /\ \E cmd \in {"get", "create", "update", "close", "search"} : Command(cmd)
    /\ commands' = commands + 1
    /\ UNCHANGED <<issues, past, index, url, edits, faults>>

Ends(r, got, outcome) == [pc |-> "done", kind |-> r.kind, named |-> r.named, built |-> r.built,
                          got |-> got, outcome |-> outcome]
Fails(r) == Ends(r, None, [kind |-> "error", items |-> <<>>])

\* lexical_search_scoped: by text, by scope if there is one, by state.
Matches(r, scope, k, ix) ==
    /\ ix.fts[k] \in r.query
    /\ scope = None \/ <<k[1], k[2]>> = scope
    /\ r.want = "all" \/ ix.docs[k].open = (r.want = "open")
\* The documents a query of the index finds, in the order it lists them (one
\* fixed order: rank, then key).
Found(r, scope, ix) ==
    LET keys == {k \in DOMAIN ix.docs : Matches(r, scope, k, ix)}
    IN CHOOSE s \in [1..Cardinality(keys) -> keys] : {s[i] : i \in DOMAIN s} = keys
Page(s, page) == SubSeq(s, (page - 1) * Limit + 1, Lesser(page * Limit, Len(s)))

\* The provider's scope, when it was built, else that of the arguments; None: all.
FallbackScope(r) ==
    IF r.built /\ Scope(r) # None THEN Scope(r) ELSE ExplicitScope(r)

\* fallback_or_provider_error; opened: whether the index could be opened.
Fallback(r, opened) ==
    LET hits == Page(Found(r, FallbackScope(r), index[Backend]), r.page) IN
    IF r.query = None \/ ~opened \/ hits = <<>> THEN Fails(r)
    ELSE Ends(r, None, [kind |-> "stale", items |-> hits])

\* What an error of the provider comes to.
TurnedDown(p, r) ==
    IF r.cmd = "search" THEN \E opened \in BOOLEAN : Goto(p, Fallback(r, opened)) ELSE Goto(p, Fails(r))
-----------------------------------------------------------------------------
(* The provider: discovery, the guard of the project, the requests.           *)

\* resolve_redmine_project_for_search_or_create: the checkout's project, made if need be.
Discovers(r) == r.kind = "redmine" /\ r.asked = None /\ r.cmd \in {"create", "search"}

Resolve(p) == LET r == proc[p] IN
    /\ r.pc = "resolve"
    /\ \/ Fault /\ TurnedDown(p, r)
       \/ LET built == [r EXCEPT !.built = TRUE, !.named = IF Discovers(r) THEN Checkout ELSE @] IN
          /\ Goto(p, [built EXCEPT !.pc = IF r.kind = "redmine" /\ r.cmd \in {"update", "close"}
                                          THEN "guard" ELSE "request"])
          /\ UNCHANGED faults
    /\ UNCHANGED <<issues, history, index, url, commands, edits>>

\* resolve_expected_redmine_project
Expected(r) == IF r.asked # None THEN r.asked ELSE Checkout

\* Whatever project the issue is in.
GuardProjectNone(issue, expected) == TRUE
\* guard_project_parts: by id or by identifier.
GuardProject(issue, expected) == issue.project = ProjectOf[expected]

\* verify_redmine_scope_before_write
Guard(p) == LET r == proc[p] IN
    /\ r.pc = "guard"
    /\ \/ Fault /\ Goto(p, Fails(r))
       \/ LET issue == issues[r.kind][r.n] IN
          /\ Goto(p, IF issue # None /\ GuardProject(issue, Expected(r))
                     THEN [r EXCEPT !.pc = "request"] ELSE Fails(r))
          /\ UNCHANGED faults
    /\ UNCHANGED <<issues, history, index, url, commands, edits>>

Shown(kind, n) == issues[kind][n] @@ [n |-> n]

\* What the provider holds of a search, in its order.
Hit(r, n) == LET i == issues[r.kind][n] IN
    /\ i # None
    /\ r.kind = "redmine" => i.project = ProjectOf[r.named]
    /\ r.query = None \/ i.version \in r.query
    /\ r.want = "all" \/ i.open = (r.want = "open")
Listed(r) ==
    LET seq[m \in 0..Cardinality(Numbers)] ==
            IF m = 0 THEN <<>> ELSE seq[m-1] \o (IF Hit(r, m) THEN <<Shown(r.kind, m)>> ELSE <<>>)
    IN Page(seq[Cardinality(Numbers)], r.page)

Read(p) == LET r == proc[p] IN
    /\ r.pc = "request" /\ r.cmd \in {"get", "search"}
    /\ \/ Fault /\ TurnedDown(p, r)
       \/ /\ IF r.cmd = "search" THEN Goto(p, [r EXCEPT !.pc = "warm", !.got = Listed(r)])
             ELSE IF issues[r.kind][r.n] = None THEN Goto(p, Fails(r))
             ELSE Goto(p, [r EXCEPT !.got = <<Shown(r.kind, r.n)>>,
                              !.pc = IF r.kind = "redmine" /\ ~r.routed THEN "check" ELSE "warm"])
          /\ UNCHANGED faults
    /\ UNCHANGED <<issues, history, index, url, commands, edits>>

\* enforce_redmine_single_number_scope
Check(p) == LET r == proc[p] IN
    /\ r.pc = "check"
    /\ \/ Fault /\ Goto(p, Fails(r))
       \/ /\ Goto(p, IF GuardProject(r.got[1], Expected(r))
                     THEN [r EXCEPT !.pc = "warm"] ELSE Fails(r))
          /\ UNCHANGED faults
    /\ UNCHANGED <<issues, history, index, url, commands, edits>>

\* What create, update and close make of an issue.
Written(r, n) ==
    LET i == issues[r.kind][n] IN
    CASE r.cmd = "create" -> [project |-> IF r.kind = "redmine" THEN ProjectOf[r.named] ELSE r.kind,
                              version |-> 0, open |-> TRUE]
      [] r.cmd = "update" -> [i EXCEPT !.version = (@ + 1) % Len(Texts)]
      [] r.cmd = "close" -> [i EXCEPT !.open = FALSE]
Target(r) ==
    IF r.cmd # "create" THEN {r.n} ELSE {n \in Numbers : issues[r.kind][n] = None
                                            /\ \A m \in 1..(n-1) : issues[r.kind][m] # None}

\* The write is made; its answer carries the issue, carries nothing and the
\* issue is read again, or is lost.
Write(p) == LET r == proc[p] IN
    /\ r.pc = "request" /\ r.cmd \in {"create", "update", "close"}
    /\ \/ /\ \A n \in Target(r) : r.cmd # "create" => issues[r.kind][n] = None
          /\ Goto(p, Fails(r))
          /\ UNCHANGED <<issues, history, faults>>
       \/ \E n \in Target(r) :
          /\ r.cmd # "create" => issues[r.kind][n] # None
          /\ Put(r.kind, n, Written(r, n))
          /\ \/ Fault /\ Goto(p, Fails(r))
             \/ /\ Goto(p, [r EXCEPT !.pc = "reread", !.n = n]) /\ UNCHANGED faults
             \/ /\ r.kind # "local"
                /\ Goto(p, [r EXCEPT !.pc = "warm", !.n = n, !.got = <<Written(r, n) @@ [n |-> n]>>])
                /\ UNCHANGED faults
    /\ UNCHANGED <<index, url, commands, edits>>

Reread(p) == LET r == proc[p] IN
    /\ r.pc = "reread"
    /\ \/ Fault /\ Goto(p, Fails(r))
       \/ Goto(p, [r EXCEPT !.pc = "warm", !.got = <<Shown(r.kind, r.n)>>]) /\ UNCHANGED faults
    /\ UNCHANGED <<issues, history, index, url, commands, edits>>
-----------------------------------------------------------------------------
(* The write-through: warm_single_summary, warm_search_page.                  *)

\* One summary that cannot be a document, or an index that cannot be opened,
\* and nothing is written.
Warm(p) == LET r == proc[p] IN
    /\ r.pc = "warm"
    /\ \/ Fault /\ Goto(p, [r EXCEPT !.pc = "finish", !.warmed = FALSE])
       \/ /\ Goto(p, IF Scope(r) = None \/ \E i \in DOMAIN r.got : ~Indexable(r.got[i])
                     THEN [r EXCEPT !.pc = "finish", !.warmed = FALSE]
                     ELSE [r EXCEPT !.pc = "upsert", !.todo = r.got])
          /\ UNCHANGED faults
    /\ UNCHANGED <<issues, history, index, url, commands, edits>>

UpsertNext(p) == LET r == proc[p] IN
    /\ r.pc = "upsert"
    /\ IF r.todo = <<>> THEN Goto(p, [r EXCEPT !.pc = "finish"]) /\ UNCHANGED <<index, faults>>
       ELSE \/ Fault /\ Goto(p, [r EXCEPT !.pc = "finish", !.warmed = FALSE]) /\ UNCHANGED index
            \/ /\ Keep(Append(Scope(r), Head(r.todo).n), Head(r.todo))
               /\ Goto(p, [r EXCEPT !.todo = Tail(@)])
               /\ UNCHANGED faults
    /\ UNCHANGED <<issues, history, url, commands, edits>>

Answer(r) == [kind |-> "fresh", items |-> r.got]

Finish(p) ==
    /\ proc[p].pc = "finish"
    /\ Goto(p, Ends(proc[p], proc[p].got, Answer(proc[p])))
    /\ UNCHANGED <<issues, history, index, url, commands, edits, faults>>
-----------------------------------------------------------------------------
(* issue get of several numbers: execute_issue_batch.  Each number has its own *)
(* route: the project of its task, None (unbound) or "bad" (ambiguous or       *)
(* refused).                                                                  *)

Batch ==
    /\ commands < MaxCommands /\ "redmine" \in Kinds
    /\ \E p \in Procs : \E route \in [Numbers -> DOMAIN ProjectOf \cup {None, "bad"}] :
        /\ proc[p].pc = "idle"
        /\ \A n \in Numbers : route[n] \in Bound(n) \cup {None, "bad"}
        /\ Goto(p, [pc |-> "build", cmd |-> "batch", kind |-> "redmine", named |-> None, route |-> route,
                     legacy |-> TRUE, at |-> 1, got |-> <<>>, errors |-> {}])
    /\ commands' = commands + 1
    /\ UNCHANGED <<issues, history, index, url, edits, faults>>

HasBound(r) == \E n \in Numbers : r.route[n] \in DOMAIN ProjectOf
NeedsLegacy(r) == \E n \in Numbers : r.route[n] = None

\* An unbuildable default only fails the numbers that need it, if others are bound.
WithoutLegacy(r) == [r EXCEPT !.pc = IF HasBound(r) THEN "item" ELSE "done", !.legacy = FALSE]

BatchBuild(p) == LET r == proc[p] IN
    /\ r.pc = "build"
    /\ \/ NeedsLegacy(r) /\ Fault /\ Goto(p, WithoutLegacy(r))
       \/ Goto(p, [r EXCEPT !.pc = "item"]) /\ UNCHANGED faults
    /\ UNCHANGED <<issues, history, index, url, commands, edits>>

\* One number: its own provider and its own expected project.
BatchItem(p) == LET r == proc[p] IN
    /\ r.pc = "item"
    /\ IF r.at \notin Numbers THEN Goto(p, [r EXCEPT !.pc = "done"]) /\ UNCHANGED faults
       ELSE LET route == r.route[r.at]
                issue == issues[r.kind][r.at]
                failed == [r EXCEPT !.errors = @ \cup {r.at}, !.at = @ + 1]
                expected == IF route = None THEN Checkout ELSE route IN
         IF route = "bad" \/ (route = None /\ ~r.legacy)
         THEN Goto(p, failed) /\ UNCHANGED faults
         ELSE \/ Fault /\ Goto(p, failed)
              \/ /\ Goto(p, IF issue = None \/ ~GuardProject(issue, expected) THEN failed
                            ELSE [r EXCEPT !.pc = "keep", !.named = route,
                                           !.got = Append(@, Shown(r.kind, r.at))])
                 /\ UNCHANGED faults
    /\ UNCHANGED <<issues, history, index, url, commands, edits>>

\* The write-through of one number: the unbound have no project to be filed under.
BatchKeep(p) == LET r == proc[p]  s == r.got[Len(r.got)] IN
    /\ r.pc = "keep"
    /\ Goto(p, [r EXCEPT !.pc = "item", !.at = @ + 1])
    /\ IF Scope(r) = None \/ ~Indexable(s) THEN UNCHANGED <<index, faults>>
       ELSE \/ Fault /\ UNCHANGED index
            \/ /\ Keep(Append(Scope(r), s.n), s)
               /\ UNCHANGED faults
    /\ UNCHANGED <<issues, history, url, commands, edits>>
-----------------------------------------------------------------------------
\* Others change an issue, or the index is moved to another backend.
Edit ==
    /\ edits < MaxEdits /\ edits' = edits + 1
    /\ \/ \E k \in Kinds, n \in Numbers :
          /\ issues[k][n] # None
          /\ \/ Put(k, n, [issues[k][n] EXCEPT !.version = (@ + 1) % Len(Texts)])
             \/ Put(k, n, [issues[k][n] EXCEPT !.open = ~@])
             \/ k = "redmine" /\ Put(k, n, [issues[k][n] EXCEPT !.project = Elsewhere])
          /\ UNCHANGED url
       \/ url' = ~url /\ UNCHANGED <<issues, history>>
    /\ UNCHANGED <<index, proc, commands, faults>>

Crash(p) ==
    /\ proc[p].pc \notin {"idle", "done"} /\ Fault
    /\ Goto(p, Idle) /\ Forgets(p)
    /\ UNCHANGED <<issues, past, index, url, commands, edits>>

Leave(p) ==
    /\ proc[p].pc = "done"
    /\ Goto(p, Idle) /\ Forgets(p)
    /\ UNCHANGED <<issues, past, index, url, commands, edits, faults>>

Next ==
    \/ Start \/ Batch \/ Edit
    \/ \E p \in Procs : Resolve(p) \/ Guard(p) \/ Read(p) \/ Check(p) \/ Write(p) \/ Reread(p)
                          \/ Warm(p) \/ UpsertNext(p) \/ Finish(p)
                          \/ BatchBuild(p) \/ BatchItem(p) \/ BatchKeep(p) \/ Crash(p) \/ Leave(p)

Spec == Init /\ [][Next]_vars
-----------------------------------------------------------------------------
(* Properties.                                                               *)

Ended == {r \in {proc[p] : p \in Procs} : r.pc = "done" /\ "route" \notin DOMAIN r}

\* A document of the index is the issue of that number as the tracker once had
\* it, and a Redmine document is filed under a project the issue has been in:
\* a number of another project never enters the index under this one.
FiledAsItWas ==
    \A b \in DOMAIN index : \A k \in DOMAIN index[b].docs :
        LET d == index[b].docs[k] IN
        /\ <<k[1], k[3], [project |-> d.project, version |-> d.version, open |-> d.open]>> \in past
        /\ k[1] = "redmine" => \E h \in past : h[1] = "redmine" /\ h[2] = k[3]
                                               /\ h[3].project = ProjectOf[k[2]]

\* The chunks of a document are the body it has, cut between characters and
\* without a gap, and the text that is searched is its text: no chunk is left of
\* an earlier version.
IndexIsWhole ==
    \A b \in DOMAIN index : \A k \in DOMAIN index[b].docs :
        LET text == Texts[index[b].docs[k].version + 1]
            cuts == {c.at : c \in {c \in index[b].chunks : c.key = k}} IN
        /\ index[b].fts[k] = index[b].docs[k].version
        /\ \A c \in cuts : c.to - c.from \in 1..MaxBytes /\ {c.from, c.to} \subseteq Boundaries(text)
        /\ \A x \in 0..(Total(text) - 1) : Cardinality({c \in cuts : c.from <= x /\ x < c.to}) = 1
        /\ \A c \in cuts : c.to <= Total(text)

\* What the tracker answered is what the command answers, whatever becomes of the
\* index; stale results are given only when it did not answer, and then, if the
\* provider could be built, none from outside its own scope.
TrackerHasTheWord ==
    \A r \in Ended :
        /\ r.got # None => r.outcome = [kind |-> "fresh", items |-> r.got]
        /\ r.outcome.kind = "stale" =>
            /\ r.got = None /\ r.outcome.items # <<>>
            /\ r.built => \A i \in DOMAIN r.outcome.items :
                            <<r.outcome.items[i][1], r.outcome.items[i][2]>> = Scope(r)

\* A batch answers every number once, as an issue or as an error; it is refused
\* only when no number is bound to a task, and an issue it shows has been in the
\* project expected of that number.
BatchAccounts ==
    \A p \in Procs : proc[p].pc = "done" /\ "route" \in DOMAIN proc[p] =>
        LET r == proc[p]
            shown == {r.got[i].n : i \in DOMAIN r.got} IN
        \/ ~r.legacy /\ ~HasBound(r) /\ r.got = <<>>
        \/ /\ shown \cup r.errors = Numbers /\ shown \cap r.errors = {}
           /\ Len(r.got) = Cardinality(shown)
           /\ \A i \in DOMAIN r.got : r.got[i].project =
                    ProjectOf[IF r.route[r.got[i].n] = None THEN Checkout ELSE r.route[r.got[i].n]]

\* A numbered Redmine write goes to an issue that was in the expected project at
\* some time while the command ran.
WriteStep ==
    \A p \in Procs : Guarded(proc[p]) /\ proc[p].pc = "request"
                       /\ issues' # issues /\ proc'[p] # proc[p] =>
       ProjectOf[Expected(proc[p])] \in since[p]
WritesStayInProject == [][WriteStep]_vars
=============================================================================

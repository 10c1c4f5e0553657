------------------------------ MODULE Branches ------------------------------
(***************************************************************************)
(* Branch links and the commit hooks that read them: issue bind / unbind,  *)
(* the two branch steps of issue create, issue status, issue branches, and *)
(* prepare-commit-msg / commit-msg around one git commit.  The links are   *)
(* durable rows keyed by the canonical origin URL; a branch name may carry *)
(* an issue number and is the fallback wherever no row resolves.           *)
(***************************************************************************)
EXTENDS Naturals, Sequences, FiniteSets, SequencesExt

CONSTANTS
    Branches,      \* local branch names
    NameOf,        \* what the parser can see of a name: [slash, tail, bare]
    Conventional,  \* the names main and master
    BranchFor,     \* issue number -> feat/<number>
    Scopes,        \* provider/project pairs, as 1..n in the store's order
    Numbers,       \* issue numbers
    Urls,          \* origin URLs: [form, host, caps, port, path, git]
    Drafts,        \* messages git hands to prepare-commit-msg
    Sources,       \* its message sources
    MaxChanges,    \* bound on commands and outside changes
    MaxCommits,    \* bound on commits tried
    None

VARIABLES
    links,    \* repo key -> branch -> <<scope, number>> -> none | linked | detached
    refs,     \* branches that exist
    head,     \* checked out branch, None when HEAD is detached
    origin,   \* configured origin URL, None when there is none
    cached,   \* cached remote HEAD, None when it is unknown
    store,    \* whether the database can be opened
    create,   \* the branch step of a running issue create
    commit,   \* the commit being made
    changes,
    commits

vars == <<links, refs, head, origin, cached, store, create, commit, changes, commits>>

Ids == Scopes \X Numbers
Line == [kind : {"text", "trailer", "mention", "comment", "scissors"}, id : Numbers \cup {0}]

-----------------------------------------------------------------------------
(* Repository identity. *)

\* Every scheme's default port; the scp form has no port at all.
DefaultPort(u) == CASE u.form = "ssh" -> 22 [] u.form = "https" -> 443 [] OTHER -> None

\* An identity that forgets that an https URL may spell out its default port.
CanonicalWithPort(u) ==
    [host |-> u.host, port |-> IF u.form = "ssh" /\ u.port = 22 THEN None ELSE u.port,
     path |-> u.path]

\* remote.rs, canonical_git_url: the scheme, the credentials, the letter case of
\* the host, the default port and a trailing .git do not count.
CanonicalGitUrl(u) ==
    [host |-> u.host, port |-> IF u.port = DefaultPort(u) THEN None ELSE u.port, path |-> u.path]

\* A checkout without an origin is keyed by its own path.
LocalKey == [host |-> None, port |-> None, path |-> <<>>]

\* identity.rs, resolve_repo_key: an origin with no path has no key.
HasKey(o) == IF o = None THEN TRUE ELSE o.path # <<>>
RepoKey(o) == IF o = None THEN LocalKey ELSE CanonicalGitUrl(o)

\* remote.rs, parse_remote: owner and repository are the last two segments.
ParseRemote(u) ==
    IF Len(u.path) < 2 THEN None ELSE <<u.path[Len(u.path) - 1], u.path[Len(u.path)]>>

\* lifecycle.rs, origin_identity.
OriginIdentity(o) == IF o = None THEN None ELSE ParseRemote(o)

Keys == {LocalKey} \cup {CanonicalGitUrl(u) : u \in {v \in Urls : v.path # <<>>}}

-----------------------------------------------------------------------------
(* What a branch resolves to. *)

\* branch_naming.rs: the first positive number after a slash, then a trailing
\* number after - or _, then a name made of digits.
ParseIssueId(b) ==
    LET name == NameOf[b]
        candidates == SelectSeq(name.slash \o <<name.tail, name.bare>>, LAMBDA n : n # 0)
    IN  IF candidates = <<>> THEN None ELSE candidates[1]

IsProtected(b) == IF cached # None THEN b = cached ELSE b \in Conventional

NamedBranchIssue(b) == IF IsProtected(b) THEN None ELSE ParseIssueId(b)

\* read_branch_link_rows: FALSE when the store cannot answer.
RowsReadable == store /\ HasKey(origin)
Rows(b) == links[RepoKey(origin)][b]
LinkedRefs(b) == {r \in Ids : Rows(b)[r] = "linked"}
NumbersOf(rs) == {r[2] : r \in rs}

\* Numbers that several scopes of the branch share.
Ambiguous(rs) == {n \in Numbers : Cardinality({r \in rs : r[2] = n}) > 1}

NoBinding == [res |-> "none", ids |-> {}]
Bound(ids) == [res |-> "issues", ids |-> ids]

NamedBindings(b) ==
    IF NamedBranchIssue(b) = None THEN NoBinding ELSE Bound({NamedBranchIssue(b)})

\* hooks/branch_context.rs, resolve_hook_issue_ids, for the checked out branch.
HookBindingsFrom(b, readable) ==
    IF b = None THEN NoBinding
    ELSE IF IsProtected(b) THEN NoBinding
    ELSE IF ~readable THEN NamedBindings(b)
    ELSE IF LinkedRefs(b) = {} THEN NamedBindings(b)
    ELSE IF Ambiguous(LinkedRefs(b)) # {} THEN [res |-> "conflict", ids |-> {}]
    ELSE Bound(NumbersOf(LinkedRefs(b)))

HookBindings(b) == HookBindingsFrom(b, RowsReadable)

\* The numeric projection, where scopes that share a number collapse.
ResolveByNumber(rs, b) ==
    [ambiguous  |-> Cardinality(NumbersOf(rs)) > 1,
     suppressed |-> cached = b,
     number     |-> IF cached # b /\ Cardinality(NumbersOf(rs)) = 1
                    THEN CHOOSE n \in NumbersOf(rs) : TRUE ELSE None]

\* compat.rs, resolve_core over the distinct identities of a branch.
ResolveCore(rs, b) ==
    [ambiguous  |-> Cardinality(rs) > 1,
     suppressed |-> cached = b,
     number     |-> IF cached # b /\ Cardinality(rs) = 1
                    THEN CHOOSE n \in NumbersOf(rs) : TRUE ELSE None]

\* cli/branch/status.rs: which rows issue status counts (all without a scope).
InScope(s, rs) == IF s = None THEN rs ELSE {r \in rs : r[1] = s}

StoreUnavailableView(b) ==
    [issue |-> NamedBranchIssue(b), ambiguous |-> FALSE, suppressed |-> FALSE]

\* execute_status and active_issue.
StatusView(s, b) ==
    LET compat == ResolveCore(InScope(s, LinkedRefs(b)), b)
    IN  IF ~RowsReadable THEN StoreUnavailableView(b)
        ELSE [issue      |-> IF compat.suppressed \/ compat.ambiguous THEN None
                             ELSE IF compat.number # None THEN compat.number
                             ELSE NamedBranchIssue(b),
              ambiguous  |-> compat.ambiguous,
              suppressed |-> compat.suppressed]

\* The issue whose branches the status lists in reverse: the first linked row of
\* the whole branch, in the store's order, that has the active number.
ReverseKey(s, b) ==
    LET compat == ResolveCore(InScope(s, LinkedRefs(b)), b)
        same == {r \in LinkedRefs(b) : r[2] = compat.number}
    IN  IF compat.number = None THEN None
        ELSE CHOOSE r \in same : \A q \in same : r[1] <= q[1]

\* reads.rs, branches_for_issue: every branch with a row of one issue.
BranchesForIssue(r) == {b \in Branches : Rows(b)[r] # "none"}

\* compat.rs, resolve_branch_rows: the answer of the snapshot surfaces.
ResolveBranchRows(b) ==
    LET compat == ResolveCore(LinkedRefs(b), b)
    IN  IF ~RowsReadable THEN NamedBranchIssue(b)
        ELSE IF IsProtected(b) \/ compat.ambiguous \/ compat.suppressed THEN None
        ELSE IF compat.number # None THEN compat.number
        ELSE NamedBranchIssue(b)

\* reads.rs, branches_for_number: linked and detached rows of every scope.
BranchesForNumber(n) ==
    {<<s, b>> \in Scopes \X Branches : Rows(b)[<<s, n>>] # "none"}

\* issue branches N flags a number that several scopes use.
BranchesAmbiguous(n) == Cardinality({x[1] : x \in BranchesForNumber(n)}) > 1

-----------------------------------------------------------------------------
(* Messages. *)

\* Message::new and authored: what stands above the scissors line, comments aside.
ScissorsAt(m) ==
    LET at == {i \in 1..Len(m) : m[i].kind = "scissors"}
    IN  IF at = {} THEN Len(m) + 1 ELSE CHOOSE i \in at : \A j \in at : i <= j
Authored(m) == SelectSeq(SubSeq(m, 1, ScissorsAt(m) - 1), LAMBDA x : x.kind # "comment")

References(m) == {x.id : x \in {y \in ToSet(Authored(m)) : y.kind \in {"trailer", "mention"}}}
GeneratedCount(m, n) ==
    Len(SelectSeq(Authored(m), LAMBDA x : x.kind = "trailer" /\ x.id = n))

Trailers(ids) == [i \in 1..Cardinality(ids) |->
    [kind |-> "trailer", id |-> SetToSortSeq(ids, <)[i]]]

\* insert_many: one trailer block, above the scissors.
InsertMany(m, ids) ==
    SubSeq(m, 1, ScissorsAt(m) - 1) \o Trailers(ids) \o SubSeq(m, ScissorsAt(m), Len(m))

-----------------------------------------------------------------------------
(* Initial state. *)

NoCreate == [pc |-> "none"]
NoCommit == [pc |-> "none"]
NoLinks == [k \in Keys |-> [b \in Branches |-> [r \in Ids |-> "none"]]]

Init ==
    /\ links = NoLinks
    /\ refs = Branches
    /\ head \in Branches
    /\ origin \in Urls \cup {None}
    /\ cached \in (Branches \cap Conventional) \cup {None}
    /\ store = TRUE
    /\ create = NoCreate
    /\ commit = NoCommit
    /\ changes = 0
    /\ commits = 0

Change == changes < MaxChanges /\ changes' = changes + 1

-----------------------------------------------------------------------------
(* Link commands. *)

\* store.rs, link_many and detach_many, each one transaction; a detached row is
\* kept as history and an unknown one stays absent.
Link(b, rs) ==
    [links EXCEPT ![RepoKey(origin)][b] = [r \in Ids |-> IF r \in rs THEN "linked" ELSE @[r]]]
Detach(b, rs) ==
    [links EXCEPT ![RepoKey(origin)][b] =
        [r \in Ids |-> IF r \in rs /\ @[r] = "linked" THEN "detached" ELSE @[r]]]

\* What bind and unbind need before they write anything.
CanWriteLinks == head # None /\ RowsReadable

\* cli/branch/bind.rs, execute_bind: never on the detected or conventional default.
Bind(s, ns) ==
    /\ CanWriteLinks /\ ~IsProtected(head)
    /\ Change
    /\ links' = Link(head, {s} \X ns)
    /\ UNCHANGED <<refs, head, origin, cached, store, create, commit, commits>>

\* execute_unbind: the named issues, or every linked one of the scope.
Unbind(s, ns) ==
    /\ CanWriteLinks
    /\ Change
    /\ links' = Detach(head, IF ns = {} THEN InScope(s, LinkedRefs(head)) ELSE {s} \X ns)
    /\ UNCHANGED <<refs, head, origin, cached, store, create, commit, commits>>

\* current_checkout_matches: the explicit repository, when there is one.
CheckoutMatches(explicit) ==
    /\ OriginIdentity(origin) # None
    /\ explicit # None => explicit = OriginIdentity(origin)

\* No note at all.
CollisionUnseen(b, s) == {r \in LinkedRefs(b) : FALSE}

\* branch_name.rs, collision_note: other scopes that link the branch already.
CollisionNote(b, s) == {r \in LinkedRefs(b) : r[1] # s}

\* issue_switch.rs, create_link_and_switch, up to the recorded link; a missing
\* branch is made first.  The branch is shared, or already checked out: done.
CreateLink(s, n, explicit) ==
    LET b == BranchFor[n] IN
    /\ create.pc = "none"
    /\ CheckoutMatches(explicit) /\ CanWriteLinks
    /\ Change
    /\ refs' = refs \cup {b}
    /\ links' = Link(b, {<<s, n>>})
    /\ create' = IF CollisionNote(b, s) # {} \/ b = head THEN NoCreate
                 ELSE [pc |-> "switch", issue |-> n, scope |-> s, from |-> head,
                       rows |-> links'[RepoKey(origin)][b]]
    /\ UNCHANGED <<head, origin, cached, store, commit, commits>>

\* The gates and the checkout: a clean tree, on the default branch or the explicit
\* base, no conflicting lease, the baseline recorded, and git willing.
CreateSwitch(safe, onBase) ==
    /\ create.pc = "switch"
    /\ create' = NoCreate
    /\ head' = IF safe /\ (cached = create.from \/ onBase) THEN BranchFor[create.issue] ELSE head
    /\ UNCHANGED <<links, refs, origin, cached, store, commit, changes, commits>>

\* branch_name.rs, link_explicit_branch: never a protected branch, never a switch.
CreateExplicit(s, n, b, explicit) ==
    /\ CheckoutMatches(explicit) /\ ~IsProtected(b) /\ RowsReadable
    /\ Change
    /\ refs' = refs \cup {b}
    /\ links' = Link(b, {<<s, n>>})
    /\ UNCHANGED <<head, origin, cached, store, create, commit, commits>>

-----------------------------------------------------------------------------
(* What happens outside the program. *)

\* git switch, git switch --detach.
Checkout(b) ==
    /\ Change /\ b # head /\ b \in refs \cup {None}
    /\ head' = b
    /\ UNCHANGED <<links, refs, origin, cached, store, create, commit, commits>>

\* git remote set-url, git remote remove.
SetOrigin(u) ==
    /\ Change /\ u # origin
    /\ origin' = u
    /\ UNCHANGED <<links, refs, head, cached, store, create, commit, commits>>

\* The database becomes unreadable, or readable again.
StoreToggles ==
    /\ Change
    /\ store' = ~store
    /\ UNCHANGED <<links, refs, head, origin, cached, create, commit, commits>>

-----------------------------------------------------------------------------
(* One commit. *)

SkipSources == {"merge", "squash", "commit"}

\* comment_marker: one fixed marker, or a setting the hooks refuse to work with.
Markers == {"fixed", "auto"}

\* hooks.rs, prepare_commit_msg: git-generated messages are left alone, and so is a
\* message on an unbound branch or one that already has a reference.
PrepareCommitMsg(draft, source, marker) ==
    LET bound == HookBindings(head)
        started == [draft |-> draft, source |-> source, bound |-> bound, edited |-> FALSE]
        with(pc, msg) == [pc |-> pc, msg |-> msg] @@ started
    IN
    /\ commit.pc \in {"none", "committed", "refused", "aborted"}
    /\ commits < MaxCommits /\ commits' = commits + 1
    /\ commit' =
         IF source \in SkipSources \/ bound.res = "none" THEN with("editing", draft)
         ELSE IF bound.res = "conflict" \/ marker = "auto" THEN with("aborted", draft)
         ELSE IF References(draft) # {} THEN with("editing", draft)
         ELSE with("editing", InsertMany(draft, bound.ids))
    /\ UNCHANGED <<links, refs, head, origin, cached, store, create, changes>>

\* The author rewrites the message in the editor.
Edit(msg) ==
    /\ commit.pc = "editing" /\ ~commit.edited /\ msg # commit.msg
    /\ commit' = [commit EXCEPT !.msg = msg, !.edited = TRUE]
    /\ UNCHANGED <<links, refs, head, origin, cached, store, create, changes, commits>>

\* Whether commit_msg lets a message through, given what the branch is bound to.
Valid(msg, bound) ==
    \/ bound.res = "none"
    \/ /\ bound.res = "issues"
       /\ References(msg) \subseteq bound.ids
       /\ \A n \in bound.ids : GeneratedCount(msg, n) <= 1

\* hooks.rs, commit_msg: the links are read again.
CommitMsg(marker) ==
    LET bound == HookBindings(head) IN
    /\ commit.pc = "editing"
    /\ commit' = [commit EXCEPT
         !.pc = IF Valid(commit.msg, bound) /\ (bound.res = "issues" => marker = "fixed")
                THEN "committed" ELSE "refused",
         !.bound = IF @ = bound THEN @ ELSE [res |-> "changed", ids |-> bound.ids]]
    /\ UNCHANGED <<links, refs, head, origin, cached, store, create, changes, commits>>

-----------------------------------------------------------------------------
Repositories == {OriginIdentity(u) : u \in Urls} \cup {None}

LinkCommand ==
    /\ changes < MaxChanges
    /\ \/ \E s \in Scopes, ns \in SUBSET Numbers : Unbind(s, ns) \/ (ns # {} /\ Bind(s, ns))
       \/ \E s \in Scopes, n \in Numbers, e \in Repositories :
             \/ CreateLink(s, n, e)
             \/ \E b \in Branches : CreateExplicit(s, n, b, e)

Outside ==
    /\ changes < MaxChanges
    /\ \/ \E b \in Branches \cup {None} : Checkout(b)
       \/ \E u \in Urls \cup {None} : SetOrigin(u)
       \/ StoreToggles

Next ==
    \/ LinkCommand
    \/ \E safe, onBase \in BOOLEAN : CreateSwitch(safe, onBase)
    \/ Outside
    \/ \E d \in Drafts, s \in Sources, k \in Markers : PrepareCommitMsg(d, s, k)
    \/ \E d \in Drafts : Edit(d)
    \/ \E k \in Markers : CommitMsg(k)

Spec == Init /\ [][Next]_vars

-----------------------------------------------------------------------------
(* Properties. *)

\* The three readers of a branch never contradict each other: where the hooks see
\* one issue the status (of all scopes) and the snapshot report that issue, where
\* the hooks see several or refuse, the others report none and call it ambiguous,
\* and a number the hooks refuse is ambiguous for issue branches as well.  Only a
\* conventional name with an unknown default may show a linked issue in the status.
\* The branches the status lists for its issue include the one it was asked about.
ReadersAgree ==
    \A b \in Branches :
        LET hook == HookBindings(b)
            status == StatusView(None, b)
        IN  /\ hook.res = "issues" /\ Cardinality(hook.ids) = 1 =>
                  status.issue \in hook.ids /\ ResolveBranchRows(b) = status.issue
            /\ hook.res = "conflict" \/ Cardinality(hook.ids) > 1 =>
                  status.ambiguous /\ status.issue = None /\ ResolveBranchRows(b) = None
            /\ hook.res = "none" /\ ~IsProtected(b) =>
                  status.issue = None /\ ResolveBranchRows(b) = None
            /\ hook.res = "conflict" =>
                  \E n \in Ambiguous(LinkedRefs(b)) : BranchesAmbiguous(n)
            /\ \A s \in Scopes : RowsReadable /\ ReverseKey(s, b) # None =>
                  b \in BranchesForIssue(ReverseKey(s, b))

\* A message the author left alone and git did not write is committed with exactly
\* one reference per bound issue, provided the branch resolves at commit-msg to what
\* it resolved to at prepare-commit-msg: the second hook accepts what the first wrote.
PreparedPasses ==
    commit.pc \in {"committed", "refused"} /\ ~commit.edited
        /\ commit.source \notin SkipSources /\ References(commit.draft) = {}
        /\ commit.bound.res = "issues" =>
        /\ References(commit.msg) = commit.bound.ids
        /\ Valid(commit.msg, commit.bound)

\* Two spellings of one place: same host and path, each on its default port.
SamePlace(u, v) ==
    /\ u # None /\ v # None
    /\ u.host = v.host /\ u.path = v.path
    /\ \A w \in {u, v} : w.port \in {None, DefaultPort(w)}

\* Changing how the origin is spelled (ssh, scp or https, letter case, .git, an
\* explicit default port) never changes what any branch resolves to.
SpellingStep ==
    origin' # origin /\ SamePlace(origin, origin') =>
       \A b \in Branches : HookBindings(b)' = HookBindings(b)

\* When issue create switches the checkout and nobody linked the branch meanwhile,
\* the checkout lands on a branch whose commits the hooks accept for that issue.
CreateStep ==
    create.pc = "switch" /\ create'.pc = "none" /\ head' # head /\ RowsReadable
       /\ Rows(BranchFor[create.issue]) = create.rows /\ ~IsProtected(head') =>
       HookBindings(head').res = "issues" /\ create.issue \in HookBindings(head').ids

=============================================================================

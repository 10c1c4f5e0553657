------------------------------- MODULE Paging -------------------------------
(* Lists read page by page: the Redmine walks (redmine/http.rs, pagination.rs *)
(* and impl/projects.rs), the Forgejo walk (forgejo/mod.rs), a single native  *)
(* page (pagination.rs), and the retries of a GET (infra/http_client.rs), on  *)
(* a collection that others change while it is read.                          *)
EXTENDS Naturals, Sequences, FiniteSets

CONSTANTS
    PageSize,       \* the limit a walk asks for
    MaxPages,       \* MAX_PAGES; 1000 for Forgejo
    MaxAttempts,    \* MAX_ATTEMPTS
    Servers,        \* how the server may page: [cap, total, limit, link, sticky]
    Kinds,          \* "list", "find", "forgejo", "native"
    MaxItems, MaxChanges,   \* bounds
    None

VARIABLES
    coll,       \* the collection, a sequence of ids
    server,
    walk,       \* the walk under way
    changes,    \* history: the number of changes of the collection
    totals,     \* history: the totals this walk was told
    outcome     \* the answer of the last walk

vars == <<coll, server, walk, changes, totals, outcome>>

Smaller(a, b) == IF a < b THEN a ELSE b
Ids(s) == {s[i] : i \in DOMAIN s}
NoWalk == [pc |-> "idle"]

Init ==
    /\ coll \in {[i \in 1..n |-> i] : n \in 0..MaxItems}
    /\ server \in Servers
    /\ walk = NoWalk
    /\ changes = 0 /\ totals = {} /\ outcome = None

Begin ==
    /\ walk.pc = "idle" /\ outcome = None
    /\ \E k \in Kinds, wanted \in (Ids(coll) \cup {0}) :
        walk' = [pc |-> "fetch", kind |-> k, wanted |-> wanted, offset |-> 0, page |-> 1,
                 items |-> <<>>, last |-> <<>>, observed |-> {}, expected |-> None,
                 more |-> FALSE, tries |-> 0, since |-> changes]
    /\ UNCHANGED <<coll, server, changes, totals, outcome>>

Ends(answer) == outcome' = [walk EXCEPT !.pc = answer] /\ walk' = NoWalk
-----------------------------------------------------------------------------
(* What the server answers.                                                  *)

PerPage == Smaller(PageSize, server.cap)
Served(offset) == LET from == IF server.sticky THEN 0 ELSE offset IN
    SubSeq(coll, from + 1, Smaller(from + PerPage, Len(coll)))
Total == IF server.total THEN Len(coll) ELSE None
Limit == IF server.limit THEN PerPage ELSE PageSize
\* parse_link_next: absent, or whether "next" is among the relations.
LinkedNext(offset, count) ==
    CASE server.link = "none" -> None
      [] server.link = "right" -> offset + count < Len(coll)
      [] server.link = "always" -> TRUE

\* fetch_with_retry: a transient failure is tried again, the last one is the answer.
Transient ==
    /\ walk.pc = "fetch"
    /\ IF walk.tries + 1 < MaxAttempts
       THEN walk' = [walk EXCEPT !.tries = @ + 1] /\ UNCHANGED outcome
       ELSE Ends("error")
    /\ UNCHANGED <<coll, server, changes, totals>>

Told == totals' = IF Total = None THEN totals ELSE totals \cup {Total}
-----------------------------------------------------------------------------
(* Redmine: paginate, list_projects, list_versions, find_user_by_login.      *)

\* The size of the page decides alone.
PageIsCompleteShort(offset, count, total, limit) ==
    IF count < limit THEN "yes" ELSE "no"
\* page_is_complete
PageIsComplete(offset, count, total, limit) ==
    IF count = 0 THEN IF total # None /\ total > offset THEN "error" ELSE "yes"
    ELSE IF total # None THEN IF offset + count >= total THEN "yes" ELSE "no"
    ELSE IF count < limit THEN "yes" ELSE "no"

\* The same page twice is no progress.
Repeated(page) == page # <<>> /\ walk.last = page

RedminePage ==
    /\ walk.pc = "fetch" /\ walk.kind \in {"list", "find"}
    /\ Told
    /\ LET page == Served(walk.offset)
           done == PageIsComplete(walk.offset, Len(page), Total, Limit) IN
         IF walk.kind = "find" /\ walk.wanted \in Ids(page) THEN Ends("found")
         ELSE IF Repeated(page) \/ done = "error" THEN Ends("error")
         ELSE IF done = "yes"
         THEN walk' = NoWalk /\ outcome' = [walk EXCEPT !.pc = "ok", !.items = @ \o page]
         ELSE IF page = <<>> \/ walk.page = MaxPages THEN Ends("error")
         ELSE /\ walk' = [walk EXCEPT !.items = @ \o page, !.offset = @ + Len(page),
                             !.page = @ + 1, !.last = page, !.tries = 0]
              /\ UNCHANGED outcome
    /\ UNCHANGED <<coll, server, changes>>
-----------------------------------------------------------------------------
(* Forgejo: collect.  Totals and links, where there are any, have to agree    *)
(* with each other and with what was read.                                   *)

ChangedTotal(total) == walk.expected # None /\ total # None /\ total # walk.expected

\* What the page and its headers contradict; None: nothing.
Contradicts(page, total, next) ==
    LET read == Len(walk.items) + Len(page) IN
    \/ walk.more /\ page = <<>>
    \/ total # None /\ (read > total \/ (page = <<>> /\ read < total)
                          \/ (next # None /\ next # (read < total)))
    \/ page # <<>> /\ page \in walk.observed

CollectPage ==
    /\ walk.pc = "fetch" /\ walk.kind = "forgejo"
    /\ Told
    /\ LET page == Served((walk.page - 1) * PerPage)
           next == LinkedNext((walk.page - 1) * PerPage, Len(page))
           total == IF Total # None THEN Total ELSE walk.expected
           read == Len(walk.items) + Len(page)
           whole == IF total # None THEN read = total
                    ELSE IF next # None THEN ~next ELSE page = <<>> IN
         IF ChangedTotal(Total) \/ Contradicts(page, total, next) THEN Ends("error")
         ELSE IF whole
         THEN walk' = NoWalk /\ outcome' = [walk EXCEPT !.pc = "ok", !.items = @ \o page]
         ELSE IF page = <<>> \/ walk.page = MaxPages THEN Ends("error")
         ELSE /\ walk' = [walk EXCEPT !.items = @ \o page, !.page = @ + 1, !.expected = total,
                             !.observed = @ \cup {page}, !.tries = 0,
                             !.more = IF total # None THEN read < total ELSE next = TRUE]
              /\ UNCHANGED outcome
    /\ UNCHANGED <<coll, server, changes>>
-----------------------------------------------------------------------------
(* One page of a list: native_page.  Without a total one more item is asked   *)
(* for.                                                                      *)

NativePage ==
    /\ walk.pc = "fetch" /\ walk.kind = "native"
    /\ Told
    /\ LET page == Served(0) IN
         IF Total # None
         THEN IF Len(page) < Total /\ Len(page) < PageSize THEN Ends("error")
              ELSE /\ outcome' = [walk EXCEPT !.pc = "ok", !.items = page, !.more = Len(page) < Total]
                   /\ walk' = NoWalk
         ELSE walk' = [walk EXCEPT !.pc = "ahead", !.items = page] /\ UNCHANGED outcome
    /\ UNCHANGED <<coll, server, changes>>

Lookahead ==
    /\ walk.pc = "ahead"
    /\ LET ahead == Served(Len(walk.items)) # <<>> IN
         IF ahead /\ Len(walk.items) < PageSize THEN Ends("error")
         ELSE /\ outcome' = [walk EXCEPT !.pc = "ok", !.more = ahead]
              /\ walk' = NoWalk
    /\ UNCHANGED <<coll, server, changes, totals>>
-----------------------------------------------------------------------------
\* Others add an item in front or remove one.
Change ==
    /\ changes < MaxChanges /\ walk.pc # "idle"
    /\ changes' = changes + 1
    /\ \/ coll' = <<MaxItems + changes + 1>> \o coll
       \/ \E i \in DOMAIN coll : coll' = SubSeq(coll, 1, i - 1) \o SubSeq(coll, i + 1, Len(coll))
    /\ UNCHANGED <<server, walk, totals, outcome>>

Next == Begin \/ Transient \/ RedminePage \/ CollectPage \/ NativePage \/ Lookahead \/ Change

Spec == Init /\ [][Next]_vars
-----------------------------------------------------------------------------
(* Properties.                                                               *)

Undisturbed == outcome # None /\ outcome.since = changes
\* A server that says nothing of the limit it applies cannot be told from one
\* that has come to the end.
Frank == server.cap >= PageSize \/ server.total \/ server.limit

\* A list that is answered is the whole collection: neither a page the server
\* cut short nor one it repeats passes for the end of the list.  A user that was
\* not found is not there, and "has_more" is said when there is more.
WholeList ==
    Undisturbed =>
        CASE outcome.pc = "found" -> outcome.wanted \in Ids(coll)
          [] outcome.pc = "error" -> TRUE
          [] outcome.kind = "native" -> (outcome.items = SubSeq(coll, 1, Len(outcome.items))
                                           /\ (outcome.more \/ server.sticky \/ outcome.items = coll))
          [] outcome.kind = "find" -> (Frank => outcome.wanted \notin Ids(coll))
          [] OTHER -> (Frank \/ outcome.kind = "forgejo") => outcome.items = coll

\* Whatever happens to the collection meanwhile: a Redmine list is at least as
\* long as the last total, and a Forgejo list is answered only when every total
\* it was told was the same and was met.
TotalsHold ==
    outcome # None /\ outcome.pc = "ok" /\ totals # {} =>
        /\ outcome.kind = "forgejo" => totals = {Len(outcome.items)}
        /\ outcome.kind = "list" => \E t \in totals : Len(outcome.items) >= t
=============================================================================

----------------------------- MODULE MCRequests -----------------------------
(* What phasegent asks of a tracker: records and comments (Records), issues and   *)
(* their local mirror (Issues), their plan and relations (Planning), and whole     *)
(* lists page by page (Paging).  A request of one kind never waits for another,    *)
(* so each is explored on its own; part says which.                                *)
EXTENDS Records, TLC

CONSTANTS Refused

VARIABLES
    part, worker,
    kind, versions, trackers, issues, relations, changes, faults, past, since, index, url,
    commands, edits, coll, server, walk, totals, outcome

planVars == <<kind, versions, trackers, issues, relations, worker, changes, faults>>
issueVars == <<issues, past, since, index, url, worker, commands, edits, faults>>
world == <<provider, comments, inflight, file, proc, answers, denials, calls, worker, kind,
           versions, trackers, issues, relations, changes, faults, past, since, index, url,
           commands, edits, coll, server, walk, totals, outcome>>
-----------------------------------------------------------------------------
(* Records. *)

Req(op, issue, role, of, key, body) ==
    [op |-> op, issue |-> issue, role |-> role, authorized |-> TRUE, kind |-> of, key |-> key,
     phase |-> IF of = "recon" THEN None ELSE "P1",
     attempt |-> IF of = "recon" THEN None ELSE 1,
     review |-> IF of = "reviewer" THEN "final" ELSE None,
     recon |-> IF of = "recon" THEN "scan" ELSE None,
     body |-> body, keep |-> FALSE]

\* One key for two attempts, a request that the gates refuse, and a comment.
OneKey ==
    {Req("record", 1, "executor", "executor", "k1", "file"),
     [Req("record", 1, "orchestrator", "executor", "k1", "a") EXCEPT !.attempt = 2],
     [Req("record", 1, "reviewer", "reviewer", "k1", "a") EXCEPT !.review = None],
     Req("comment", 1, "executor", "executor", "k1", "a")}

-----------------------------------------------------------------------------
(* Creating and relating issues: a version and a tracker that two records call   *)
(* b, and one whose name is a number.                                            *)

Opt == [op |-> "create", parent |-> None, ratio |-> None, due |-> None, version |-> None,
        tracker |-> None, assignee |-> FALSE]
PlanningRequests ==
  {[Opt EXCEPT !.parent = 1], [Opt EXCEPT !.version = "b", !.tracker = "b", !.parent = 1],
   [Opt EXCEPT !.version = "2", !.due = <<2100, 2, 29>>], [Opt EXCEPT !.version = "2", !.ratio = 100],
   [Opt EXCEPT !.version = "b", !.assignee = TRUE], [Opt EXCEPT !.parent = 0],
   [Opt EXCEPT !.op = "update", !.tracker = "b", !.due = <<2000, 2, 29>>],
   [op |-> "relate", from |-> 1, to |-> 2, type |-> "blocks", delay |-> FALSE],
   [op |-> "relate", from |-> 1, to |-> 2, type |-> "relates", delay |-> FALSE],
   [op |-> "relate", from |-> 1, to |-> 1, type |-> "relates", delay |-> FALSE],
   [op |-> "unrelate", row |-> 1]}

G == INSTANCE Planning WITH
        Kinds <- {"redmine", "local", "forgejo"}, Requests <- PlanningRequests,
        Ids <- {1, 2, 3}, Existing <- 1, Records <- {1, 2}, Names <- {"2", "b"},
        NumberOf <- ("2" :> 2) @@ ("b" :> None), MaxChanges <- 1, MaxFaults <- 1, proc <- worker
-----------------------------------------------------------------------------
(* Issue commands on a project of one's own and one of somebody else.  A body of  *)
(* two chunks, the first ending before a character that does not fit, becomes     *)
(* one of one chunk and then one that two chunks cannot hold.                     *)

I == INSTANCE Issues WITH
        Pages <- {2}, Kinds <- {"redmine"}, Numbers <- {1, 2},
        ProjectOf <- [a |-> "A", b |-> "B"], Checkout <- "a", Elsewhere <- "B",
        Texts <- <<<<3, 2, 1>>, <<1>>, <<3, 3, 2>>>>, MaxBytes <- 4, MaxChunks <- 2,
        Queries <- {{0}}, Limit <- 1, MaxCommands <- 2, MaxEdits <- 1, MaxFaults <- 1,
        proc <- worker
-----------------------------------------------------------------------------
(* Walks over every kind of list, against servers of every habit. *)

Habits == [cap : {1, 2, 3}, total : BOOLEAN, limit : BOOLEAN,
           link : {"none", "right", "always"}, sticky : BOOLEAN]

L == INSTANCE Paging WITH
        PageSize <- 2, MaxPages <- 5, MaxAttempts <- 2, Servers <- Habits,
        Kinds <- {"list", "find", "forgejo", "native"}, MaxItems <- 4, MaxChanges <- 1

Symmetry == Permutations(Procs)
-----------------------------------------------------------------------------
\* A part that is not explored stays where it starts: the records in one of their
\* first states, the variables of the others None.
RequestsInit ==
    /\ part \in {"records", "planning", "issues", "paging"}
    /\ Init /\ (part # "records" => provider = "local" /\ file = None)
    /\ \/ /\ part = "records"
          /\ worker = None /\ kind = None /\ versions = None /\ trackers = None
          /\ issues = None /\ relations = None /\ changes = None /\ faults = None
          /\ past = None /\ since = None /\ index = None /\ url = None /\ commands = None /\ edits = None
          /\ coll = None /\ server = None /\ walk = None /\ totals = None /\ outcome = None
       \/ /\ part = "planning" /\ G!Init
          /\ past = None /\ since = None /\ index = None /\ url = None /\ commands = None /\ edits = None
          /\ coll = None /\ server = None /\ walk = None /\ totals = None /\ outcome = None
       \/ /\ part = "issues" /\ I!Init
          /\ kind = None /\ versions = None /\ trackers = None /\ relations = None
          /\ changes = None /\ coll = None /\ server = None /\ walk = None
          /\ totals = None /\ outcome = None
       \/ /\ part = "paging" /\ L!Init
          /\ worker = None /\ kind = None /\ versions = None /\ trackers = None
          /\ issues = None /\ relations = None /\ faults = None /\ past = None
          /\ since = None
          /\ index = None /\ url = None /\ commands = None /\ edits = None

RequestsNext ==
    /\ UNCHANGED part
    /\ \/ /\ part = "records" /\ Next
          /\ UNCHANGED <<worker, kind, versions, trackers, issues, relations, changes,
                         faults, past, since, index, url, commands, edits, coll, server, walk,
                         totals, outcome>>
       \/ /\ part = "planning" /\ G!Next
          /\ UNCHANGED <<vars, past, since, index, url, commands, edits, coll, server, walk,
                         totals, outcome>>
       \/ /\ part = "issues" /\ I!Next
          /\ UNCHANGED <<vars, kind, versions, trackers, relations, changes, coll, server,
                         walk, totals, outcome>>
       \/ /\ part = "paging" /\ L!Next
          /\ UNCHANGED <<vars, worker, kind, versions, trackers, issues, relations, faults,
                         past, since, index, url, commands, edits>>

RequestsSpec == RequestsInit /\ [][RequestsNext]_<<part, world>>
-----------------------------------------------------------------------------
(* The properties of the other parts under the names the run checks; those of  *)
(* the records are checked under their own.                                    *)

\* A create that is silent about the parent has been related to it.
SuccessIsKept == [][part = "planning" => G!SilentStep]_planVars
\* No command writes to an issue of another project.
WritesStayInProject == [][part = "issues" => I!WriteStep]_issueVars
\* An issue lands on the version and tracker named, and is in the index, whole, as the
\* tracker had it; a batch accounts for every issue it was given.
FiledAsAsked ==
    /\ part = "planning" => G!LandsOnTheNamed
    /\ part = "issues" => I!FiledAsItWas /\ I!IndexIsWhole /\ I!TrackerHasTheWord
                           /\ I!BatchAccounts
\* A walk that ends well has seen the whole list, and so have the pages of record list.
WholeList ==
    /\ part = "records" => PagesMakeTheList
    /\ part = "paging" => L!WholeList /\ L!TotalsHold
=============================================================================

------------------------------ MODULE Planning ------------------------------
(***************************************************************************)
(* `issue create` and `issue update` with a tracker, a version and a parent *)
(* on Redmine, the automatic relation to the parent, and the relation       *)
(* commands (src/providers/redmine/planning.rs, impl/selectors.rs,          *)
(* relations.rs, src/lifecycle_auto.rs, src/cli/issue.rs).                  *)
(*                                                                         *)
(* Every lookup, write and answer is a request of its own: another command, *)
(* or somebody in Redmine, may act between two of them, and a request may   *)
(* fail before it is acted on or lose its answer after it was.              *)
(***************************************************************************)
EXTENDS Naturals, FiniteSets

CONSTANTS Procs,       \* concurrent commands
          Kinds,       \* the provider of the run: "redmine", "local", "forgejo"
          Requests,    \* the commands a process may be asked to run
          Ids,         \* issue numbers; the least free one is given out
          Existing,    \* the issue that is there from the start
          Records,     \* ids of versions and trackers
          Names,       \* names they bear
          NumberOf,    \* a name that is a number, as that number; else None
          MaxChanges,  \* bound: changes made by others
          MaxFaults,   \* bound: requests that fail or lose their answer
          Refused,     \* a value or a selector that is turned down
          None

VARIABLES kind,        \* the provider
          versions,    \* version id -> name, None when there is no such version
          trackers,    \* tracker id -> name, None when there is no such tracker
          issues,      \* issue number -> its fields, None when free
          relations,   \* the relation rows: [id, from, to, type]
          proc,        \* process -> where its command stands
          changes,
          faults

vars == <<kind, versions, trackers, issues, relations, proc, changes, faults>>

Types == {"relates", "blocks", "precedes"}

(***************************************************************************)
(* The raw options.  Text that is no number fails like a number out of range.*)
(***************************************************************************)
ParsePositive(v) == IF v > 0 THEN v ELSE Refused

\* parse_done_ratio: 0 is fine, above 100 is not.
ParseDoneRatio(v) == IF v <= 100 THEN v ELSE Refused

LeapYear(y) == (y % 4 = 0 /\ y % 100 # 0) \/ y % 400 = 0

DaysInMonth(y, mo) == IF mo = 2 THEN (IF LeapYear(y) THEN 29 ELSE 28)
                      ELSE IF mo \in {4, 6, 9, 11} THEN 30 ELSE 31

\* parse_date: <<year, month, day>> with the padding checked by the caller's set.
ParseDate(d) == IF d[2] \in 1..12 /\ d[3] \in 1..DaysInMonth(d[1], d[2]) THEN d ELSE Refused

Parsed(parse(_), v) == IF v = None THEN None ELSE parse(v)

\* The fields of `resolve_planning` that need no request (the start date is
\* read like the due date, the estimated hours like the ratio).
LocalPlanning(o) ==
    [parent |-> Parsed(ParsePositive, o.parent), ratio |-> Parsed(ParseDoneRatio, o.ratio),
     due |-> Parsed(ParseDate, o.due)]

Malformed(o) == \E f \in {"parent", "ratio", "due"} : LocalPlanning(o)[f] = Refused

HasPlanning(o) == \E f \in {"parent", "ratio", "due", "version"} : o[f] # None

(***************************************************************************)
(* Selectors: a number names the record with that id, never one that bears  *)
(* it as a name; a name must be borne by exactly one record.                *)
(***************************************************************************)
Bearing(catalogue, name) == {r \in Records : catalogue[r] = name}

Select(catalogue, value) ==
    IF NumberOf[value] # None
    THEN IF NumberOf[value] \in Records /\ catalogue[NumberOf[value]] # None
         THEN NumberOf[value] ELSE Refused
    ELSE IF Cardinality(Bearing(catalogue, value)) = 1
         THEN CHOOSE r \in Bearing(catalogue, value) : TRUE
         ELSE Refused

(***************************************************************************)
(* A command's progress                                                    *)
(***************************************************************************)
Ready == [at |-> "idle", cmd |-> None, version |-> None, tracker |-> None, number |-> None,
          wrote |-> FALSE, answer |-> None]

Go(p, to) == proc' = [proc EXCEPT ![p].at = to]
End(p, answer) == proc' = [proc EXCEPT ![p].at = "done", ![p].answer = answer]

Fail == faults < MaxFaults /\ faults' = faults + 1
Fine == faults' = faults

UnchangedTracker == UNCHANGED <<kind, versions, trackers, issues, relations, changes>>

Idle(p) == proc[p].at = "idle"

\* Where a create or an update goes once the local checks have passed.
Looked(o) == IF o.version # None THEN "version" ELSE "checked"

\* Relations exist on Redmine only; an issue is not related to itself, and a
\* delay belongs to "precedes".
RelationRefused(c) ==
    \/ kind # "redmine"
    \/ c.op = "relate" /\ (c.from = c.to \/ (c.delay /\ c.type # "precedes"))

Start(p) ==
    /\ Idle(p)
    /\ \E c \in Requests :
          LET refuse == [Ready EXCEPT !.at = "done", !.cmd = c, !.answer = "refused"]
              begin(at) == [Ready EXCEPT !.at = at, !.cmd = c]
          IN proc' = [proc EXCEPT ![p] =
                IF c.op \in {"create", "update"}
                THEN IF kind = "local" \/ ~HasPlanning(c) THEN begin("checked")
                     ELSE IF kind = "forgejo" \/ Malformed(c) THEN refuse
                     ELSE begin(IF c.op = "create" /\ c.version # None THEN "peek" ELSE Looked(c))
                ELSE IF RelationRefused(c) THEN refuse
                ELSE begin(c.op)]
    /\ Fine /\ UnchangedTracker

\* resolve_planning's lookup of the versions.  `issue create` makes it twice:
\* once for the parent it hands to the relation, once inside create_issue.
VersionLookup(p) ==
    /\ proc[p].at \in {"peek", "version"}
    /\ UnchangedTracker
    /\ LET found == Select(versions, proc[p].cmd.version)
       IN \/ Fine /\ found = Refused /\ End(p, "refused")
          \/ Fine /\ found # Refused
                  /\ proc' = [proc EXCEPT ![p].at = IF @ = "peek" THEN "version" ELSE "checked",
                                          ![p].version = found]
          \/ Fail /\ End(p, "failed")

\* reject_explicit_assignee, and what a provider without trackers says.
Checked(p) ==
    /\ proc[p].at = "checked"
    /\ LET c == proc[p].cmd
           specific == c.tracker # None \/ (HasPlanning(c) /\ kind # "local")
       IN IF c.op = "create" /\ c.assignee THEN End(p, "refused")
          ELSE IF kind = "forgejo" /\ specific THEN End(p, "refused")
          ELSE Go(p, IF kind = "redmine" /\ c.tracker # None THEN "tracker" ELSE "write")
    /\ Fine /\ UnchangedTracker

TrackerLookup(p) ==
    /\ proc[p].at = "tracker"
    /\ UnchangedTracker
    /\ LET found == Select(trackers, proc[p].cmd.tracker)
       IN \/ Fine /\ found = Refused /\ End(p, "refused")
          \/ Fine /\ found # Refused
                  /\ proc' = [proc EXCEPT ![p].at = "write", ![p].tracker = found]
          \/ Fail /\ End(p, "failed")

Free == {n \in Ids : issues[n] = None}

Fields(p) ==
    [by |-> p, version |-> proc[p].version, tracker |-> proc[p].tracker,
     parent |-> IF kind = "redmine" THEN proc[p].cmd.parent ELSE None]

\* The server takes a reference only when what it names is there.
Valid(f) == /\ f.version # None => versions[f.version] # None
            /\ f.tracker # None => trackers[f.tracker] # None
            /\ f.parent # None => f.parent \in Ids /\ issues[f.parent] # None

\* The one request that writes: POST issues.json with every field in it.
Post(p) ==
    /\ proc[p].at = "write" /\ proc[p].cmd.op = "create"
    /\ UNCHANGED <<kind, versions, trackers, relations, changes>>
    /\ \/ /\ Free # {} /\ Valid(Fields(p))
          /\ LET n == CHOOSE i \in Free : \A j \in Free : i <= j
             IN /\ issues' = [issues EXCEPT ![n] = Fields(p)]
                /\ \/ Fine /\ proc' = [proc EXCEPT ![p].number = n, ![p].wrote = TRUE,
                                          ![p].at = IF kind = "redmine"
                                                       /\ proc[p].cmd.parent # None
                                                    THEN "related" ELSE "done",
                                          ![p].answer = "ok"]
                   \/ Fail /\ proc' = [proc EXCEPT ![p].wrote = TRUE, ![p].at = "done",
                                                   ![p].answer = "failed"]
       \/ /\ Free = {} \/ ~Valid(Fields(p)) \/ faults < MaxFaults
          /\ IF Free # {} /\ Valid(Fields(p)) THEN Fail ELSE Fine
          /\ End(p, "failed") /\ UNCHANGED issues

\* PUT issues/<n>.json: the body, the tracker and the planning fields at once;
\* a field that was not asked for keeps its value.
Put(p) ==
    /\ proc[p].at = "write" /\ proc[p].cmd.op = "update"
    /\ UNCHANGED <<kind, versions, trackers, relations, changes>>
    /\ LET f == Fields(p)
           kept(new, old) == IF new = None THEN old ELSE new
           merged == [by |-> p, version |-> kept(f.version, issues[Existing].version),
                      tracker |-> kept(f.tracker, issues[Existing].tracker),
                      parent |-> kept(f.parent, issues[Existing].parent)]
       IN \/ /\ Valid(f)
             /\ issues' = [issues EXCEPT ![Existing] = merged]
             /\ \/ Fine /\ proc' = [proc EXCEPT ![p].wrote = TRUE, ![p].at = "done",
                                                ![p].number = Existing, ![p].answer = "ok"]
                \/ Fail /\ proc' = [proc EXCEPT ![p].wrote = TRUE, ![p].at = "done",
                                                ![p].answer = "failed"]
          \/ /\ ~Valid(f) \/ faults < MaxFaults
             /\ IF Valid(f) THEN Fail ELSE Fine
             /\ End(p, "failed") /\ UNCHANGED issues

(***************************************************************************)
(* Relations.  A row is stored once, from one issue to another; seen from   *)
(* its target the type reads inverted.                                      *)
(***************************************************************************)
Inverse(type) == CASE type = "blocks" -> "blocked" [] type = "precedes" -> "follows"
                   [] OTHER -> "relates"

IntoSummary(row, viewpoint) ==
    [id |-> row.id, type |-> IF row.from = viewpoint THEN row.type ELSE Inverse(row.type),
     ends |-> {row.from, row.to}]

ListRelations(n) == {IntoSummary(row, n) : row \in {r \in relations : n \in {r.from, r.to}}}

NextRow == IF relations = {} THEN 1 ELSE 1 + CHOOSE i \in {r.id : r \in relations} :
                                                  \A r \in relations : r.id <= i

Row(from, to, type) == [id |-> NextRow, from |-> from, to |-> to, type |-> type]

\* Mutant: a relation of any type to the parent counts as the link.
LinkOfAnyType(summaries, parent) == \E s \in summaries : parent \in s.ends

AlreadyLinked(summaries, parent) ==
    \E s \in summaries : s.type = "relates" /\ parent \in s.ends

\* auto_relation_redmine: look first, then create.  The issue is there already,
\* so a failure is only a warning.
RelatedLookup(p) ==
    /\ proc[p].at = "related"
    /\ UnchangedTracker
    /\ \/ Fine /\ IF proc[p].cmd.parent = proc[p].number THEN End(p, "warned")
                  ELSE IF AlreadyLinked(ListRelations(proc[p].number), proc[p].cmd.parent)
                       THEN End(p, "ok")
                       ELSE Go(p, "relating")
       \/ Fail /\ End(p, "warned")

CanRelate(from, to) == from \in Ids /\ to \in Ids /\ issues[from] # None /\ issues[to] # None

Relating(p) ==
    /\ proc[p].at = "relating"
    /\ UNCHANGED <<kind, versions, trackers, issues, changes>>
    /\ LET from == proc[p].number
           to == proc[p].cmd.parent
       IN \/ /\ CanRelate(from, to)
             /\ relations' = relations \cup {Row(from, to, "relates")}
             /\ \/ Fine /\ End(p, "ok")
                \/ Fail /\ End(p, "warned")
          \/ /\ ~CanRelate(from, to) \/ faults < MaxFaults
             /\ IF CanRelate(from, to) THEN Fail ELSE Fine
             /\ End(p, "warned") /\ UNCHANGED relations

\* `relation create`: no look beforehand.
Relate(p) ==
    /\ proc[p].at = "relate"
    /\ UNCHANGED <<kind, versions, trackers, issues, changes>>
    /\ LET c == proc[p].cmd
       IN \/ /\ CanRelate(c.from, c.to)
             /\ relations' = relations \cup {Row(c.from, c.to, c.type)}
             /\ proc' = [proc EXCEPT ![p].at = "done", ![p].wrote = TRUE, ![p].answer = "ok"]
             /\ Fine
          \/ /\ ~CanRelate(c.from, c.to)
             /\ End(p, "failed") /\ UNCHANGED relations /\ Fine

\* `relation delete`: by the row's id.
Unrelate(p) ==
    /\ proc[p].at = "unrelate"
    /\ UNCHANGED <<kind, versions, trackers, issues, changes>>
    /\ LET gone == {r \in relations : r.id = proc[p].cmd.row}
       IN /\ relations' = relations \ gone
          /\ proc' = [proc EXCEPT ![p].at = "done", ![p].wrote = gone # {},
                                  ![p].answer = IF gone = {} THEN "failed" ELSE "ok"]
    /\ Fine

(***************************************************************************)
(* Somebody in Redmine renames, adds or removes a version or a tracker.     *)
(***************************************************************************)
Catalogue ==
    /\ kind = "redmine" /\ changes < MaxChanges
    /\ changes' = changes + 1
    /\ \E r \in Records, name \in Names \cup {None} :
          \/ versions' = [versions EXCEPT ![r] = name] /\ UNCHANGED trackers
          \/ trackers' = [trackers EXCEPT ![r] = name] /\ UNCHANGED versions
    /\ UNCHANGED <<kind, issues, relations, proc, faults>>

Blank == [by |-> None, version |-> None, tracker |-> None, parent |-> None]

Init ==
    /\ kind \in Kinds
    /\ versions \in [Records -> Names \cup {None}]
    /\ trackers = versions
    /\ issues = [n \in Ids |-> IF n = Existing THEN Blank ELSE None]
    /\ relations = {}
    /\ proc = [p \in Procs |-> Ready]
    /\ changes = 0
    /\ faults = 0

Step(p) == Start(p) \/ VersionLookup(p) \/ Checked(p) \/ TrackerLookup(p) \/ Post(p) \/ Put(p)
           \/ RelatedLookup(p) \/ Relating(p) \/ Relate(p) \/ Unrelate(p)

Next == Catalogue \/ \E p \in Procs : Step(p)

Spec == Init /\ [][Next]_vars

(***************************************************************************)
(* Properties                                                              *)
(***************************************************************************)

\* Whoever asked for a version or tracker by name gets a record that bore that
\* name alone when it was looked up, or no write at all: when the answer is a
\* success and nobody changed the catalogues, the issue's records bear exactly
\* the requested names (selectors.rs: "must land on exactly one").  A command
\* that refused wrote no issue (planning.rs: "rejected before any write").
LandsOnTheNamed ==
    /\ \A p \in Procs, n \in Ids :
          proc[p].answer = "refused" /\ issues[n] # None => issues[n].by # p
    /\ \A p \in Procs : proc[p].answer \in {"ok", "warned"} /\ proc[p].cmd.op \in {"create", "update"}
                        /\ kind = "redmine" /\ changes = 0 =>
           LET c == proc[p].cmd
               named(catalogue, value, r) ==
                   value # None => \/ NumberOf[value] = r
                                   \/ NumberOf[value] = None /\ Bearing(catalogue, value) = {r}
           IN /\ named(versions, c.version, proc[p].version)
              /\ named(trackers, c.tracker, proc[p].tracker)

\* A create that names a parent and ends without a warning leaves the child
\* related to that parent, also when others relate the two in another way, or
\* remove relations, while it runs (auto_relation_redmine: the link it finds,
\* or the one it makes, is there).
SilentStep ==
    \A p \in Procs :
       proc[p].at \in {"related", "relating"} /\ proc'[p].answer = "ok" /\ proc'[p].at = "done"
       => \E r \in relations' : /\ r.type = "relates"
                                /\ {r.from, r.to} = {proc[p].number, proc[p].cmd.parent}

=============================================================================

----------------------------- MODULE MCAdapter -----------------------------
(* The two features of the OpenCode adapter, one instance each.  They run *)
(* in one process and share no state, so every behaviour of the adapter is  *)
(* an interleaving of a behaviour of each; what either promises is checked  *)
(* by running one of them: feature says which.                              *)
EXTENDS Placement, Integers, Sequences

CONSTANTS sp, sk, p1, k1, w1, w2, main, f1, s1

VARIABLES
    feature,
    form, home, gone, seen, skew, pending, settled, deletedSessions, disposed,
    streamEnded, entry, task, spawns, allowed, cli, doc, told, row, sent

MCParent == [s \in Sessions |-> IF s = sk THEN sp ELSE None]

Txt(n) == [n |-> n, real |-> n, c1 |-> 0, lone |-> FALSE]
O(l, d) == [label |-> Txt(l), description |-> Txt(d)]
F(d, t, os) == [description |-> Txt(d), title |-> Txt(t), options |-> os]
C(n, fs) == [sid |-> Txt(n), fields |-> fs]

\* The same text with its first characters C1 controls, or a lone surrogate.
C1(t, k) == [t EXCEPT !.c1 = k]
Lone(t) == [t EXCEPT !.lone = TRUE]

\* Forms at the limits: the budget runs out in a text, a header, a choice;
\* a text or a choice is empty; there is one question or choice too many; the
\* session id is missing; C1 controls are part of a text, all of a choice, all of a
\* question or all but the ellipsis of one; a surrogate is alone.
Edges ==
    { C(1, <<F(3, 0, <<O(1, 1), O(0, 0), O(2, 0), O(1, 0)>>)>>),
      C(1, <<F(4, 2, <<O(2, 2)>>), F(2, 1, <<>>), F(1, 0, <<>>)>>),
      C(1, <<F(0, 0, <<>>), F(0, 2, <<O(2, 2)>>), F(4, 1, <<O(1, 2)>>)>>),
      C(0, <<F(4, 1, <<>>), F(3, 1, <<O(1, 1)>>)>>),
      C(1, <<[F(2, 0, <<[O(1, 0) EXCEPT !.label = C1(Txt(1), 1)]>>)
                 EXCEPT !.description = C1(Txt(2), 1)],
             [F(4, 0, <<>>) EXCEPT !.description = C1(Txt(4), 2)]>>),
      C(1, <<[F(2, 0, <<>>) EXCEPT !.description = C1(Txt(2), 2)]>>),
      C(1, <<F(2, 0, <<>>), [F(3, 1, <<>>) EXCEPT !.title = Lone(Txt(1))]>>) }

Unset == [enabled |-> "unset", channel |-> "unset"]
On(channel) == [enabled |-> "true", channel |-> channel]
Setting(env, stored, given) ==
    [env |-> env, stored |-> stored, given |-> given, features |-> {}]
\* Unconfigured; switched off by the environment; a channel that
\* lacks a setting, is complete, or was not built.
Settings ==
    { Setting(Unset, Unset, {}),
      Setting([Unset EXCEPT !.enabled = "false"], On("ntfy"), {"base_url", "topic"}),
      Setting(Unset, On("ntfy"), {"topic"}),
      Setting(Unset, On("ntfy"), {"base_url", "topic"}),
      Setting(Unset, On("email"), {"smtp_host", "from", "to"}) }

Q == INSTANCE Questions WITH
        Forms <- {f1}, Sessions <- {s1},
        SessionOf <- [f \in {f1} |-> s1], ContentsOf <- [f \in {f1} |-> Edges],
        Configs <- Settings, Project <- Txt(1), Unknown <- Txt(3),
        Delay <- 2, MaxSkew <- 1, MaxSeen <- 2, MaxQuestions <- 2, MaxChoices <- 2,
        Budget <- 10, SessionCap <- 3, TitleCap <- 1, ProjectCap <- 1,
        HeaderCap <- 1, TextCap <- 3, LabelCap <- 1, DescCap <- 2

ASSUME QuestionBounds == Q!Bounds

qvars == <<form, home, gone, seen, skew, pending, settled, deletedSessions, disposed,
           streamEnded, entry, task, spawns, allowed, cli, doc, told, row, sent>>
-----------------------------------------------------------------------------
AdapterInit ==
    /\ feature \in {"placement", "questions"}
    /\ Init
    /\ Q!Init
    /\ feature = "placement" => home = [s \in {s1} |-> "own"] /\ ~allowed

AdapterNext ==
    /\ UNCHANGED feature
    /\ \/ feature = "placement" /\ Next /\ UNCHANGED qvars
       \/ feature = "questions" /\ Q!Next /\ UNCHANGED vars

Asks(A) == feature = "questions" /\ A /\ UNCHANGED <<feature, vars>>
Places(A) == feature = "placement" /\ A /\ UNCHANGED <<feature, qvars>>

\* Questions!Fairness and Placement!Fairness, for the feature that runs.
AdapterFairness ==
    /\ \A p \in Prompts : /\ WF_vars(Places(Step(p)))
                          /\ WF_vars(Places(HostAnswers(p)))
    /\ WF_qvars(Asks(Q!Tick))
    /\ \A f \in {f1} :
         /\ WF_qvars(Asks(Q!OnTimer(f))) /\ WF_qvars(Asks(Q!ResolveLocation(f)))
         /\ WF_qvars(Asks(Q!AfterReady(f))) /\ WF_qvars(Asks(Q!AfterTitle(f)))
         /\ WF_qvars(Asks(Q!WriteStdin(f) \/ Q!WriteFails(f)))
         /\ WF_qvars(Asks(Q!AwaitExit(f))) /\ WF_qvars(Asks(Q!Timeout(f)))

AdapterSpec ==
    AdapterInit /\ [][AdapterNext]_<<feature, vars, qvars>> /\ AdapterFairness
-----------------------------------------------------------------------------
(* The properties of Questions under the names the run checks.             *)

\* A question form is told at most once, and what reaches its reader is whole.
ToldWhole == Q!ToldWhole /\ Q!ToldOnce
\* No child is started for a form that is over.
NoStaleReminder == Q!NoStaleReminder
\* Every pending form is told or dropped.
PendingEnds == Q!PendingEnds
=============================================================================

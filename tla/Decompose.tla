----------------------------- MODULE Decompose -----------------------------
(***************************************************************************)
(* _maybe_decompose() (routing_decompose.py): a long query is tried on one  *)
(* cheap worker and judged; if the judge asks for it, a planner splits the  *)
(* query, each subtask is answered in turn and the answers are merged.      *)
(*                                                                         *)
(* _call_worker() does not raise: a failed call returns the text of an      *)
(* error, "[error:...", as its answer.  What an answer says is left out     *)
(* but for that.  `stage' is the await at which the coroutine is suspended. *)
(***************************************************************************)
EXTENDS Integers, Sequences, FiniteSets

CONSTANTS
    Ids,            \* names the planner may give to subtasks
    MaxParts        \* bound: subtasks of a plan

Answers == {"text", "error"}
Gates == {"short", "hard", "whole", "split"}
Modes == {"off", "on", "auto"}
Plans == UNION {[1..n -> Ids] : n \in 0..MaxParts}
NoPart == [of |-> 0, is |-> "text"]

VARIABLES
    stage,          \* "off" | "cheap" | "judge" | "plan" | "part" | "again" | "over"
    cheap,          \* what the cheap worker answered
    plan,           \* ids of the subtasks, in the planner's order
    at,             \* the subtask in flight
    parts,          \* parts[id]: the subtask answered under this id, and the answer
    path            \* the "path" of the result; "none" stands for None, "raised"
                    \* for an exception

dvars == <<stage, cheap, plan, at, parts, path>>

DTypeOK ==
    /\ stage \in {"off", "cheap", "judge", "plan", "part", "again", "over"}
    /\ cheap \in Answers
    /\ plan \in Plans
    /\ at \in 0..MaxParts
    /\ parts \in [Ids -> [of : 0..MaxParts, is : Answers]]
    /\ path \in {"none", "hard", "cheap_kept", "forced", "triggered", "fallback", "raised"}

DInit ==
    /\ stage = "off" /\ cheap = "text" /\ plan = <<>> /\ at = 0
    /\ parts = [i \in Ids |-> NoPart] /\ path = "none"

\* decompose=on plans at once.  auto looks at the query: one too short, about
\* an image, or with parts that hang together is left to a single worker;
\* hard design is handed back for a stronger one.
FirstStage(mode, gate) ==
    IF mode = "on" THEN "plan"
    ELSE IF mode = "auto" /\ gate = "split" THEN "cheap" ELSE "over"

BeginsDecompose(mode, gate) ==
    /\ stage = "off"
    /\ stage' = FirstStage(mode, gate)
    /\ path' = IF mode = "auto" /\ gate = "hard" THEN "hard" ELSE "none"
    /\ UNCHANGED <<cheap, plan, at, parts>>

\* _cheap_try(): the answer is looked at for "[cheap_try_err", which only an
\* exception of _call_worker() would leave there.
CheapAnswers ==
    /\ stage = "cheap"
    /\ cheap' \in Answers
    /\ stage' = "judge"
    /\ UNCHANGED <<plan, at, parts, path>>

\* _judge_quality(): a judge that cannot be understood keeps the cheap answer.
JudgeAnswers ==
    /\ stage = "judge"
    /\ \/ stage' = "over" /\ path' = "cheap_kept"
       \/ stage' = "plan" /\ UNCHANGED path
    /\ UNCHANGED <<cheap, plan, at, parts>>

\* The planner fails: no key, an HTTP error, a time-out, no JSON.
PlanFails(mode) ==
    /\ stage = "plan"
    /\ stage' = "over"
    /\ path' = IF mode = "on" THEN "none" ELSE "fallback"
    /\ UNCHANGED <<cheap, plan, at, parts>>

Done(mode) == IF mode = "on" THEN "forced" ELSE "triggered"

\* The loop over the plan p turns to subtask n.  It is no object if the planner
\* sent a JSON object instead of a list, or a list with something else in it;
\* nothing catches what that raises.
TurnsTo(mode, p, n) ==
    \/ n > Len(p) /\ stage' = "over" /\ path' = Done(mode) /\ UNCHANGED at
    \/ n <= Len(p) /\ stage' = "part" /\ at' = n /\ UNCHANGED path
    \/ n <= Len(p) /\ stage' = "over" /\ path' = "raised" /\ UNCHANGED at

PlanArrives(mode) ==
    /\ stage = "plan"
    /\ plan' \in Plans
    /\ TurnsTo(mode, plan', 1)
    /\ UNCHANGED <<cheap, parts>>

\* Fault: a subtask is answered under the id of the one before it.
KeepsShifted(mode, a) ==
    /\ parts' = [parts EXCEPT ![plan[IF at = 1 THEN 1 ELSE at - 1]] = [of |-> at, is |-> a]]
    /\ TurnsTo(mode, plan, at + 1)

\* The answer to the subtask in flight is kept under its id; on to the next.
Keeps(mode, a) ==
    /\ parts' = [parts EXCEPT ![plan[at]] = [of |-> at, is |-> a]]
    /\ TurnsTo(mode, plan, at + 1)

PartAnswers(mode) ==
    /\ stage = "part"
    /\ \/ Keeps(mode, "text")
       \/ stage' = "again" /\ UNCHANGED <<at, parts, path>>
    /\ UNCHANGED <<cheap, plan>>

\* The second worker's answer is kept whatever it is.
AgainAnswers(mode) ==
    /\ stage = "again"
    /\ \E a \in Answers : Keeps(mode, a)
    /\ UNCHANGED <<cheap, plan>>

DNext(mode) ==
    \/ CheapAnswers \/ JudgeAnswers
    \/ PlanFails(mode) \/ PlanArrives(mode)
    \/ PartAnswers(mode) \/ AgainAnswers(mode)

----------------------------------------------------------------------------
\* The merged text: one part per subtask, in the planner's order.
Combined == [i \in DOMAIN plan |-> parts[plan[i]]]

\* Does the content handed back begin with "[error:"?
ContentIsError ==
    IF path \in {"cheap_kept", "fallback"} THEN cheap = "error"
    ELSE plan # <<>> /\ Combined[1].is = "error"

\* An empty plan merges to an empty text.
Answered == path \in {"cheap_kept", "fallback"} \/ plan # <<>>

DistinctIds == \A i, j \in DOMAIN plan : plan[i] = plan[j] => i = j

\* A merged answer has the answer to each subtask, at its place, provided the
\* planner named the subtasks apart: routing_decompose.py keys the parts by the
\* planner's ids and joins them in the planner's order.
MergedWhole ==
    path \in {"forced", "triggered"} /\ DistinctIds =>
        \A i \in DOMAIN plan : Combined[i].of = i
============================================================================

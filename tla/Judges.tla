------------------------------- MODULE Judges -------------------------------
(***************************************************************************)
(* A panel of models judges a worker's answer against the oracle's          *)
(* (judge_quality.py, judge_calibration.py, judge.py): which models sit on   *)
(* the panel, the oracle's answer of the hour, the table of verdicts that    *)
(* saves a judge a second call, judges that fail, and the score that comes   *)
(* of it.  Observations of the same query overlap at every call.  That the   *)
(* table itself fails is left out.                                         *)
(***************************************************************************)
EXTENDS Integers, Sequences, FiniteSets, Functions

CONSTANTS
    JudgeModels,      \* WORKERS, in their order
    JudgePools,       \* the sets of enabled workers to look at
    FamilyOf,
    OracleModel,
    PreferredJudges,  \* JUDGE_PANEL
    PanelLimit,
    MinPanel,         \* MIN_JUDGE_PANEL_SIZE
    Observations,
    Sampled,          \* the workers whose answers are sampled
    References,       \* answers the oracle may give
    Replies,          \* what the judges say, of A, B and TIE
    LastHour          \* bound: the clock's hours

ASSUME JudgeAssumption ==
    /\ MinPanel \in Nat \ {0} /\ PanelLimit \in Nat \ {0} /\ LastHour \in Nat
    /\ Replies \subseteq {"A", "B", "TIE"} /\ "none" \notin References
    /\ JudgeModels \in Seq(Range(JudgeModels)) /\ PreferredJudges \in Seq(Range(PreferredJudges))
    /\ IsInjective(JudgeModels) /\ IsInjective(PreferredJudges)
    /\ \A pool \in JudgePools : pool \subseteq Range(JudgeModels) \ {"none"}

\* What the numbers of config.py are to each other: one judge of a panel may
\* fail, and the rest outvote it.
OneMayFail == MinPanel >= 2 /\ PanelLimit <= MinPanel + 1

VARIABLES
    judgePool,    \* the enabled workers
    observation,  \* each maybe_judge_and_record() under way
    verdictOf,    \* the table judge_cache: one row for a query and its two answers
    oracleCache,  \* _lru, as its newest entry
    hour,
    said          \* history: what each judge has said of each reference

judgeVars == <<judgePool, observation, verdictOf, oracleCache, hour, said>>

Ballots == {"A", "B", "TIE"}
Nothing == "none"
New == [stage |-> "new", worker |-> Nothing]
IsJudging(ob) ==
    /\ ob \in [stage : {"judging"}, worker : judgePool, reference : References,
               votes : [DOMAIN ob.votes -> Ballots \cup {"MISSING", "unasked", "asked"}]]
    /\ DOMAIN ob.votes \subseteq judgePool
IsObservation(ob) ==
    \/ ob = New
    \/ ob \in [stage : {"oracle", "missing", "skipped"}, worker : judgePool]
    \/ ob.stage = "judging" /\ IsJudging(ob)
    \/ ob \in [stage : {"scored"}, worker : judgePool, score : {0, 50, 100}]

JudgeTypeOK ==
    /\ judgePool \in JudgePools
    /\ hour \in 0..LastHour
    /\ oracleCache \in [hour : 0..LastHour, text : References \cup {Nothing}]
    /\ verdictOf \in [References -> [by : Range(JudgeModels) \cup {Nothing}, verdict : Ballots \cup {Nothing}]]
    /\ said \in [Range(JudgeModels) \X References -> SUBSET Ballots]
    /\ observation \in [Observations -> {observation[o] : o \in Observations}]
    /\ \A o \in Observations : IsObservation(observation[o])

JudgeInit ==
    /\ judgePool \in JudgePools
    /\ observation = [o \in Observations |-> New]
    /\ verdictOf = [ref \in References |-> [by |-> Nothing, verdict |-> Nothing]]
    /\ oracleCache = [hour |-> 0, text |-> Nothing]
    /\ hour = 0
    /\ said = [jr \in Range(JudgeModels) \X References |-> {}]

-----------------------------------------------------------------------------
(* The panel *)

Excluded(worker) == {OracleModel, worker}

\* The place among the preferred judges and, after them, the other workers.
Position(list, j) == CHOOSE i \in DOMAIN list : list[i] = j
Place(j) == IF j \in Range(PreferredJudges) THEN Position(PreferredJudges, j)
            ELSE Len(PreferredJudges) + Position(JudgeModels, j)

\* The first of each family in turn, then the rest.
Seat(j, fit) ==
    LET first == \A k \in fit : FamilyOf[k] = FamilyOf[j] => Place(j) <= Place(k)
    IN  Place(j) + IF first THEN 0 ELSE Len(PreferredJudges) + Len(JudgeModels)
Panel(worker) ==
    LET fit == judgePool \ Excluded(worker)
    IN  {j \in fit : Cardinality({k \in fit : Seat(k, fit) < Seat(j, fit)}) < PanelLimit}

-----------------------------------------------------------------------------
(* The tally *)

Support(votes, ballot) == Cardinality({j \in DOMAIN votes : votes[j] = ballot})

\* The ballot with most votes, the first in the order of letters among equals.
\* A judge that gave no reply has voted "MISSING" here.
LetterOrder == <<"A", "B", "MISSING", "TIE">>
Majority(votes) ==
    LET has(i) == Support(votes, LetterOrder[i])
        first == CHOOSE i \in DOMAIN LetterOrder :
            /\ \A k \in DOMAIN LetterOrder : has(k) <= has(i)
            /\ \A k \in 1..(i - 1) : has(k) < has(i)
    IN LetterOrder[first]

\* Fault: a judge without a reply counts towards the quorum.
SucceededOrSilent(votes) == DOMAIN votes
Succeeded(votes) == {j \in DOMAIN votes : votes[j] \in Ballots}

ScoreOf(ballot) == CASE ballot = "A" -> 100 [] ballot = "B" -> 0 [] OTHER -> 50

-----------------------------------------------------------------------------
(* An observation *)

Becomes(o, ob) == observation' = [observation EXCEPT ![o] = ob]

\* The panel is called as soon as the reference is there.
Convenes(o, worker, text) ==
    LET panel == Panel(worker) IN
    Becomes(o, IF Cardinality(panel) < MinPanel
               THEN [stage |-> "missing", worker |-> worker]
               ELSE [stage |-> "judging", worker |-> worker, reference |-> text,
                     votes |-> [j \in panel |-> "unasked"]])

\* The oracle's cache is read by the hour.
OracleKnown == oracleCache.text # Nothing /\ oracleCache.hour = hour

\* An answer is sampled; which queries are is a hash of their text.
Samples(o) ==
    /\ observation[o].stage = "new"
    /\ \E worker \in judgePool \cap Sampled :
         IF OracleKnown THEN Convenes(o, worker, oracleCache.text)
                        ELSE Becomes(o, [stage |-> "oracle", worker |-> worker])
    /\ UNCHANGED <<judgePool, verdictOf, oracleCache, hour, said>>

\* The oracle answers, or fails and there is nothing to compare with.
OracleAnswers(o) ==
    /\ observation[o].stage = "oracle"
    /\ \/ /\ Becomes(o, [stage |-> "skipped", worker |-> observation[o].worker])
          /\ UNCHANGED oracleCache
       \/ \E text \in References :
            /\ oracleCache' = [hour |-> hour, text |-> text]
            /\ Convenes(o, observation[o].worker, text)
    /\ UNCHANGED <<judgePool, verdictOf, hour, said>>

\* A row counts only for the judge that wrote it.
LookedUp(j, reference) ==
    IF verdictOf[reference].by = j THEN verdictOf[reference].verdict ELSE "asked"

\* The panel's tasks start together and look their verdicts up before anything
\* else runs.
JudgesLook(o) ==
    /\ observation[o].stage = "judging"
    /\ LET ob == observation[o] IN
       /\ \A j \in DOMAIN ob.votes : ob.votes[j] = "unasked"
       /\ Becomes(o, [ob EXCEPT !.votes = [j \in DOMAIN ob.votes |-> LookedUp(j, ob.reference)]])
    /\ UNCHANGED <<judgePool, verdictOf, oracleCache, hour, said>>

Kept(reply) == IF reply = "MISSING" THEN Nothing ELSE reply

\* The row's key is made of the query and both answers but not of the judge: a
\* verdict replaces the one before it, whoever gave it.
Stored(j, reference, verdict) ==
    verdictOf' = [verdictOf EXCEPT ![reference] =
                    IF verdict = Nothing THEN @ ELSE [by |-> j, verdict |-> verdict]]

\* It replies, and a reply without a letter is a TIE; or it does not, which is
\* never stored.  What it said is stored at once.
JudgeReplies(o, j) ==
    /\ observation[o].stage = "judging"
    /\ j \in DOMAIN observation[o].votes /\ observation[o].votes[j] = "asked"
    /\ LET reference == observation[o].reference IN
       \E reply \in Replies \cup {"MISSING"} :
         /\ observation' = [observation EXCEPT ![o].votes[j] = reply]
         /\ said' = [said EXCEPT ![<<j, reference>>] = @ \cup ({reply} \cap Ballots)]
         /\ Stored(j, reference, Kept(reply))
    /\ UNCHANGED <<judgePool, oracleCache, hour>>

Tallies(o) ==
    /\ observation[o].stage = "judging"
    /\ LET ob == observation[o] IN
       /\ \A j \in DOMAIN ob.votes : ob.votes[j] \notin {"unasked", "asked"}
       /\ Becomes(o, IF Cardinality(Succeeded(ob.votes)) < MinPanel
                     THEN [stage |-> "missing", worker |-> ob.worker]
                     ELSE [stage |-> "scored", worker |-> ob.worker, score |-> ScoreOf(Majority(ob.votes))])
    /\ UNCHANGED <<judgePool, verdictOf, oracleCache, hour, said>>

\* Bound: the hour changes only while there is somebody left to read it.
HourPasses ==
    /\ hour < LastHour
    /\ \E o \in Observations : observation[o].stage \in {"new", "oracle"}
    /\ hour' = hour + 1
    /\ UNCHANGED <<judgePool, observation, verdictOf, oracleCache, said>>

JudgeNext ==
    \/ \E o \in Observations :
         \/ Samples(o) \/ OracleAnswers(o) \/ JudgesLook(o) \/ Tallies(o)
         \/ \E j \in judgePool : JudgeReplies(o, j)
    \/ HourPasses

JudgeSpec == JudgeInit /\ [][JudgeNext]_judgeVars

-----------------------------------------------------------------------------
(* Properties *)

\* The ballots of o that their judges have really cast, and what comes of them.
Earned(o) ==
    LET ob == observation[o]
        real == {j \in DOMAIN ob.votes : ob.votes[j] \in said[<<j, ob.reference>>]}
        for(b) == Cardinality({j \in real : ob.votes[j] = b})
    IN /\ Cardinality(real) >= MinPanel
       /\ \A j \in DOMAIN ob.votes : ob.votes[j] \in Ballots => j \in real
       /\ \E b \in Ballots :
            /\ observation'[o].score = ScoreOf(b)
            /\ \A c \in Ballots : for(c) <= for(b)

\* A score is what enough judges have really said of that very answer, each
\* one's own word whether it came from the judge or from the table, and as
\* though the judges that failed had not been asked.
ScoreIsEarned ==
    [][\A o \in Observations :
         observation[o].stage = "judging" /\ observation'[o].stage = "scored" => Earned(o)]_judgeVars
=============================================================================

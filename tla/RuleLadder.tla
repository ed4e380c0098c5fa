----------------------------- MODULE RuleLadder -----------------------------
(***************************************************************************)
(* Which worker the rules choose for a text, and how many tokens it may     *)
(* answer with (fusion_modes.py).  The rules look for words; lists of words *)
(* put a text among code, design, agent work, ..., and give it a difficulty *)
(* (here in hundredths).  With both, and with its length, it climbs the     *)
(* ladder flash, M3, Grok, Opus, Fable; an easy text goes to the cheapest   *)
(* worker whose calibrated quality is enough.                               *)
(*                                                                         *)
(* A text is the set of the words it contains, its length, and whether it   *)
(* ends in a question mark.  Of each list the words of one vocabulary are   *)
(* here, chosen so that every list has one and the overlaps of the lists    *)
(* remain.                                                                  *)
(***************************************************************************)
EXTENDS Integers, Sequences, FiniteSets, FiniteSetsExt

CONSTANTS
    Vocabulary,     \* words a text may contain
    LengthOf,       \* of each
    Lengths,        \* of texts
    MaxWords,       \* bound
    Environments,   \* bound: what a text may meet, see RuleEnvironments
    Erring          \* the workers with 10 % of errors or more in calibration

RuleWorkers == {"flash", "m3", "grok", "sol", "opus", "fable"}
Price == [flash |-> 0, m3 |-> 1, grok |-> 2, opus |-> 3, sol |-> 4, fable |-> 5]
Levels == {"easy", "medium", "hard"}
None == "none"

\* The workers that are enabled, and those cooling or quarantined; each one's
\* calibrated quality, -1 unknown; ANCHOR_DISABLE_SOL; the draw of
\* _should_try_fable5(); the request's tools; what select_pareto() returned.
RuleEnvironments ==
    [enabled : SUBSET RuleWorkers, sick : SUBSET RuleWorkers,
     table : [RuleWorkers -> [Levels -> -1..100]],
     solOff : BOOLEAN, fableTry : BOOLEAN,
     tools : {"none", "chat", "responses"}, pareto : RuleWorkers \cup {None}]

ASSUME RuleAssumption ==
    /\ LengthOf \in [Vocabulary -> Nat] /\ Lengths \subseteq Nat /\ Lengths # {} /\ MaxWords \in Nat
    /\ Environments \subseteq RuleEnvironments /\ Erring \subseteq RuleWorkers
    /\ \A e \in Environments : e.enabled # {} /\ e.pareto \in e.enabled \cup {None}

VARIABLES
    text,
    rules           \* the environment

ruleVars == <<text, rules>>

CJKWords == {"cjk", "cjk prove", "cjk design"}   \* "prove" and "design" in Chinese
Size(words) == FoldSet(LAMBDA w, n : LengthOf[w] + n, 0, words)
Texts == [words : {s \in SUBSET Vocabulary : Cardinality(s) <= MaxWords},
          len : Lengths, question : BOOLEAN]

RuleTypeOK ==
    /\ text \in Texts
    /\ rules \in Environments

RuleInit ==
    /\ text = [words |-> {}, len |-> Min(Lengths), question |-> FALSE]
    /\ rules \in Environments

-----------------------------------------------------------------------------
Has(t, words) == t.words \cap words # {}
Counts(t, words) == Cardinality(t.words \cap words)
CJK(t) == Has(t, CJKWords)

\* _auto_detect_query_type()
PureReason(t) == Has(t, {"explain ", "prove ", "theorem", "compare ", "cjk prove"})
Toolish(t) == Has(t, {"deploy ", "refactor "})
Acts == {"deploy ", "refactor ", "implement "}
AgentWork(t) ==
    \/ "step by step" \in t.words /\ (PureReason(t) => Toolish(t))
    \/ " and then " \in t.words /\ Has(t, Acts)
    \/ Counts(t, Acts) >= 2
\* classify(), in the order of its patterns.
Classified(t) ==
    CASE "image:" \in t.words -> "vision"
      [] "image:" \notin t.words /\ "traceback" \in t.words -> "debug"
      [] ~Has(t, {"image:", "traceback"}) /\ Has(t, {"prove ", "theorem"}) -> "math"
      [] ~Has(t, {"image:", "traceback", "prove ", "theorem"}) /\ Has(t, {"def ", "implement ", "refactor "}) -> "code"
      [] ~Has(t, {"image:", "traceback", "prove ", "theorem", "def ", "implement ", "refactor "})
           /\ Has(t, {"compare ", "therefore"}) -> "reasoning"
      [] OTHER -> "chat"
TextType(t) ==
    IF CJK(t) THEN "cn"
    ELSE IF AgentWork(t) THEN "agent"
    ELSE IF "poem" \in t.words THEN "creative"
    ELSE Classified(t)

\* The type the handler gives the rules: tools make it an agent's.
Type ==
    CASE rules.tools = "none" -> TextType(text)
      [] rules.tools = "chat" -> "agent"
      [] rules.tools = "responses" -> "agent-tool-heavy"

\* _query_difficulty(): the highest of the signals, and a bonus for three or
\* more of them.
Signals(t) == [
    veryHard |-> IF Has(t, {"raft", "paxos", "byzantine", "coq "}) THEN 95 ELSE 0,
    hard |-> IF Has(t, {"design ", "compare ", "prove ", "cjk prove", "cjk design"}) THEN 70 ELSE 0,
    codeTask |-> IF Has(t, {"implement ", "traceback"}) THEN 50 ELSE 0,
    wordProblem |-> IF Has(t, {"byzantine", "theorem", "what is "}) /\ (t.question \/ "1 bullet" \in t.words)
                    THEN 50 ELSE 0,
    puzzle |-> IF "therefore" \in t.words THEN 70 ELSE 0,
    analysis |-> IF "series" \in t.words THEN 65 ELSE 0,
    shortReason |-> IF Has(t, {"explain ", "compare "}) THEN 30 ELSE 0,
    length |-> IF t.len > 500 THEN 40 ELSE IF t.len > 200 THEN 25 ELSE IF t.len > 100 THEN 15 ELSE 0,
    markers |-> IF "def " \in t.words THEN 30 ELSE 0]
Bonus(n) == IF n >= 4 THEN 15 ELSE IF n >= 3 THEN 8 ELSE 0
Difficulty(t) ==
    LET signals == Signals(t)
        raised == {s \in DOMAIN signals : signals[s] > 0}
    IN  IF raised = {} THEN 0
        ELSE Min({100, Max({signals[s] : s \in raised}) + Bonus(Cardinality(raised))})
Level(d) == IF d >= 70 THEN "hard" ELSE IF d >= 30 THEN "medium" ELSE "easy"

\* _is_sacred_query()
Sacred(t) ==
    LET d == Difficulty(t)
    IN  \/ d >= 90
        \/ Has(t, {"byzantine", "coq ", "lean4"})
        \/ d >= 70 /\ Has(t, {"crdt", "paxos"})
        \/ d >= 85 /\ Has(t, {"prove ", "theorem", "cjk prove"})

-----------------------------------------------------------------------------
Or(worker, otherwise) == IF worker # None THEN worker ELSE otherwise
Enabled(name) == name \in rules.enabled
Healthy(name) == Enabled(name) /\ name \notin rules.sick

\* _pick_mid_upper(): the last loop, too, wants Sol allowed.
MidUpper ==
    IF Healthy("grok") THEN "grok"
    ELSE IF Healthy("m3") THEN "m3"
    ELSE IF ~rules.solOff /\ Healthy("sol") THEN "sol"
    ELSE IF rules.solOff THEN None
    ELSE IF Enabled("grok") THEN "grok" ELSE IF Enabled("m3") THEN "m3"
    ELSE IF Enabled("sol") THEN "sol" ELSE None
MidLower == IF Enabled("m3") THEN "m3" ELSE MidUpper
Hard == IF Enabled("opus") THEN "opus" ELSE IF Enabled("m3") THEN "m3"
        ELSE IF Enabled("flash") THEN "flash" ELSE None
SacredWorker ==
    IF Enabled("fable") /\ rules.fableTry THEN "fable" ELSE Or(Hard, Or(MidUpper, MidLower))
SacredOr == Or(SacredWorker, IF rules.solOff THEN None ELSE "sol")

\* tier_pool_from_config(): the free workers, and those that calibration finds
\* good enough for medium texts; where it finds none, all.
FreePolicy == {"flash", "m3"}
Eligible == {w \in rules.enabled : rules.table[w]["medium"] >= 70 /\ w \notin Erring}
Pool == (rules.enabled \cap FreePolicy) \cup (IF Eligible # {} THEN Eligible ELSE rules.enabled)

\* pick_worker_by_tier(), which is given no text: the cheapest that is good
\* enough, or nearly; else the best that is not bad.
Quality(w, level) == IF rules.table[w][level] = -1 THEN 50 ELSE rules.table[w][level]
Cheapest(ws) == CHOOSE w \in ws : \A v \in ws : Price[w] <= Price[v]
Calibrated(d) ==
    LET level == Level(d)
        good == {w \in Pool : Quality(w, level) >= 70}
        near == {w \in Pool : Quality(w, level) >= 60}
        passable == {w \in Pool : Quality(w, level) >= 40}
    IN  IF good # {} THEN Cheapest(good)
        ELSE IF near # {} THEN Cheapest(near)
        ELSE IF passable # {}
             THEN LET best == Max({Quality(w, level) : w \in passable})
                  IN  Cheapest({w \in passable : Quality(w, level) = best})
        ELSE CHOOSE w \in Pool : \A v \in Pool : Price[v] <= Price[w]

-----------------------------------------------------------------------------
\* _difficulty_aware_route(), branch by branch.
Picture(t) == "image:" \in t.words
ShortChat(t) ==
    /\ ~CJK(t) /\ t.len < 30
    /\ ~Has(t, {"def ", "compare ", "design "})
CodeWords == {"def ", "traceback", "refactor ", "implement "}
CodeRoute(t, type, d) ==
    IF d >= 75 \/ t.len >= 200 THEN Or(Hard, "m3")
    ELSE IF type = "debug" \/ d >= 35 \/ t.len >= 80 THEN Or(MidLower, "m3")
    ELSE "flash"

DesignWords == {"design ", "distributed", "raft"}
HardSignal(t) ==
    LET n == Counts(t, DesignWords \cup {"sharding", "saga"})
    IN  t.len >= 100 \/ (n >= 1 /\ t.len >= 60) \/ n >= 2
ArchHeavy(t) == Counts(t, {"sharding", "saga", "failover"}) >= 2
\* Fault: heavy designs are of the lower rung.
DesignRouteSwapped(t, d) ==
    IF ~HardSignal(t) THEN Or(MidLower, "m3")
    ELSE IF Sacred(t) THEN SacredOr
    ELSE IF d >= 78 \/ ArchHeavy(t) \/ t.len >= 140 THEN Or(MidLower, "m3")
    ELSE Or(MidUpper, "m3")

DesignRoute(t, d) ==
    IF ~HardSignal(t) THEN Or(MidLower, "m3")
    ELSE IF Sacred(t) THEN SacredOr
    ELSE IF d >= 78 \/ ArchHeavy(t) \/ t.len >= 140 THEN Or(Hard, "m3")
    ELSE Or(MidUpper, "m3")

\* Fault: agents' work is light but for its words.
AgentRouteLight(t, d) ==
    IF t.len >= 70 \/ Has(t, {"step by step", "refactor "}) THEN Or(MidLower, "m3") ELSE "flash"
AgentRoute(t, d) ==
    IF d >= 75 THEN Or(Hard, "m3")
    ELSE IF d >= 35 \/ t.len >= 70 \/ Has(t, {"step by step", "refactor "}) THEN Or(MidLower, "m3")
    ELSE "flash"

ReasonRoute(t, type) ==
    type \in {"reasoning", "en", "chat"} /\ Has(t, {"explain ", "compare "}) /\ ~Has(t, {"def ", "implement "})
GeneralRoute(t, type, d) ==
    IF d >= 55
    THEN IF Sacred(t) THEN SacredOr
         ELSE IF d >= 78 /\ ~(ReasonRoute(t, type) /\ d < 90) THEN Or(Hard, "m3")
         ELSE Or(MidUpper, "m3")
    ELSE IF Calibrated(d) \in {"fable", "opus"} /\ ~Sacred(t) THEN Or(MidUpper, Calibrated(d))
    ELSE Calibrated(d)

Route(t, type) ==
    LET d == Difficulty(t)
    IN  IF type = "agent-tool-heavy" THEN Or(MidLower, "m3")
        ELSE IF Picture(t) THEN "m3"
        ELSE IF ShortChat(t) THEN "flash"
        ELSE IF CJK(t) THEN Or(MidLower, "m3")
        ELSE IF type \in {"code", "debug"} \/ Has(t, CodeWords) THEN CodeRoute(t, type, d)
        ELSE IF Has(t, DesignWords) THEN DesignRoute(t, d)
        ELSE IF type = "agent" THEN AgentRoute(t, d)
        ELSE GeneralRoute(t, type, d)

\* v1_chat_completions(): the rules come before the selection by price, but for
\* conversations with tools of the Responses API.
Forced ==
    IF Type = "agent-tool-heavy" /\ rules.pareto # None THEN rules.pareto
    ELSE Or(Route(text, Type), rules.pareto)

\* _recommended_max_tokens()
ShortForm(t) == Has(t, {"1 bullet", "one word"})
MaxTokens(t) ==
    LET d == Difficulty(t)
    IN  CASE "1 bullet" \in t.words -> IF d >= 70 THEN 256 ELSE 140
          [] "1 bullet" \notin t.words /\ "one word" \in t.words -> 64
          [] OTHER -> IF d >= 90 \/ Sacred(t) THEN 1536
                      ELSE IF d >= 70 THEN 1024 ELSE IF d >= 45 THEN 512 ELSE IF d >= 25 THEN 256 ELSE 128

-----------------------------------------------------------------------------
\* The text, word by word; only the last character says whether it is a question.
AtLeast(n) == {len \in Lengths : len >= n}
Says(w) ==
    LET words == text.words \cup {w}
    IN  /\ w \notin text.words /\ Cardinality(words) <= MaxWords
        /\ AtLeast(Size(words)) # {}
        /\ \E asks \in BOOLEAN :
              text' = [words |-> words, len |-> Min(AtLeast(Max({text.len, Size(words)}))), question |-> asks]
        /\ UNCHANGED rules
GoesOn ==
    /\ AtLeast(text.len + 1) # {}
    /\ \E asks \in BOOLEAN : text' = [text EXCEPT !.len = Min(AtLeast(@ + 1)), !.question = asks]
    /\ UNCHANGED rules
Wonders ==
    /\ ~text.question
    /\ text' = [text EXCEPT !.question = TRUE]
    /\ UNCHANGED rules

RuleNext == (\E w \in Vocabulary : Says(w)) \/ GoesOn \/ Wonders
RuleSpec == RuleInit /\ [][RuleNext]_ruleVars
-----------------------------------------------------------------------------
\* Whatever branch names the worker, it may be named: for a hard text of more
\* than a line not the free one, where M3 is enabled ("never free-lane hard
\* work", server.py:892); "Fable only for extreme/
\* sacred" (fusion_modes.py:285), also where calibration would choose it, unless
\* no other that reasons is enabled; not Sol, which "is excluded from all default
\* routing fallbacks" (10); and none that is not enabled, while the two main
\* ones are.
NamedAllowed ==
    /\ text.len >= 30 /\ Difficulty(text) >= 55 /\ Enabled("m3") => Route(text, Type) # "flash"
    /\ Route(text, Type) = "fable" => Sacred(text) \/ MidUpper = None
    /\ rules.solOff /\ "sol" \notin Pool => Route(text, Type) # "sol"
    /\ {"flash", "m3"} \subseteq rules.enabled => Forced \in rules.enabled

\* More never counts less: whatever word is added, in whatever list, however the
\* text goes on and where it comes to ask, it is no easier and its answer no
\* shorter; and with the same words, the length counting in its difficulty and by
\* itself in thresholds of several branches, its worker is of no lower rung. Not
\* so of a question that goes on and asks no more, which loses a signal
\* (is_question, fusion_modes.py:177); nor of the rung of an easy text, which
\* calibration may give to a dear worker, or without Opus, where M3 is the hard
\* texts' (_pick_hard()).
Rung(w) == CASE w = "flash" -> 0 [] w = "m3" -> 1 [] w = "grok" -> 2
             [] w \in {"sol", "opus"} -> 3 [] w = "fable" -> 4 [] OTHER -> -1
OnLadder(t, type) ==
    \/ Difficulty(t) >= 55
    \/ type \in {"agent-tool-heavy", "code", "debug", "agent"}
    \/ Has(t, CJKWords \cup CodeWords \cup DesignWords)
MoreNeverCountsLess ==
    [][(text.question => text'.question) =>
          /\ Difficulty(text') >= Difficulty(text)
          /\ ~ShortForm(text') => MaxTokens(text') >= MaxTokens(text)
          /\ text'.words = text.words /\ Enabled("opus") /\ OnLadder(text, Type) =>
                Rung(Route(text, Type)') >= Rung(Route(text, Type))]_ruleVars
=============================================================================

------------------------------ MODULE MCRules ------------------------------
EXTENDS Rules

\* Words of every list of the rules, and of the places where the lists overlap.
MCVocabulary ==
    {"cjk", "cjk prove", "cjk design", "raft", "paxos", "byzantine", "coq ", "lean4", "crdt",
     "design ", "distributed", "sharding", "saga", "failover", "compare ", "explain ", "prove ",
     "theorem", "therefore", "series", "what is ", "1 bullet", "one word", "implement ",
     "traceback", "def ", "refactor ", "deploy ", " and then ", "step by step", "poem", "image:"}
MCLengthOf == [w \in MCVocabulary |-> IF w \in CJKWords THEN 2 ELSE Len(w)]

\* A calibration like the one the policy was written for, one that knows no
\* worker, and three by which only dear ones are good.
Qualities(e, m, h) == [easy |-> e, medium |-> m, hard |-> h]
Usual == [flash |-> Qualities(80, 72, 55), m3 |-> Qualities(85, 80, 71), grok |-> Qualities(90, 85, 78),
          sol |-> Qualities(88, 84, 75), opus |-> Qualities(95, 92, 90), fable |-> Qualities(92, 80, 70)]
Blank == [w \in RuleWorkers |-> Qualities(-1, -1, -1)]
Poor == Qualities(45, 35, 30)
Dear == [w \in RuleWorkers |-> IF w \in {"opus", "fable"} THEN Qualities(90, 80, 75) ELSE Poor]
DearFable == [Dear EXCEPT !["opus"] = Poor]
DearSol == [w \in RuleWorkers |-> IF w = "sol" THEN Qualities(90, 80, 75) ELSE Poor]
Default == [enabled |-> {"flash", "m3", "grok", "opus"}, sick |-> {}, table |-> Usual, solOff |-> TRUE,
            fableTry |-> FALSE, tools |-> "none", pareto |-> None]
MCEnvironments ==
    {Default,
     [Default EXCEPT !.enabled = RuleWorkers, !.fableTry = TRUE],
     [Default EXCEPT !.enabled = RuleWorkers \ {"opus"}, !.sick = {"grok"}, !.solOff = FALSE, !.table = Blank],
     [Default EXCEPT !.enabled = {"m3", "sol", "fable"}, !.sick = {"m3"}, !.table = DearFable],
     [Default EXCEPT !.enabled = RuleWorkers \ {"opus"}, !.table = DearFable, !.fableTry = TRUE],
     [Default EXCEPT !.enabled = RuleWorkers, !.solOff = FALSE, !.table = DearSol],
     [Default EXCEPT !.table = Dear, !.sick = {"m3"}, !.pareto = "flash"],
     [Default EXCEPT !.tools = "chat"],
     [Default EXCEPT !.tools = "responses", !.pareto = "flash"]}

\* 50 is an id of the client's own, 1 one that looks like a fallback's.
MCTurns == {<<50>>, <<0>>, <<1>>, <<50, 50>>, <<50, 0>>, <<0, 1>>, <<1, 50>>}

MCRegistry == <<"m3", "flash", "grok", "opus">>
MCAutoPool == <<"flash", "m3", "grok">>
Pays(out, call, judge, fixed, shares) ==
    [out |-> out, call |-> call, judge |-> judge, fixed |-> fixed, shares |-> shares]
MCPriceOf == [flash |-> Pays(1, 2, 1, 0, FALSE), m3 |-> Pays(2, 2, 1, 0, FALSE),
              grok |-> Pays(9, 8, 4, 6, TRUE), opus |-> Pays(20, 20, 9, 6, TRUE)]
MCTable == [flash |-> <<<<"code", "easy", 80>>, <<"code", "hard", 30>>>>,
            m3 |-> <<<<"code", "hard", 65>>, <<"code", "easy", 75>>, <<"chat", "easy", 72>>>>,
            grok |-> <<<<"chat", "hard", 90>>>>,
            opus |-> <<>>]
NoisyLogs == [NoLogs EXCEPT !["grok", <<"code", "hard">>] = <<100, 40, 100, 100, 100>>,
                            !["m3", <<"code", "hard">>] = <<90, 95>>,
                            !["flash", <<"code", "easy">>] = <<80, 80, 80, 80, 85>>]
MCLogs == {NoLogs, NoisyLogs}
=============================================================================

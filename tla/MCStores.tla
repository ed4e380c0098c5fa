------------------------------ MODULE MCStores ------------------------------
EXTENDS Stores, TLC

CONSTANTS h1, h2, r1, r2, key1, session1

Processes == {h1, h2}
InFlight == {r1, r2}
Symmetry == Permutations(Processes) \cup Permutations(InFlight)

MCOutages == {{}, SharedStores}
MCSimilar(t, u) == IF t = u THEN 2 ELSE IF {t, u} = {"a", "b"} THEN 1 ELSE 0
MCCandidates == <<"w1", "w2", "w3">>
\* A cell with a measured and a written floor, and one that only appears later.
MCCells == {"code", "odd"}
MCCalibrated == [c \in MCCells |-> IF c = "code" THEN 60 ELSE Absent]
MCHandTuned == [c \in MCCells |-> IF c = "code" THEN 90 ELSE Absent]
MCNoFloors == [c \in MCCells |-> Absent]

MCJudges == <<"m3", "sonnet", "fable", "sol", "luna", "grok">>
MCFamilyOf == [m3 |-> "minimax", sonnet |-> "claude", fable |-> "claude", sol |-> "gpt", luna |-> "gpt", grok |-> "grok"]
MCPreferred == <<"sol", "grok", "fable">>
\* All of them; two of three families; too few for a panel.
MCJudgePools == {Range(MCJudges), {"m3", "sonnet", "fable", "luna"}, {"m3", "sol"}}

\* Both processes on Redis or on SQLite, or one of them on its own memory.
OneStoreEach == {{"sqlite", h1, h2}, {"redis", h1, h2}, {"redis", "sqlite", h1}, {"redis", "sqlite", h2}}

\* The defaults of config.py, two and three, let one judge of a panel fail.
ASSUME OneFails == OneMayFail
=============================================================================

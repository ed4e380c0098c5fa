------------------------------- MODULE Pareto -------------------------------
(***************************************************************************)
(* The cheapest worker that is good enough (pareto.py, routing_pareto.py).  *)
(* What a worker is worth in a cell, a kind and a difficulty of queries, is *)
(* measured in a table, overlaid with what judges have observed since       *)
(* (quality_feedback.py), and, if so configured, doubted by as much as the  *)
(* scores of the cell scatter (cp.py).  The overlay is written to a file    *)
(* after each observation and read when a process starts.                   *)
(*                                                                         *)
(* Scores are in percent; money in units that keep the order of the sums.   *)
(* The weight on costs and the price of an escalation, the same for every   *)
(* worker of a query, leave the order as it is and are left out.            *)
(***************************************************************************)
EXTENDS Integers, Sequences, FiniteSets, Functions, SequencesExt, FiniteSetsExt

CONSTANTS
    Registry,       \* the enabled workers, in the order of config.WORKERS
    AutoPool,       \* those of the auto lane, in its order
    LastResort,     \* deepseek-v4-flash
    PriceOf,          \* of each: out, call, judge, fixed, and whether it shares the quota
    ChatOnly,       \* those that call no tools
    Difficulties, Categories,
    Table,          \* of each worker: <<category, difficulty, score>> in the order of the file
    SessionLogs,    \* the scores of the last days: worker, cell -> sequence
    QualityFloor, HardFloor,        \* 70 and 40
    MinSamples, ColdRadius, MaxRadius,
    CPModes,        \* of ANCHOR_CP_ENABLED
    Verdicts,       \* what judges say: 0, 50, 100
    MaxJudged       \* bound

NoScore == -1
ParetoCells == Categories \X Difficulties
AllWorkers == Range(Registry)
Unsure == [mean |-> 50, lower |-> 0, upper |-> 100]

Rows == STRING \X Difficulties \X (0..100)
Prices == [out : Nat, call : Nat, judge : Nat, fixed : Nat, shares : BOOLEAN]

ASSUME ParetoAssumption ==
    /\ Registry \in Seq(AllWorkers) /\ AutoPool \in Seq(AllWorkers)
    /\ LastResort \in AllWorkers /\ ChatOnly \subseteq AllWorkers
    /\ PriceOf \in [AllWorkers -> Prices] /\ Table \in [AllWorkers -> Seq(Rows)]
    /\ SessionLogs \subseteq [AllWorkers \X ParetoCells -> Seq(0..100)] /\ CPModes \subseteq BOOLEAN
    /\ {QualityFloor, HardFloor, ColdRadius, MaxRadius} \cup Verdicts \subseteq 0..100
    /\ HardFloor <= QualityFloor /\ MinSamples \in Nat /\ MaxJudged \in Nat
    /\ Difficulties \subseteq {"easy", "medium", "hard"}

VARIABLES
    cpEnabled, sessions,    \* the environment, and what was logged before the start
    overlay,                \* quality of a worker and cell, or NoScore
    sidecar,                \* quality_overlay.json; torn while it is written
    writing,                \* the observation whose file is not yet whole
    intervals,              \* of cp.py, once they have been computed
    shunned,                \* the workers in quarantine
    picked,                 \* history: the last choice
    judgedCount

paretoVars == <<cpEnabled, sessions, overlay, sidecar, writing, intervals, shunned, picked, judgedCount>>

NoOverlay == [wc \in AllWorkers \X ParetoCells |-> NoScore]
NoIntervals == <<>>
NoSidecar == [whole |-> FALSE, cells |-> NoOverlay]
NotPicked == [worker |-> "nobody", relaxed |-> FALSE]

ParetoTypeOK ==
    /\ cpEnabled \in CPModes /\ sessions \in SessionLogs
    /\ overlay \in [AllWorkers \X ParetoCells -> NoScore..100]
    /\ sidecar \in [whole : BOOLEAN, cells : [AllWorkers \X ParetoCells -> NoScore..100]]
    /\ writing \in BOOLEAN
    /\ intervals = NoIntervals
          \/ intervals \in [AllWorkers \X ParetoCells -> [mean : 0..100, lower : 0..100, upper : 0..100]]
    /\ shunned \subseteq AllWorkers
    /\ picked \in [worker : AllWorkers \cup {"nobody"}, relaxed : BOOLEAN]
    /\ judgedCount \in 0..MaxJudged

-----------------------------------------------------------------------------
\* query_complexity() of a text: how long it is and which words it has.
Complexity(length, words) ==
    CASE length < 20 /\ "easy" \in words -> 10
      [] "hard" \in words -> 90
      [] "medium" \in words -> 50
      [] length < 50 -> 20
      [] OTHER -> 40

\* parse_query_to_cell()
CellOf(category, complexity) ==
    <<category, IF complexity >= 60 THEN "hard" ELSE IF complexity >= 30 THEN "medium" ELSE "easy">>

\* quality_table_lookup(): the cell, else the first cell of that difficulty.
Measured(w, cell) ==
    LET rows == Table[w]
        same == {i \in DOMAIN rows : <<rows[i][1], rows[i][2]>> = cell}
        near == {i \in DOMAIN rows : rows[i][2] = cell[2]}
    IN  IF same # {} THEN rows[Min(same)][3] ELSE IF near # {} THEN rows[Min(near)][3] ELSE NoScore

Score(o, w, cell) == IF o[<<w, cell>>] # NoScore THEN o[<<w, cell>>] ELSE Measured(w, cell)

\* compute_cell_intervals(): the radius is the 90 % quantile of the residuals,
\* between two of them if need be.
Magnitude(n) == IF n < 0 THEN -n ELSE n
Smaller(n, m) == IF n < m THEN n ELSE m
Larger(n, m) == IF n < m THEN m ELSE n
AtRank(values, i) ==    \* sorted(values)[i]
    Min({v \in Range(values) : Cardinality({j \in DOMAIN values : values[j] <= v}) > i})
Quantile(values) ==
    LET at(i) == AtRank(values, i)
        pos == 9 * (Len(values) - 1)
        lo == pos \div 10
    IN  IF lo + 1 < Len(values) THEN (at(lo) * (10 - (pos % 10)) + at(lo + 1) * (pos % 10)) \div 10 ELSE at(lo)
Total(scores) ==
    LET sum[i \in 0..Len(scores)] == IF i = 0 THEN 0 ELSE sum[i - 1] + scores[i]
    IN  sum[Len(scores)]
Interval(scores) ==
    LET n == Len(scores)
        mean == Total(scores) \div n
        radius == IF n < MinSamples THEN ColdRadius
                  ELSE Smaller(Quantile([i \in 1..n |-> Magnitude(scores[i] - mean)]), MaxRadius)
    IN  IF n = 0 THEN Unsure
        ELSE [mean |-> mean, lower |-> Larger(0, mean - radius), upper |-> Smaller(100, mean + radius)]

\* refresh_cell_cache(): the logs, and the overlay as it is in its file.
Refreshed ==
    [wc \in AllWorkers \X ParetoCells |->
        Interval(sessions[wc] \o
                 (IF sidecar.cells[wc] = NoScore THEN <<>> ELSE <<sidecar.cells[wc]>>))]
\* get_interval(): read once, at the first query.
IntervalsNow == IF intervals = NoIntervals THEN Refreshed ELSE intervals

\* compute_tco(), times a hundred.  The judge is paid for above a chance of 0.3,
\* which 1.0 - 0.7 is by the rounding of floats.
SharersOfQuota == {w \in AllWorkers : PriceOf[w].shares}
Amortized(w) == IF PriceOf[w].shares THEN PriceOf[w].fixed \div Cardinality(SharersOfQuota) ELSE PriceOf[w].fixed
\* _get_fallback(): the first of the lane.
Index(order, w) == CHOOSE i \in DOMAIN order : order[i] = w
Retry(w) ==
    LET others == Range(AutoPool) \ ({w} \cup shunned)
    IN  IF others = {} THEN LastResort
        ELSE CHOOSE v \in others : \A u \in others : Index(AutoPool, v) <= Index(AutoPool, u)
\* Fault: the retry is as likely as the answer is good.
TCOFlipped(w, score) == 100 * PriceOf[w].call + score * PriceOf[Retry(w)].call + 100 * Amortized(w)
TCO(w, score) ==
    100 * PriceOf[w].call + (100 - score) * PriceOf[Retry(w)].call + 100 * Amortized(w)
      + IF 100 - score >= 30 THEN 100 * PriceOf[w].judge ELSE 0

\* min() and max() by a key take the first of equals.
Before(order, w, v) ==
    \/ PriceOf[w].out < PriceOf[v].out
    \/ PriceOf[w].out = PriceOf[v].out /\ Index(order, w) < Index(order, v)
CheapestOf(order, pool) == CHOOSE w \in pool : \A v \in pool \ {w} : Before(order, w, v)

\* The candidates of select_pareto(): above the hard floor, not doubted, and
\* good enough.
Doubted(w, cell) ==
    /\ cpEnabled
    /\ IntervalsNow[<<w, cell>>] # Unsure
    /\ IntervalsNow[<<w, cell>>].lower < QualityFloor
AboveHardFloor(o, w, cell) == Score(o, w, cell) >= HardFloor
GoodEnough(o, w, cell) ==
    AboveHardFloor(o, w, cell) /\ ~Doubted(w, cell) /\ Score(o, w, cell) >= QualityFloor

\* A pool is in the order of the lane.
Frugal(o, good, cell) ==
    CHOOSE w \in good : \A v \in good \ {w} :
        LET a == TCO(w, Score(o, w, cell))
            b == TCO(v, Score(o, v, cell))
        IN  a < b \/ (a = b /\ Before(AutoPool, w, v))
\* No candidate, but data: the best there is above the hard floor.
Best(o, fair, cell) ==
    CHOOSE w \in fair : \A v \in fair \ {w} :
        LET a == Score(o, w, cell)
            b == Score(o, v, cell)
        IN  a > b \/ (a = b /\ Before(AutoPool, w, v))

\* select_pareto()
Select(pool, o, cell) ==
    LET good == {w \in pool : GoodEnough(o, w, cell)}
        fair == {w \in pool : AboveHardFloor(o, w, cell)}
    IN  IF pool = {} THEN [worker |-> CheapestOf(Registry, AllWorkers), relaxed |-> TRUE]
        ELSE IF good # {} THEN [worker |-> Frugal(o, good, cell), relaxed |-> FALSE]
        ELSE IF fair # {} THEN [worker |-> Best(o, fair, cell), relaxed |-> TRUE]
        ELSE [worker |-> CheapestOf(AutoPool, pool), relaxed |-> TRUE]

\* _resolve_pareto_worker(): the pool without those in quarantine and, for a
\* query of tools, without those that cannot call any, unless none is left.
PoolFor(tools) ==
    LET healthy == Range(AutoPool) \ shunned
        able == healthy \ ChatOnly
    IN  IF tools /\ able # {} THEN able ELSE healthy
\* select_cheapest_meeting_floor(), which the chat handler calls, takes all.
Pools == {Range(AutoPool)} \cup {PoolFor(tools) : tools \in BOOLEAN}

-----------------------------------------------------------------------------
ParetoInit ==
    /\ cpEnabled \in CPModes /\ sessions \in SessionLogs
    /\ overlay = NoOverlay
    /\ sidecar = NoSidecar
    /\ writing = FALSE
    /\ intervals = NoIntervals
    /\ shunned \in SUBSET Range(AutoPool)
    /\ picked = NotPicked
    /\ judgedCount = 0

Resolves == \E pool \in Pools, category \in Categories, length \in {10, 60},
               words \in {{}, {"easy"}, {"hard"}, {"easy", "medium"}} :
    LET cell == CellOf(category, Complexity(length, words))
    IN  /\ ~writing /\ cell \in ParetoCells
        /\ picked' = Select(pool, overlay, cell)
        /\ intervals' = IF cpEnabled /\ pool # {} THEN IntervalsNow ELSE intervals
        /\ UNCHANGED <<cpEnabled, sessions, overlay, sidecar, writing, shunned, judgedCount>>

\* update_quality_cell(): the first observation is taken as it is, whatever the
\* table says; the next ones count for a tenth.
Updated(old, verdict) == IF old = NoScore THEN verdict ELSE (9 * old + verdict) \div 10
Judged(w, cell) == \E verdict \in Verdicts :
    /\ ~writing /\ judgedCount < MaxJudged
    /\ overlay' = [overlay EXCEPT ![<<w, cell>>] = Updated(@, verdict)]
    /\ sidecar' = NoSidecar
    /\ writing' = TRUE
    /\ judgedCount' = judgedCount + 1
    /\ picked' = NotPicked
    /\ UNCHANGED <<cpEnabled, sessions, intervals, shunned>>
\* Fault: observations are not written to the file.
PersistedNot ==
    /\ writing
    /\ writing' = FALSE
    /\ UNCHANGED <<cpEnabled, sessions, overlay, sidecar, intervals, shunned, picked, judgedCount>>

\* _persist_overlay() has written all of it.
Persisted ==
    /\ writing
    /\ sidecar' = [whole |-> TRUE, cells |-> overlay]
    /\ writing' = FALSE
    /\ UNCHANGED <<cpEnabled, sessions, overlay, intervals, shunned, picked, judgedCount>>

\* A new process: load_persisted_overlay(); a file that cannot be parsed is none.
ParetoRestarts ==
    /\ overlay' = sidecar.cells
    /\ writing' = FALSE
    /\ intervals' = NoIntervals
    /\ picked' = NotPicked
    /\ UNCHANGED <<cpEnabled, sessions, sidecar, shunned, judgedCount>>

QuarantineChanges == \E w \in Range(AutoPool) :
    /\ shunned' = IF w \in shunned THEN shunned \ {w} ELSE shunned \cup {w}
    /\ picked' = NotPicked
    /\ UNCHANGED <<cpEnabled, sessions, overlay, sidecar, writing, intervals, judgedCount>>

ParetoNext ==
    \/ Resolves \/ Persisted \/ ParetoRestarts \/ QuarantineChanges
    \/ \E w \in AllWorkers, cell \in ParetoCells : Judged(w, cell)

ParetoSpec == ParetoInit /\ [][ParetoNext]_paretoVars

-----------------------------------------------------------------------------
\* Scores above a score: the next one, and those where something changes.
Better(score) == {score + 1, HardFloor, QualityFloor, QualityFloor + 1, 100} \cap score..100

\* A worker that would be picked is still picked when it is judged better:
\* through both floors, the doubt, the relaxed choice and the price of a retry,
\* quality never counts against a worker.
BetterKeepsThePick ==
    \A pool \in Pools, cell \in ParetoCells :
        LET pick == Select(pool, overlay, cell).worker
        IN  pool # {} /\ Score(overlay, pick, cell) # NoScore =>
                \A better \in Better(Score(overlay, pick, cell)) :
                    Select(pool, [overlay EXCEPT ![<<pick, cell>>] = better], cell).worker = pick

\* What judges observed survives a restart, unless the process was just writing
\* it: that crash loses all of it, not the one observation.
OverlayKept ==
    [][ParetoRestarts /\ ~writing => overlay' = overlay]_paretoVars
=============================================================================

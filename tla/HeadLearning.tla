---------------------------- MODULE HeadLearning ----------------------------
(***************************************************************************)
(* What the routing head learns (head.py): a prior for each kind of query   *)
(* and worker, and one vector of weights, in the memory of each server      *)
(* process.  Every outcome moves one prior and then the weights, under a    *)
(* lock: the event loop learns from its own answers, and threads of the     *)
(* pool learn from POST /feedback.  Once a minute the loop writes both to   *)
(* one file, without the lock; a process that starts reads that file and    *)
(* raises the priors to their floors.                                       *)
(*                                                                         *)
(* Threads are switched between any two reads and writes.                   *)
(***************************************************************************)
EXTENDS Integers, FiniteSets, Functions

CONSTANTS
    Servers,        \* uvicorn processes
    Feedbacks,      \* threads of the pool that serve POST /feedback
    Loop,           \* the thread of the event loop
    Cells,          \* (query type, worker)
    Baseline,       \* those reset_to_baseline() fills; others appear later
    Calibrated,     \* floors, in percent or Absent: from quality_table_v8.json,
    HandTuned,      \*   written in the code,
    LocalFloors,    \*   those of the local worker,
    LeastFloors,    \*   and for vision and Chinese
    Successes,      \* outcomes, in percent
    OutcomeLimit,   \* bound: outcomes learned in all
    TurnLimit       \* bound: predictions and snapshots begun in all

Absent == -1
Threads == Feedbacks \cup {Loop}
Percent == 0..100

ASSUME HeadAssumption ==
    /\ IsFiniteSet(Servers) /\ IsFiniteSet(Feedbacks) /\ IsFiniteSet(Cells)
    /\ Baseline \subseteq Cells /\ Successes \subseteq Percent
    /\ {Calibrated, HandTuned, LocalFloors, LeastFloors} \subseteq [Cells -> Percent \cup {Absent}]
    /\ OutcomeLimit \in Nat /\ TurnLimit \in Nat

VARIABLES
    prior,      \* prior_table of each process: the value, and (history) its moves
    weights,    \* W: the outcomes it has learned from
    thread,     \* what each thread of each process does
    snapshot,   \* head_baseline.json
    base,       \* history: moves and weights at the start of each process,
    done,       \* history: and the outcomes learned since
    turns       \* history: predictions and snapshots begun

headVars == <<prior, weights, thread, snapshot, base, done, turns>>

NoPrior == [at |-> Absent, moves |-> 0]
Priors == [Cells -> [at : Percent \cup {Absent}, moves : Nat]]
Resting == [stage |-> "rest"]
NoSnapshot == [state |-> "none"]
Torn == [state |-> "torn"]

Moves(table) == FoldFunction(LAMBDA cell, sum : cell.moves + sum, 0, table)
Present(table) == {c \in Cells : table[c].at # Absent}
Busy(s, stages) == {t \in Threads : thread[s][t].stage \in stages}
Learned == FoldFunction(+, 0, done)
Pending == FoldFunction(LAMBDA ts, sum : Cardinality({t \in Threads : ts[t].stage \in {"entered", "moved"}}) + sum,
                        0, thread)

Entered == [stage : {"entered"}, cell : Cells, success : Successes, read : [at : Percent, moves : Nat]]
Moved == [stage : {"moved"}, read : Nat]
Predicting == [stage : {"predicting"}, weights : Nat, then : Priors, seen : Priors, left : SUBSET Cells]
Saving == [stage : {"saving", "truncated"}, weights : Nat, copied : Priors, left : SUBSET Cells, size : Nat]

HeadTypeOK ==
    /\ prior \in [Servers -> Priors]
    /\ weights \in [Servers -> Nat]
    /\ thread \in [Servers -> [Threads -> {Resting} \cup Entered \cup Moved \cup Predicting \cup Saving]]
    /\ snapshot \in {NoSnapshot, Torn} \cup [state : {"whole"}, prior : Priors, weights : Nat]
    /\ base \in [Servers -> [moves : Nat, weights : Nat]]
    /\ done \in [Servers -> Nat]
    /\ turns \in 0..TurnLimit

-----------------------------------------------------------------------------
\* apply_role_prior_floors(): the measured floor where there is one.
Floors == [c \in Cells |-> IF Calibrated[c] # Absent THEN Calibrated[c]
                           ELSE IF HandTuned[c] # Absent THEN HandTuned[c] ELSE LeastFloors[c]]
Lifted(table, floors, force) ==
    [c \in Cells |->
        IF floors[c] # Absent /\ (table[c].at = Absent \/ force \/ table[c].at < floors[c])
        THEN [table[c] EXCEPT !.at = floors[c]] ELSE table[c]]
Floored(table, force) == Lifted(Lifted(table, LocalFloors, force), Floors, force)

\* reset_to_baseline()
Reset == Floored([c \in Cells |-> [NoPrior EXCEPT !.at = IF c \in Baseline THEN 50 ELSE Absent]], TRUE)

\* load_from_snapshot(): a file that is not there or cannot be parsed changes
\* nothing; what it holds replaces what there is.
Loaded(table) ==
    IF snapshot.state # "whole" THEN table
    ELSE Floored([c \in Cells |-> IF snapshot.prior[c].at # Absent THEN snapshot.prior[c] ELSE table[c]], FALSE)
LoadedWeights == IF snapshot.state = "whole" THEN snapshot.weights ELSE 0

HeadInit ==
    /\ prior = [s \in Servers |-> Reset]
    /\ weights = [s \in Servers |-> 0]
    /\ thread = [s \in Servers |-> [t \in Threads |-> Resting]]
    /\ snapshot = NoSnapshot
    /\ base = [s \in Servers |-> [moves |-> 0, weights |-> 0]]
    /\ done = [s \in Servers |-> 0]
    /\ turns = 0

\* A process ends, with all it did, and starts again.
Starts(s) ==
    /\ prior' = [prior EXCEPT ![s] = Loaded(Reset)]
    /\ weights' = [weights EXCEPT ![s] = LoadedWeights]
    /\ base' = [base EXCEPT ![s] = [moves |-> Moves(Loaded(Reset)), weights |-> LoadedWeights]]
    /\ done' = [done EXCEPT ![s] = 0]
    /\ thread' = [thread EXCEPT ![s] = [t \in Threads |-> Resting]]
    /\ UNCHANGED <<snapshot, turns>>

-----------------------------------------------------------------------------
Turns(s, t, to) == thread' = [thread EXCEPT ![s][t] = to]

\* Fault: update() without its lock.
LockFreeAlways(s) == TRUE

\* _HEAD_LOCK
LockFree(s) == Busy(s, {"entered", "moved"}) = {}

\* update(): p = prior_table.get(key, 0.5)
Enters(s, t) == \E c \in Cells, success \in Successes :
    /\ thread[s][t] = Resting
    /\ LockFree(s)
    /\ Learned + Pending < OutcomeLimit
    /\ Turns(s, t, [stage |-> "entered", cell |-> c, success |-> success,
                   read |-> IF prior[s][c].at = Absent THEN [NoPrior EXCEPT !.at = 50] ELSE prior[s][c]])
    /\ UNCHANGED <<prior, weights, snapshot, base, done, turns>>

\* The prior goes a twentieth of the way to the outcome.
MovesPrior(s, t) ==
    LET my == thread[s][t]
        new == [at |-> my.read.at + (my.success - my.read.at) \div 20, moves |-> my.read.moves + 1]
    IN  /\ my.stage = "entered"
        /\ prior' = [prior EXCEPT ![s][my.cell] = new]
        /\ Turns(s, t, [stage |-> "moved", read |-> weights[s]])
        /\ UNCHANGED <<weights, snapshot, base, done, turns>>

\* W = W + ..., and the lock is released.
MovesWeights(s, t) ==
    /\ thread[s][t].stage = "moved"
    /\ weights' = [weights EXCEPT ![s] = thread[s][t].read + 1]
    /\ done' = [done EXCEPT ![s] = @ + 1]
    /\ Turns(s, t, Resting)
    /\ UNCHANGED <<prior, snapshot, base, turns>>

\* predict(): W is copied under the lock; the prior of each worker is read by
\* _features() after it, from the table and not from the copy of it.
Predicts(s) ==
    /\ thread[s][Loop] = Resting
    /\ LockFree(s)
    /\ turns < TurnLimit
    /\ turns' = turns + 1
    /\ Turns(s, Loop, [stage |-> "predicting", weights |-> weights[s], then |-> prior[s],
                      seen |-> [c \in Cells |-> NoPrior], left |-> Cells])
    /\ UNCHANGED <<prior, weights, snapshot, base, done>>

Features(s) == \E c \in Cells :
    LET my == thread[s][Loop]
    IN  /\ my.stage = "predicting" /\ c \in my.left
        /\ Turns(s, Loop, [my EXCEPT !.seen[c] = prior[s][c], !.left = @ \ {c}])
        /\ UNCHANGED <<prior, weights, snapshot, base, done, turns>>

Predicted(s) ==
    /\ thread[s][Loop].stage = "predicting" /\ thread[s][Loop].left = {}
    /\ Turns(s, Loop, Resting)
    /\ UNCHANGED <<prior, weights, snapshot, base, done, turns>>

\* _auto_head_save_loop() and drift.snapshot(): W as it is now, then the priors
\* one by one as they are by then.
Saves(s) ==
    /\ thread[s][Loop] = Resting
    /\ turns < TurnLimit
    /\ turns' = turns + 1
    /\ Turns(s, Loop, [stage |-> "saving", weights |-> weights[s], copied |-> [c \in Cells |-> NoPrior],
                      left |-> Present(prior[s]), size |-> Cardinality(Present(prior[s]))])
    /\ UNCHANGED <<prior, weights, snapshot, base, done>>

\* A table that has grown under the loop raises an error: no snapshot.
Copies(s) ==
    LET my == thread[s][Loop]
    IN  /\ my.stage = "saving"
        /\ IF Cardinality(Present(prior[s])) # my.size THEN Turns(s, Loop, Resting)
           ELSE \E c \in my.left :
                  Turns(s, Loop, [my EXCEPT !.copied[c] = prior[s][c], !.left = @ \ {c}])
        /\ UNCHANGED <<prior, weights, snapshot, base, done, turns>>

\* write_text() empties the file and then fills it.
Truncates(s) ==
    /\ thread[s][Loop].stage = "saving" /\ thread[s][Loop].left = {}
    /\ snapshot' = Torn
    /\ Turns(s, Loop, [thread[s][Loop] EXCEPT !.stage = "truncated"])
    /\ UNCHANGED <<prior, weights, base, done, turns>>

\* Fault: the weights are read when the file is written.
WrittenLate(s, my) == [state |-> "whole", prior |-> my.copied, weights |-> weights[s]]
Written(s, my) == [state |-> "whole", prior |-> my.copied, weights |-> my.weights]
Fills(s) ==
    /\ thread[s][Loop].stage = "truncated"
    /\ snapshot' = Written(s, thread[s][Loop])
    /\ Turns(s, Loop, Resting)
    /\ UNCHANGED <<prior, weights, base, done, turns>>

HeadNext == \E s \in Servers :
    \/ Starts(s) \/ Predicts(s) \/ Features(s) \/ Predicted(s)
    \/ Saves(s) \/ Copies(s) \/ Truncates(s) \/ Fills(s)
    \/ \E t \in Threads : Enters(s, t) \/ MovesPrior(s, t) \/ MovesWeights(s, t)

HeadSpec == HeadInit /\ [][HeadNext]_headVars

-----------------------------------------------------------------------------
\* Nothing that was learned is lost to another thread: but for the outcome being
\* learned, the priors have moved and the weights have grown once for every
\* outcome since the process started.
LearnsInTurn ==
    \A s \in Servers :
        Busy(s, {"entered", "moved"}) = {} =>
            /\ Moves(prior[s]) = base[s].moves + done[s]
            /\ weights[s] = base[s].weights + done[s]

\* The snapshot is taken without the lock, but in an order that matters: weights
\* first.  Neither in the file nor, through any restarts, in a process have the
\* weights learned from an outcome that no prior has moved by.
WeightsHavePriors ==
    /\ snapshot.state = "whole" => snapshot.weights <= Moves(snapshot.prior)
    /\ \A s \in Servers : weights[s] <= Moves(prior[s])

\* head.py:420, "a consistent snapshot under the same lock used by update(). The
\* previous lock only protected writers; readers could see a new prior_table
\* with an old W": what a prediction reads is of the moment it held the lock.
PredictsFromOneMoment ==
    \A s \in Servers :
        LET my == thread[s][Loop]
        IN  my.stage = "predicting" =>
                \A c \in Cells \ my.left : my.seen[c] = my.then[c]
=============================================================================

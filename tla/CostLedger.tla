----------------------------- MODULE CostLedger -----------------------------
(***************************************************************************)
(* What the gateway has spent (cost.py).  An answered call is appended to   *)
(* the log of its day, copied to the one file of former versions where that *)
(* file exists, and added to two counters in memory, one of a day and one   *)
(* of a month.  The counters are what the cap is checked against; after a   *)
(* start they are read from the old file, and from nothing else.            *)
(*                                                                         *)
(* append_log() holds the event loop from its first write to its last       *)
(* count: only a crash and midnight come between.                           *)
(***************************************************************************)
EXTENDS Integers, FiniteSets

CONSTANTS
    Payers,         \* requests in flight at most
    Prices,         \* what a call costs, in yuan; a failed one may cost 0
    Caps,           \* values of ANCHOR_HARD_CAP_YUAN; 0 is no cap
    DaysPerMonth,   \* bound
    LastDay,        \* bound: when the calendar stops
    LogLimit        \* bound: yuan logged in all

Days == 0..LastDay
Month(day) == day \div DaysPerMonth
Months == {Month(day) : day \in Days}
MaxPrice == CHOOSE p \in Prices : \A q \in Prices : q <= p

ASSUME CostAssumption ==
    /\ IsFiniteSet(Payers)
    /\ Prices \subseteq Nat /\ \E p \in Prices : \A q \in Prices : q <= p
    /\ Caps \subseteq Nat
    /\ LastDay \in Nat /\ LogLimit \in Nat /\ DaysPerMonth \in Nat \ {0}

VARIABLES
    today,
    cap,        \* HARD_CAP_YUAN
    dated,      \* the daily logs: the yuan of each day and of each month
    hasLegacy,  \* LOG_PATH.exists()
    legacy,     \* the old file, by day and by month
    counters,   \* loaded, and the day's and the month's count
    payer,      \* where each request is
    append,     \* append_log() in progress
    forgotten   \* history: the yuan of each month that no later process can count

costVars == <<today, cap, dated, hasLegacy, legacy, counters, payer, append, forgotten>>

NoAppend == [stage |-> "none", yuan |-> 0, day |-> 0]
Empty == [day |-> [d \in Days |-> 0], month |-> [m \in Months |-> 0]]
Unloaded == [loaded |-> FALSE, day |-> [of |-> 0, yuan |-> 0], month |-> [of |-> 0, yuan |-> 0]]
File == [day : [Days -> Nat], month : [Months -> Nat]]

CostTypeOK ==
    /\ today \in Days
    /\ cap \in Caps
    /\ dated \in File /\ legacy \in File
    /\ hasLegacy \in BOOLEAN
    /\ counters \in [loaded : BOOLEAN, day : [of : Days, yuan : Nat], month : [of : Months, yuan : Nat]]
    /\ payer \in [Payers -> {"away", "asked", "calling"}]
    /\ append \in [stage : {"none", "logged", "mirrored"}, yuan : Prices \cup {0}, day : Days]
    /\ forgotten \in [Months -> Nat]

CostInit ==
    /\ today = 0
    /\ cap \in Caps
    /\ dated = Empty
    /\ hasLegacy \in BOOLEAN
    /\ legacy = Empty
    /\ counters = Unloaded
    /\ payer = [r \in Payers |-> "away"]
    /\ append = NoAppend
    /\ forgotten = [m \in Months |-> 0]

\* A file with one more line.
Plus(file, day, yuan) ==
    [day |-> [file.day EXCEPT ![day] = @ + yuan],
     month |-> [file.month EXCEPT ![Month(day)] = @ + yuan]]

\* _load_counters_from_disk(): a file that is not there is an empty one.
Hydrated ==
    IF counters.loaded THEN counters
    ELSE [loaded |-> TRUE,
          day |-> [of |-> today, yuan |-> IF hasLegacy THEN legacy.day[today] ELSE 0],
          month |-> [of |-> Month(today), yuan |-> IF hasLegacy THEN legacy.month[Month(today)] ELSE 0]]

\* Fault: the month's counter is not rolled over.
RolledNever(count, now, of) == count

\* One counter of _bump_counters(): it rolls over with the calendar, and takes
\* no entry of another day (month) than its own.
Rolled(count, now, of) == IF count.of # now /\ of = now THEN [of |-> now, yuan |-> 0] ELSE count
Counted(count, now, of, yuan) ==
    LET rolled == Rolled(count, now, of)
    IN  IF rolled.of = of THEN [rolled EXCEPT !.yuan = @ + yuan] ELSE rolled

\* _bump_counters()
Bumped(yuan, day) ==
    IF yuan = 0 THEN counters
    ELSE [Hydrated EXCEPT !.day = Counted(@, today, day, yuan),
                          !.month = Counted(@, Month(today), Month(day), yuan)]

\* month_total()
MonthTotal(c) == IF c.month.of = Month(today) THEN c.month.yuan ELSE 0

\* Fault: a cap that is hit only once it is passed.
CapHitLate == cap > 0 /\ MonthTotal(Hydrated) > cap

\* check_cap(): without a cap nothing is read.
CapHit == cap > 0 /\ MonthTotal(Hydrated) >= cap
Checked == IF cap > 0 THEN Hydrated ELSE counters

\* guard() at the head of the handler (0) and again in _route_tier() (1).
Guards(r, from, to) ==
    /\ append = NoAppend
    /\ payer[r] = from
    /\ counters' = Checked
    /\ payer' = [payer EXCEPT ![r] = IF CapHit THEN "away" ELSE to]
    /\ UNCHANGED <<today, cap, dated, hasLegacy, legacy, append, forgotten>>
AsksFirst(r) == Guards(r, "away", "asked")
AsksAgain(r) == Guards(r, "asked", "calling")

\* append_log(), first write: to the log of the day.
Logs(r) ==
    /\ append = NoAppend
    /\ payer[r] = "calling"
    /\ \E yuan \in Prices :
         /\ dated.month[Month(today)] + yuan <= LogLimit
         /\ dated' = Plus(dated, today, yuan)
         /\ append' = [stage |-> "logged", yuan |-> yuan, day |-> today]
    /\ payer' = [payer EXCEPT ![r] = "away"]
    /\ UNCHANGED <<today, cap, hasLegacy, legacy, counters, forgotten>>

\* The copy to the old file, where there is one.
Mirrors ==
    /\ append.stage = "logged"
    /\ legacy' = IF hasLegacy THEN Plus(legacy, append.day, append.yuan) ELSE legacy
    /\ append' = [append EXCEPT !.stage = "mirrored"]
    /\ UNCHANGED <<today, cap, dated, hasLegacy, counters, payer, forgotten>>

Bumps ==
    /\ append.stage = "mirrored"
    /\ counters' = Bumped(append.yuan, append.day)
    /\ append' = NoAppend
    /\ UNCHANGED <<today, cap, dated, hasLegacy, legacy, payer, forgotten>>

\* The entry a crash keeps out of the old file.
Uncopied(m) == IF append.stage = "logged" /\ Month(append.day) = m THEN append.yuan ELSE 0

\* The process ends and another begins; _counters_loaded is False again.  Where
\* there is an old file it knows of all but what was being copied; else of nothing.
Crashes ==
    /\ counters' = Unloaded
    /\ payer' = [r \in Payers |-> "away"]
    /\ append' = NoAppend
    /\ forgotten' = [m \in Months |->
           IF hasLegacy THEN forgotten[m] + Uncopied(m) ELSE dated.month[m]]
    /\ UNCHANGED <<today, cap, dated, hasLegacy, legacy>>

NextDay ==
    /\ today < LastDay
    /\ today' = today + 1
    /\ UNCHANGED <<cap, dated, hasLegacy, legacy, counters, payer, append, forgotten>>

CostNext ==
    \/ \E r \in Payers : AsksFirst(r) \/ AsksAgain(r) \/ Logs(r)
    \/ Mirrors \/ Bumps \/ Crashes \/ NextDay

CostSpec == CostInit /\ [][CostNext]_costVars

-----------------------------------------------------------------------------
InProgress == IF append = NoAppend THEN 0 ELSE append.yuan

\* cost.py:163, "overcount is safe, undercount is not": the month's count is short
\* of the month's spend by no more than the entry being written and what the
\* processes before did not leave behind, across midnights and restarts.
NeverUndercounts ==
    counters.loaded =>
        dated.month[Month(today)] <= MonthTotal(counters) + InProgress + forgotten[Month(today)]

\* Nor is a cap hit early: with a cap the guard has loaded the counters before
\* the first charge, which is then counted once and not, as without a cap, both
\* read from the file and added.
NotCountedTwice ==
    MonthTotal(counters) <= dated.month[Month(today)] + IF cap > 0 THEN 0 ELSE MaxPrice

\* What the cap is checked against follows what was spent, from both sides.
CountFollowsLog == NeverUndercounts /\ NotCountedTwice

\* The cap is checked before a call and counted after it: a month ends below it
\* but for a call of each request in flight, and what restarts forgot.  With the
\* old file that is the entries crashes tore; without it, and nothing creates it
\* (cost.py:49), all that was spent before: the cap is one of the process's life.
CapOvershoot ==
    cap > 0 =>
        \A m \in Months :
            dated.month[m] <= cap - 1 + MaxPrice * Cardinality(Payers) + forgotten[m]
=============================================================================

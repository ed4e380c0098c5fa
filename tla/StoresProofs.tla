---------------------------- MODULE StoresProofs ----------------------------
(***************************************************************************)
(* What is proved of the parts that keep a state of their own: the monthly *)
(* count and its cap, the sacred ledger, the response cache, the readiness *)
(* probe, the learned head and the panel of judges, for any prices, caps,  *)
(* calendars, keys, processes, cells, floors, panels and numbers of        *)
(* requests, wherever a process dies and whichever stores come and go; and *)
(* that each keeps to it beside the others, among them the quotas of API   *)
(* keys, whose proofs are in KeyQuotaProofs.                               *)
(***************************************************************************)
EXTENDS Stores, KeyQuotaProofs, FiniteSetsExt, FiniteSetTheorems, WellFoundedInduction, TLAPS

-----------------------------------------------------------------------------
(* The monthly count (cost.py) *)

ThisMonth == Month(today)

\* The part of a month's log that append_log() has still to count, and to copy.
Within(m) == IF append.stage # "none" /\ Month(append.day) = m THEN append.yuan ELSE 0
Awaiting(m) == IF append.stage = "logged" /\ Month(append.day) = m THEN append.yuan ELSE 0
Slack == IF cap > 0 THEN 0 ELSE MaxPrice

\* What a start reads of a month: the old file, where there is one.
Read(m) == IF hasLegacy THEN legacy.month[m] ELSE 0

\* The old file, where there is one, is short of the log by what is being
\* copied and what was forgotten, and never ahead of it.
Files == \A m \in Months :
    /\ legacy.month[m] + Awaiting(m) <= dated.month[m]
    /\ hasLegacy => dated.month[m] <= legacy.month[m] + Awaiting(m) + forgotten[m]
    /\ Within(m) <= dated.month[m]
    /\ m > ThisMonth => dated.month[m] = 0

\* So are the counters, once they are loaded, by what is being counted.
Follows(c) ==
    /\ c.month.of <= ThisMonth
    /\ dated.month[ThisMonth] <= MonthTotal(c) + Within(ThisMonth) + forgotten[ThisMonth]
    /\ MonthTotal(c) + Within(ThisMonth) <= dated.month[ThisMonth] + Slack

\* A request past its first guard has had the counters loaded, under a cap.
Counters ==
    /\ counters.loaded => Follows(counters)
    /\ ~counters.loaded => counters.month.yuan = 0
    /\ ~counters.loaded /\ ~hasLegacy =>
         \A m \in Months : dated.month[m] <= Within(m) + forgotten[m]
    /\ cap > 0 /\ (append.stage # "none" \/ \E r \in Payers : payer[r] # "away") => counters.loaded

Appending ==
    /\ append.stage = "none" => append = NoAppend
    /\ append.day <= today

CostInv == CostTypeOK /\ Appending /\ Files /\ Counters

-----------------------------------------------------------------------------
(* The calendar and the prices *)

\* Integer division, for the calendar.
LEMMA Quotient ==
    ASSUME NEW n \in Nat \ {0}, NEW a \in Nat
    PROVE  a \div n \in Nat /\ n * (a \div n) <= a /\ a < n * (a \div n) + n
    BY SMTT(20)

\* A greater factor makes a product greater by one more addend at least.
LEMMA Multiples ==
    ASSUME NEW n \in Nat \ {0}, NEW p \in Nat, NEW q \in Nat, p > q
    PROVE  n * p >= n * q + n
<1>1. PICK k \in Nat : p = q + 1 + k
  <2>1. p - (q + 1) \in Nat
    OBVIOUS
  <2> QED BY <2>1
<1>2. n * p = n * q + n + n * k
    BY <1>1, SMTT(20)
<1>3. n * k \in Nat /\ n * q \in Nat
    OBVIOUS
<1> QED BY <1>2, <1>3

\* Division keeps the order.
LEMMA QuotientGrows ==
    ASSUME NEW n \in Nat \ {0}, NEW a \in Nat, NEW b \in Nat, a <= b
    PROVE  a \div n <= b \div n
<1> SUFFICES ASSUME a \div n > b \div n PROVE FALSE
    BY Quotient
<1>1. n * (a \div n) >= n * (b \div n) + n
    BY Multiples, Quotient
<1>2. n * (a \div n) \in Nat /\ n * (b \div n) \in Nat
    BY Quotient
<1> QED BY <1>1, <1>2, Quotient

\* Every day has its month, and later days no earlier ones.
LEMMA Calendar ==
    /\ Days \subseteq Nat /\ Months \subseteq Nat /\ 0 \in Days
    /\ \A d \in Days : Month(d) \in Months
    /\ \A d, e \in Days : d <= e => Month(d) <= Month(e)
<1>1. Days \subseteq Nat /\ 0 \in Days /\ DaysPerMonth \in Nat \ {0}
    BY CostAssumption DEF Days
<1>2. Months \subseteq Nat
    BY <1>1, Quotient DEF Months, Month
<1>3. \A d \in Days : Month(d) \in Months
    BY DEF Months
<1>4. \A d, e \in Days : d <= e => Month(d) <= Month(e)
    BY <1>1, QuotientGrows DEF Month
<1> QED BY <1>1, <1>2, <1>3, <1>4

\* There is a dearest call.
LEMMA Dearest == MaxPrice \in Nat /\ \A p \in Prices : p \in Nat /\ p <= MaxPrice
    BY CostAssumption DEF MaxPrice

-----------------------------------------------------------------------------
(* The counters *)

CounterType == [loaded : BOOLEAN, day : [of : Days, yuan : Nat], month : [of : Months, yuan : Nat]]

\* Reading the old file before anything is logged brings the counters level.
LEMMA HydratedFollows ==
    ASSUME CostInv
    PROVE  /\ Hydrated \in CounterType /\ Hydrated.loaded
           /\ append.stage = "none" => Follows(Hydrated)
<1>1. today \in Days /\ ThisMonth \in Months /\ ThisMonth \in Nat /\ forgotten[ThisMonth] \in Nat
    BY Calendar DEF CostInv, CostTypeOK, ThisMonth
<1>2. legacy.month[ThisMonth] \in Nat /\ legacy.day[today] \in Nat /\ dated.month[ThisMonth] \in Nat
    BY <1>1 DEF CostInv, CostTypeOK, File
<1>3. Hydrated \in CounterType /\ Hydrated.loaded
    BY <1>1, <1>2 DEF CostInv, CostTypeOK, Hydrated, CounterType, ThisMonth
<1>4. ASSUME append.stage = "none" PROVE Follows(Hydrated)
  <2>1. Within(ThisMonth) = 0 /\ Awaiting(ThisMonth) = 0
    BY <1>4 DEF Within, Awaiting
  <2>2. CASE counters.loaded
    BY <2>2 DEF Hydrated, CostInv, Counters
  <2>3. CASE ~counters.loaded
    <3>1. MonthTotal(Hydrated) = IF hasLegacy THEN legacy.month[ThisMonth] ELSE 0
        BY <2>3 DEF MonthTotal, Hydrated, ThisMonth
    <3>2. Hydrated.month.of = ThisMonth
        BY <2>3 DEF Hydrated, ThisMonth
    <3>3. /\ legacy.month[ThisMonth] <= dated.month[ThisMonth]
          /\ dated.month[ThisMonth] <= Read(ThisMonth) + forgotten[ThisMonth]
        BY <1>1, <1>2, <2>1, <2>3 DEF CostInv, Files, Counters, Read
    <3>4. Slack \in Nat
        BY Dearest DEF Slack
    <3> QED BY <1>1, <1>2, <2>1, <3>1, <3>2, <3>3, <3>4 DEF Follows, Read
  <2> QED BY <2>2, <2>3
<1> QED BY <1>3, <1>4

-----------------------------------------------------------------------------
(* The steps *)

\* A guard loads the counters where there is a cap, and writes nothing else.
LEMMA GuardStep ==
    ASSUME CostInv, NEW r \in Payers, AsksFirst(r) \/ AsksAgain(r)
    PROVE  CostInv' /\ append.stage = "none" /\ UNCHANGED <<today, cap, dated, hasLegacy, forgotten>>
<1>1. /\ append = NoAppend /\ append.stage = "none"
      /\ counters' = Checked
      /\ UNCHANGED <<today, cap, dated, hasLegacy, legacy, append, forgotten>>
    BY DEF AsksFirst, AsksAgain, Guards, NoAppend
<1>2. payer' \in [Payers -> {"away", "asked", "calling"}]
    BY DEF AsksFirst, AsksAgain, Guards, CostInv, CostTypeOK
<1>3. counters' \in CounterType /\ CostTypeOK'
    BY <1>1, <1>2, HydratedFollows DEF CostInv, CostTypeOK, Checked, CounterType
<1>4. Appending' /\ Files'
    BY <1>1 DEF CostInv, Appending, Files, ThisMonth, Within, Awaiting
<1>5. Counters'
  <2>1. CASE cap > 0
    <3>1. counters' = Hydrated
        BY <1>1, <2>1 DEF Checked
    <3>2. Follows(Hydrated)
        BY <1>1, HydratedFollows
    <3>3. Follows(counters)'
        BY <1>1, <3>1, <3>2 DEF Follows, ThisMonth, Within, Slack, MonthTotal
    <3> QED BY <1>1, <3>1, <3>3, HydratedFollows DEF Counters
  <2>2. CASE ~(cap > 0)
    <3>1. counters' = counters
        BY <1>1, <2>2 DEF Checked
    <3> QED BY <1>1, <2>2, <3>1 DEF CostInv, Counters, Follows, ThisMonth, Within, Slack, MonthTotal
  <2> QED BY <2>1, <2>2
<1> QED BY <1>1, <1>3, <1>4, <1>5 DEF CostInv

\* A file with one more line differs in one month.
LEMMA OneLineMore ==
    ASSUME NEW file \in File, NEW day \in Days, NEW yuan \in Nat
    PROVE  /\ Plus(file, day, yuan) \in File
           /\ \A m \in Months :
                Plus(file, day, yuan).month[m] =
                    file.month[m] + IF m = Month(day) THEN yuan ELSE 0
<1>1. Month(day) \in Months
    BY Calendar
<1>2. file.month \in [Months -> Nat] /\ file.day \in [Days -> Nat]
    BY DEF File
<1>3. /\ Plus(file, day, yuan).month = [file.month EXCEPT ![Month(day)] = @ + yuan]
      /\ Plus(file, day, yuan).month \in [Months -> Nat]
    BY <1>1, <1>2 DEF Plus
<1>4. Plus(file, day, yuan) \in File
    BY <1>2, <1>3 DEF Plus, File
<1> QED BY <1>1, <1>2, <1>3, <1>4

\* A logged entry is one that is to be copied and counted.
LEMMA LogStep ==
    ASSUME CostInv, NEW r \in Payers, Logs(r)
    PROVE  CostInv'
<1>1. PICK yuan \in Prices :
        /\ dated' = Plus(dated, today, yuan)
        /\ append' = [stage |-> "logged", yuan |-> yuan, day |-> today]
    BY DEF Logs
<1>2. /\ append = NoAppend /\ payer[r] = "calling"
      /\ payer' = [payer EXCEPT ![r] = "away"]
      /\ UNCHANGED <<today, cap, hasLegacy, legacy, counters, forgotten>>
    BY DEF Logs
<1>3. yuan \in Nat /\ today \in Days /\ today \in Nat /\ ThisMonth \in Months /\ ThisMonth \in Nat
    BY Dearest, Calendar DEF CostInv, CostTypeOK, ThisMonth
<1>4. /\ dated' \in File
      /\ \A m \in Months : dated'.month[m] = dated.month[m] + IF m = ThisMonth THEN yuan ELSE 0
  <2>1. dated \in File
    BY DEF CostInv, CostTypeOK
  <2> QED BY <1>1, <1>3, <2>1, OneLineMore DEF ThisMonth
<1>5. CostTypeOK'
    BY <1>1, <1>2, <1>3, <1>4 DEF CostInv, CostTypeOK
<1>6. /\ \A m \in Months : Within(m) = 0 /\ Awaiting(m) = 0
      /\ \A m \in Months : Within(m)' = (IF m = ThisMonth THEN yuan ELSE 0)
      /\ \A m \in Months : Awaiting(m)' = (IF m = ThisMonth THEN yuan ELSE 0)
    BY <1>1, <1>2 DEF Within, Awaiting, NoAppend, ThisMonth
<1>7. \A m \in Months : dated.month[m] \in Nat /\ legacy.month[m] \in Nat /\ forgotten[m] \in Nat
    BY DEF CostInv, CostTypeOK, File
<1>8. Files'
  <2> SUFFICES ASSUME NEW m \in Months
               PROVE  /\ legacy'.month[m] + Awaiting(m)' <= dated'.month[m]
                      /\ hasLegacy' => dated'.month[m] <= legacy'.month[m] + Awaiting(m)' + forgotten'[m]
                      /\ Within(m)' <= dated'.month[m]
                      /\ m > ThisMonth' => dated'.month[m] = 0
    BY DEF Files
  <2>1. ThisMonth' = ThisMonth
    BY <1>2 DEF ThisMonth
  <2>2. /\ legacy.month[m] <= dated.month[m]
        /\ hasLegacy => dated.month[m] <= legacy.month[m] + forgotten[m]
        /\ m > ThisMonth => dated.month[m] = 0
    BY <1>6, <1>7 DEF CostInv, Files
  <2>3. m \in Nat
    BY Calendar
  <2> QED BY <1>2, <1>3, <1>4, <1>6, <1>7, <2>1, <2>2, <2>3
<1>9. Appending'
    BY <1>1, <1>2, <1>3 DEF Appending
<1>10. Counters'
  <2>1. MonthTotal(counters)' = MonthTotal(counters) /\ MonthTotal(counters) \in Nat
    BY <1>2 DEF CostInv, CostTypeOK, MonthTotal
  <2>2. Follows(counters) => Follows(counters)'
    <3>1. Slack' = Slack /\ Slack \in Nat /\ ThisMonth' = ThisMonth
        BY <1>2, Dearest DEF Slack, ThisMonth
    <3> QED BY <1>2, <1>3, <1>4, <1>6, <1>7, <2>1, <3>1 DEF Follows
  <2>3. cap > 0 => counters.loaded
    BY <1>2 DEF CostInv, Counters
  <2>4. ASSUME ~counters.loaded, ~hasLegacy, NEW m \in Months
        PROVE  dated'.month[m] <= Within(m)' + forgotten'[m]
    BY <1>2, <1>3, <1>4, <1>6, <1>7, <2>4 DEF CostInv, Counters
  <2> QED BY <1>2, <2>2, <2>3, <2>4 DEF CostInv, Counters
<1> QED BY <1>5, <1>8, <1>9, <1>10 DEF CostInv

\* The copy brings the old file level, where there is one.
LEMMA MirrorStep ==
    ASSUME CostInv, Mirrors
    PROVE  CostInv'
<1>1. /\ append.stage = "logged" /\ append' = [append EXCEPT !.stage = "mirrored"]
      /\ legacy' = IF hasLegacy THEN Plus(legacy, append.day, append.yuan) ELSE legacy
      /\ UNCHANGED <<today, cap, dated, hasLegacy, counters, payer, forgotten>>
    BY DEF Mirrors
<1>2. append.yuan \in Nat /\ append.day \in Days
    BY Dearest DEF CostInv, CostTypeOK
<1>3. /\ append'.stage = "mirrored" /\ append'.day = append.day /\ append'.yuan = append.yuan
      /\ append' \in [stage : {"none", "logged", "mirrored"}, yuan : Prices \cup {0}, day : Days]
    BY <1>1 DEF CostInv, CostTypeOK
<1>4. /\ legacy' \in File
      /\ \A m \in Months :
           legacy'.month[m] = legacy.month[m] + IF hasLegacy THEN Awaiting(m) ELSE 0
  <2>1. legacy \in File /\ \A m \in Months : legacy.month[m] \in Nat
    BY DEF CostInv, CostTypeOK, File
  <2>2. \A m \in Months : Awaiting(m) = IF m = Month(append.day) THEN append.yuan ELSE 0
    BY <1>1 DEF Awaiting
  <2>3. CASE hasLegacy
    BY <1>1, <1>2, <2>1, <2>2, <2>3, OneLineMore
  <2>4. CASE ~hasLegacy
    BY <1>1, <2>1, <2>4
  <2> QED BY <2>3, <2>4
<1>5. CostTypeOK'
    BY <1>1, <1>3, <1>4 DEF CostInv, CostTypeOK
<1>6. \A m \in Months : Within(m)' = Within(m) /\ Awaiting(m)' = 0 /\ Awaiting(m) \in Nat
    BY <1>1, <1>2, <1>3 DEF Within, Awaiting
<1>7. \A m \in Months : dated.month[m] \in Nat /\ legacy.month[m] \in Nat /\ forgotten[m] \in Nat
    BY DEF CostInv, CostTypeOK, File
<1>8. Files'
    BY <1>1, <1>4, <1>6, <1>7 DEF CostInv, Files, ThisMonth
<1>9. Appending'
    BY <1>1, <1>3 DEF CostInv, Appending
<1>10. Counters'
  <2>1. MonthTotal(counters)' = MonthTotal(counters) /\ ThisMonth' = ThisMonth /\ Slack' = Slack /\ ThisMonth \in Months
    BY <1>1, Calendar DEF CostInv, CostTypeOK, MonthTotal, ThisMonth, Slack
  <2>2. Follows(counters) => Follows(counters)'
    BY <1>1, <1>6, <2>1 DEF Follows
  <2>3. ASSUME ~counters.loaded, ~hasLegacy, NEW m \in Months
        PROVE  dated'.month[m] <= Within(m)' + forgotten'[m]
    BY <1>1, <1>6, <2>3 DEF CostInv, Counters
  <2>4. append.stage # "none"
    BY <1>1
  <2> QED BY <1>1, <1>3, <2>2, <2>3, <2>4 DEF CostInv, Counters
<1> QED BY <1>5, <1>8, <1>9, <1>10 DEF CostInv

\* What a count says of a day (month).
CountedTotal(count, of) == IF count.of = of THEN count.yuan ELSE 0

\* A count takes an entry of its own day (month), or of today's, and no other.
LEMMA CountedOne ==
    ASSUME NEW count, NEW moment, NEW of, NEW yuan \in Nat,
           count = [of |-> count.of, yuan |-> count.yuan], count.yuan \in Nat
    PROVE  LET c == Counted(count, moment, of, yuan)
           IN  /\ c = [of |-> c.of, yuan |-> c.yuan] /\ c.yuan \in Nat
               /\ c.of = count.of \/ c.of = moment
               /\ of = moment => CountedTotal(c, moment) = CountedTotal(count, moment) + yuan
               /\ of # moment => CountedTotal(c, moment) = CountedTotal(count, moment)
<1>1. CASE count.of # moment /\ of = moment
  <2>1. Counted(count, moment, of, yuan) = [of |-> moment, yuan |-> yuan]
    BY <1>1 DEF Counted, Rolled
  <2> QED BY <1>1, <2>1 DEF CountedTotal
<1>2. CASE ~(count.of # moment /\ of = moment) /\ count.of = of
  <2>1. Counted(count, moment, of, yuan) = [of |-> count.of, yuan |-> count.yuan + yuan]
    BY <1>2 DEF Counted, Rolled
  <2> QED BY <1>2, <2>1 DEF CountedTotal
<1>3. CASE ~(count.of # moment /\ of = moment) /\ count.of # of
  <2>1. Counted(count, moment, of, yuan) = count
    BY <1>3 DEF Counted, Rolled
  <2> QED BY <1>3, <2>1 DEF CountedTotal
<1> QED BY <1>1, <1>2, <1>3

\* The entry is counted in the month it was logged in, unless that is over.
LEMMA BumpStep ==
    ASSUME CostInv, Bumps
    PROVE  CostInv'
<1> DEFINE T(c) == MonthTotal(c)  M == Month(append.day)
           w == IF M = ThisMonth THEN append.yuan ELSE 0
<1>1. /\ append.stage = "mirrored" /\ append' = NoAppend
      /\ counters' = Bumped(append.yuan, append.day)
      /\ UNCHANGED <<today, cap, dated, hasLegacy, legacy, payer, forgotten>>
    BY DEF Bumps
<1>2. /\ append.yuan \in Nat /\ append.yuan <= MaxPrice /\ append.day \in Days /\ today \in Days
      /\ M \in Months /\ ThisMonth \in Months /\ M \in Nat /\ ThisMonth \in Nat /\ MaxPrice \in Nat
      /\ counters \in CounterType
  <2>1. /\ append.yuan \in Prices \cup {0} /\ append.day \in Days /\ today \in Days
        /\ counters \in CounterType
    BY DEF CostInv, CostTypeOK, CounterType
  <2>2. append.yuan \in Nat /\ append.yuan <= MaxPrice /\ MaxPrice \in Nat
    BY <2>1, Dearest
  <2>3. M \in Months /\ ThisMonth \in Months /\ M \in Nat /\ ThisMonth \in Nat
    BY <2>1, Calendar DEF ThisMonth
  <2> QED BY <2>1, <2>2, <2>3
<1>3. Within(ThisMonth) = w /\ Awaiting(ThisMonth) = 0 /\ w \in Nat
    BY <1>1, <1>2 DEF Within, Awaiting
<1>4. dated.month[ThisMonth] \in Nat /\ legacy.month[ThisMonth] \in Nat /\ forgotten[ThisMonth] \in Nat
    BY <1>2 DEF CostInv, CostTypeOK, File
<1>5. Slack \in Nat /\ (~counters.loaded => Slack = MaxPrice)
    BY <1>1, <1>2 DEF CostInv, Counters, Slack
<1>6. ASSUME NEW c \in {counters, Hydrated}, c.loaded
      PROVE  /\ c.month.of <= ThisMonth
             /\ dated.month[ThisMonth] <= T(c) + w + forgotten[ThisMonth]
             /\ T(c) + w <= dated.month[ThisMonth] + Slack
  <2>1. CASE counters.loaded
    <3>1. c = counters
        BY <2>1 DEF Hydrated
    <3> QED BY <1>3, <2>1, <3>1 DEF CostInv, Counters, Follows
  <2>2. CASE ~counters.loaded
    <3>1. c = Hydrated
        BY <1>6, <2>2
    <3>2. T(c) = (IF hasLegacy THEN legacy.month[ThisMonth] ELSE 0) /\ c.month.of = ThisMonth
        BY <2>2, <3>1 DEF MonthTotal, Hydrated, ThisMonth
    <3>3. /\ legacy.month[ThisMonth] <= dated.month[ThisMonth]
          /\ dated.month[ThisMonth] <= Read(ThisMonth) + w + forgotten[ThisMonth]
        BY <1>2, <1>3, <1>4, <2>2 DEF CostInv, Files, Counters, Read
    <3>4. w <= Slack
        BY <1>2, <1>5, <2>2
    <3> QED BY <1>2, <1>3, <1>4, <1>5, <3>2, <3>3, <3>4 DEF Read
  <2> QED BY <2>1, <2>2
<1>7. /\ counters' \in CounterType
      /\ counters'.loaded =>
           /\ counters'.month.of <= ThisMonth
           /\ dated.month[ThisMonth] <= T(counters') + forgotten[ThisMonth]
           /\ T(counters') <= dated.month[ThisMonth] + Slack
      /\ ~counters'.loaded => counters' = counters /\ append.yuan = 0
      /\ counters.loaded => counters'.loaded
  <2>1. CASE append.yuan = 0
    <3>1. counters' = counters /\ w = 0
        BY <1>1, <2>1 DEF Bumped
    <3> HIDE DEF w, T
    <3>2. T(counters') = T(counters) /\ T(counters) \in Nat
        BY <1>2, <3>1 DEF T, MonthTotal, CounterType
    <3>3. ASSUME counters.loaded
          PROVE  /\ counters.month.of <= ThisMonth
                 /\ dated.month[ThisMonth] <= T(counters) + w + forgotten[ThisMonth]
                 /\ T(counters) + w <= dated.month[ThisMonth] + Slack
        BY <1>6, <3>3
    <3> QED BY <1>2, <1>4, <1>5, <2>1, <3>1, <3>2, <3>3
  <2>2. CASE append.yuan # 0
    <3>1. counters' = [Hydrated EXCEPT
                         !.day = Counted(@, today, append.day, append.yuan),
                         !.month = Counted(@, ThisMonth, M, append.yuan)]
        BY <1>1, <2>2 DEF Bumped, ThisMonth
    <3>2. Hydrated \in CounterType /\ Hydrated.loaded
        BY HydratedFollows
    <3>3. /\ Counted(Hydrated.day, today, append.day, append.yuan) \in [of : Days, yuan : Nat]
          /\ Counted(Hydrated.month, ThisMonth, M, append.yuan) \in [of : Months, yuan : Nat]
      <4>1. ASSUME NEW S, NEW count \in [of : S, yuan : Nat], NEW moment \in S, NEW of, NEW yuan \in Nat
            PROVE  Counted(count, moment, of, yuan) \in [of : S, yuan : Nat]
        <5>1. count = [of |-> count.of, yuan |-> count.yuan] /\ count.of \in S /\ count.yuan \in Nat
            OBVIOUS
        <5> QED BY <5>1, CountedOne
      <4>2. /\ Hydrated.day \in [of : Days, yuan : Nat]
            /\ Hydrated.month \in [of : Months, yuan : Nat]
        BY <3>2 DEF CounterType
      <4> QED BY <1>2, <4>1, <4>2
    <3>4. counters' \in CounterType /\ counters'.loaded
        BY <3>1, <3>2, <3>3 DEF CounterType
    <3>5. counters'.month = Counted(Hydrated.month, ThisMonth, M, append.yuan)
        BY <3>1, <3>2 DEF CounterType
    <3>6. /\ counters'.month.of \in {Hydrated.month.of, ThisMonth}
          /\ T(counters') = T(Hydrated) + w
      <4>1. Hydrated.month \in [of : Months, yuan : Nat]
        BY <3>2 DEF CounterType
      <4>2. /\ counters'.month.of \in {Hydrated.month.of, ThisMonth}
            /\ M = ThisMonth => CountedTotal(counters'.month, ThisMonth) = CountedTotal(Hydrated.month, ThisMonth) + append.yuan
            /\ M # ThisMonth => CountedTotal(counters'.month, ThisMonth) = CountedTotal(Hydrated.month, ThisMonth)
        <5>1. Hydrated.month = [of |-> Hydrated.month.of, yuan |-> Hydrated.month.yuan] /\ Hydrated.month.yuan \in Nat
            BY <4>1
        <5> QED BY <1>2, <3>5, <5>1, CountedOne
      <4>3. T(counters') = CountedTotal(counters'.month, ThisMonth) /\ T(Hydrated) = CountedTotal(Hydrated.month, ThisMonth)
        BY DEF MonthTotal, CountedTotal, ThisMonth
      <4>4. T(Hydrated) \in Nat
        BY <4>1 DEF MonthTotal
      <4> QED BY <4>2, <4>3, <4>4
    <3>7. T(Hydrated) \in Nat
        BY <3>2 DEF MonthTotal, CounterType
    <3>8. Hydrated.month.of <= ThisMonth /\ ThisMonth <= ThisMonth
        BY <1>2, <1>6, <3>2
    <3> QED BY <1>6, <3>2, <3>4, <3>6, <3>7, <3>8
  <2> QED BY <2>1, <2>2
<1>8. CostTypeOK'
    BY <1>1, <1>7, Calendar DEF CostInv, CostTypeOK, CounterType, NoAppend
<1>9. Files'
  <2>1. \A m \in Months : Within(m)' = 0 /\ Awaiting(m)' = 0 /\ Awaiting(m) = 0
    BY <1>1 DEF Within, Awaiting, NoAppend
  <2>2. \A m \in Months : dated.month[m] \in Nat
    BY DEF CostInv, CostTypeOK, File
  <2> QED BY <1>1, <2>1, <2>2 DEF CostInv, Files, ThisMonth
<1>10. Appending'
    BY <1>1, <1>2, Calendar DEF Appending, NoAppend
<1>11. Counters'
  <2>1. Within(ThisMonth)' = 0 /\ ThisMonth' = ThisMonth /\ Slack' = Slack /\ MonthTotal(counters)' = T(counters')
    BY <1>1 DEF Within, NoAppend, ThisMonth, Slack, MonthTotal
  <2>2. T(counters') \in Nat
    BY <1>7 DEF MonthTotal, CounterType
  <2>3. counters'.loaded => Follows(counters)'
    BY <1>1, <1>4, <1>5, <1>7, <2>1, <2>2 DEF Follows
  <2>4. cap' > 0 /\ (append'.stage # "none" \/ \E r \in Payers : payer'[r] # "away")
        => counters'.loaded
    BY <1>1, <1>7 DEF CostInv, Counters
  <2>5. ASSUME ~counters'.loaded, ~hasLegacy, NEW m \in Months
        PROVE  dated'.month[m] <= Within(m)' + forgotten'[m]
    <3>1. ~counters.loaded /\ append.yuan = 0
        BY <1>7, <2>5
    <3>2. Within(m) = 0 /\ Within(m)' = 0
        BY <1>1, <3>1 DEF Within, NoAppend
    <3> QED BY <1>1, <2>5, <3>1, <3>2 DEF CostInv, Counters
  <2>6. hasLegacy' = hasLegacy /\ (~counters'.loaded => counters'.month.yuan = 0)
    BY <1>1, <1>7 DEF CostInv, Counters
  <2> QED BY <2>3, <2>4, <2>5, <2>6 DEF Counters
<1> QED BY <1>8, <1>9, <1>10, <1>11 DEF CostInv

\* A crash takes the counters, and with them what no file tells the next process.
LEMMA CrashStep ==
    ASSUME CostInv, Crashes
    PROVE  CostInv'
<1>1. /\ counters' = Unloaded /\ append' = NoAppend /\ payer' = [r \in Payers |-> "away"]
      /\ forgotten' = [m \in Months |->
             IF hasLegacy THEN forgotten[m] + Uncopied(m) ELSE dated.month[m]]
      /\ UNCHANGED <<today, cap, dated, hasLegacy, legacy>>
    BY DEF Crashes
<1>2. append.yuan \in Nat /\ 0 \in Days /\ 0 \in Months /\ today \in Nat
  <2>1. Month(0) = 0
    BY CostAssumption, SMTT(20) DEF Month
  <2> QED BY <2>1, Dearest, Calendar DEF CostInv, CostTypeOK
<1>3. \A m \in Months : dated.month[m] \in Nat /\ forgotten[m] \in Nat /\ Uncopied(m) \in Nat
    BY <1>2 DEF CostInv, CostTypeOK, File, Uncopied
<1>4. CostTypeOK'
    BY <1>1, <1>2, <1>3 DEF CostInv, CostTypeOK, Unloaded, NoAppend
<1>5. Appending'
    BY <1>1, <1>2 DEF Appending, NoAppend
<1>6. Counters'
    BY <1>1, <1>3 DEF Counters, Unloaded, NoAppend, Within
<1>7. Files'
  <2>1. \A m \in Months : /\ Within(m)' = 0 /\ Awaiting(m)' = 0
                           /\ Awaiting(m) \in Nat /\ Awaiting(m) = Uncopied(m)
    BY <1>1, <1>2 DEF Within, Awaiting, Uncopied, NoAppend
  <2>2. \A m \in Months : dated.month[m] \in Nat /\ legacy.month[m] \in Nat
    BY DEF CostInv, CostTypeOK, File
  <2> QED BY <1>1, <1>2, <1>3, <2>1, <2>2 DEF CostInv, Files, ThisMonth
<1> QED BY <1>4, <1>5, <1>6, <1>7 DEF CostInv

\* A new month begins with nothing logged, and with counters of an old one.
LEMMA DayStep ==
    ASSUME CostInv, NextDay
    PROVE  CostInv'
<1>1. /\ today < LastDay /\ today' = today + 1
      /\ UNCHANGED <<cap, dated, hasLegacy, legacy, counters, payer, append, forgotten>>
    BY DEF NextDay
<1>2. today \in Days /\ today' \in Days /\ today \in Nat /\ append.day \in Days /\ append.day <= today
    BY <1>1, CostAssumption DEF CostInv, CostTypeOK, Days, Appending
<1>3. CostTypeOK'
    BY <1>1, <1>2 DEF CostInv, CostTypeOK
<1>4. Appending'
  <2>1. append.day \in Nat
    BY <1>2, Calendar
  <2> QED BY <1>1, <1>2, <2>1 DEF CostInv, Appending
<1>5. /\ ThisMonth \in Months /\ ThisMonth' \in Months /\ ThisMonth \in Nat /\ ThisMonth' \in Nat /\ ThisMonth <= ThisMonth'
      /\ Month(append.day) \in Nat /\ Month(append.day) <= ThisMonth
  <2>1. ThisMonth = Month(today) /\ ThisMonth' = Month(today') /\ today <= today'
    BY <1>1, <1>2 DEF ThisMonth
  <2>2. /\ Month(today) \in Months /\ Month(today') \in Months /\ Month(append.day) \in Months
        /\ Month(today) <= Month(today') /\ Month(append.day) <= Month(today)
    BY <1>2, <2>1, Calendar
  <2>3. Months \subseteq Nat
    BY Calendar
  <2> QED BY <2>1, <2>2, <2>3
<1>6. \A m \in Months : Within(m)' = Within(m) /\ Awaiting(m)' = Awaiting(m)
    BY <1>1 DEF Within, Awaiting
<1>7. Files'
  <2>1. \A m \in Months : m \in Nat
    BY Calendar
  <2> QED BY <1>1, <1>5, <1>6, <2>1 DEF CostInv, Files
<1>8. ASSUME counters.loaded PROVE Follows(counters)'
  <2>1. Follows(counters) /\ Slack' = Slack /\ Slack \in Nat
    BY <1>1, <1>8, Dearest DEF CostInv, Counters, Slack
  <2>2. CASE ThisMonth' = ThisMonth
    <3>1. MonthTotal(counters)' = MonthTotal(counters)
        BY <1>1, <2>2 DEF MonthTotal, ThisMonth
    <3> QED BY <1>1, <1>5, <1>6, <2>1, <2>2, <3>1 DEF Follows
  <2>3. CASE ThisMonth' # ThisMonth
    <3>1. ThisMonth' > ThisMonth
        BY <1>5, <2>3
    <3>2. dated.month[ThisMonth'] = 0
        BY <1>5, <3>1 DEF CostInv, Files
    <3>3. counters.month.of \in Nat /\ counters.month.of # ThisMonth'
      <4>1. counters.month.of \in Months /\ counters.month.of <= ThisMonth
        BY <2>1 DEF CostInv, CostTypeOK, Follows
      <4>2. counters.month.of \in Nat
        BY <4>1, Calendar
      <4> QED BY <1>5, <3>1, <4>1, <4>2
    <3>4. MonthTotal(counters)' = 0
        BY <1>1, <3>3 DEF MonthTotal, ThisMonth
    <3>5. Within(ThisMonth)' = 0
        BY <1>1, <1>5, <3>1 DEF Within
    <3>6. forgotten[ThisMonth'] \in Nat /\ counters.month.of <= ThisMonth'
        BY <1>5, <2>1, <3>3 DEF CostInv, CostTypeOK, Follows
    <3> QED BY <1>1, <2>1, <3>2, <3>4, <3>5, <3>6 DEF Follows
  <2> QED BY <2>2, <2>3
<1>9. Counters'
  <2>1. ASSUME ~counters.loaded, ~hasLegacy, NEW m \in Months
        PROVE  dated'.month[m] <= Within(m)' + forgotten'[m]
    BY <1>1, <1>6, <2>1 DEF CostInv, Counters
  <2> QED BY <1>1, <1>8, <2>1 DEF CostInv, Counters
<1> QED BY <1>3, <1>4, <1>7, <1>9 DEF CostInv

\* At the start nothing is logged, copied or counted.
LEMMA CostInitInv == CostInit => CostInv
<1> SUFFICES ASSUME CostInit PROVE CostInv
    OBVIOUS
<1>1. 0 \in Days /\ Month(0) \in Months /\ Month(0) = 0
  <2>1. Month(0) = 0
    BY CostAssumption, SMTT(20) DEF Month
  <2> QED BY <2>1, Calendar
<1>2. Empty \in File /\ \A m \in Months : Empty.month[m] = 0
    BY DEF Empty, File
<1>3. CostTypeOK
    BY <1>1, <1>2 DEF CostInit, CostTypeOK, Unloaded, NoAppend
<1>4. Files
    BY <1>2, <1>1 DEF CostInit, Files, Within, Awaiting, NoAppend
<1>5. Appending /\ Counters
  <2>1. \A m \in Months : dated.month[m] <= Within(m) + forgotten[m]
    BY <1>2 DEF CostInit, Within, NoAppend
  <2> QED BY <2>1 DEF CostInit, Appending, Counters, NoAppend, Unloaded
<1> QED BY <1>3, <1>4, <1>5 DEF CostInv

\* Every step keeps the invariant.
LEMMA CostStepInv ==
    ASSUME CostInv, [CostNext]_costVars
    PROVE  CostInv'
<1>1. CASE UNCHANGED costVars
    BY <1>1 DEF costVars, CostInv, CostTypeOK, Appending, Files, Counters, Follows,
                Within, Awaiting, Slack, ThisMonth, MonthTotal
<1> QED BY <1>1, GuardStep, LogStep, MirrorStep, BumpStep, CrashStep, DayStep DEF CostNext

\* So it holds throughout.
LEMMA CostInductive == CostSpec => []CostInv
<1>1. CostInv /\ [CostNext]_costVars => CostInv'
    BY CostStepInv
<1> QED BY <1>1, CostInitInv, PTL DEF CostSpec

\* The logs, the counters and the requests keep their types (cost.py).
THEOREM CostTypeCorrect == CostSpec => []CostTypeOK
<1>1. CostInv => CostTypeOK
    BY DEF CostInv
<1> QED BY <1>1, CostInductive, PTL

\* What the cap is checked against is short of the month's spend by no more than
\* the entry being written and what restarts forgot (cost.py:163), and is never
\* ahead of it under a cap, nor by more than one call without one.
THEOREM CountIsTrue == CostSpec => []CountFollowsLog
<1>1. ASSUME CostInv PROVE CountFollowsLog
  <2>1. /\ forgotten[ThisMonth] \in Nat /\ append.yuan \in Nat /\ ThisMonth \in Months /\ Slack \in Nat
        /\ MonthTotal(counters) \in Nat /\ dated.month[ThisMonth] \in Nat
    <3>1. ThisMonth \in Months
        BY <1>1, Calendar DEF CostInv, CostTypeOK, ThisMonth
    <3>2. append.yuan \in Nat /\ Slack \in Nat
        BY <1>1, Dearest DEF CostInv, CostTypeOK, Slack
    <3> QED BY <1>1, <3>1, <3>2 DEF CostInv, CostTypeOK, File, MonthTotal
  <2>2. Within(ThisMonth) \in Nat /\ Within(ThisMonth) <= InProgress
    BY <1>1, <2>1 DEF Within, InProgress, NoAppend
  <2>3. NeverUndercounts
    BY <1>1, <2>1, <2>2 DEF CostInv, Counters, Follows, NeverUndercounts, InProgress, ThisMonth, NoAppend
  <2>4. NotCountedTwice
    <3>1. CASE counters.loaded
        BY <1>1, <2>1, <2>2, <3>1 DEF CostInv, Counters, Follows, NotCountedTwice, Slack, ThisMonth
    <3>2. CASE ~counters.loaded
      <4>1. MonthTotal(counters) = 0
        BY <1>1, <3>2 DEF CostInv, Counters, MonthTotal
      <4> QED BY <2>1, <4>1 DEF NotCountedTwice, Slack, ThisMonth
    <3> QED BY <3>1, <3>2
  <2> QED BY <2>3, <2>4 DEF CountFollowsLog
<1> QED BY <1>1, CostInductive, PTL

-----------------------------------------------------------------------------
(* The cap *)

Calling == {r \in Payers : payer[r] = "calling"}

\* What this month's calls in flight may still add is set aside.
CostReserved == cap > 0 => \A m \in Months :
    dated.month[m] + (IF m = ThisMonth THEN MaxPrice * Cardinality(Calling) ELSE 0)
        <= cap - 1 + MaxPrice * Cardinality(Payers) + forgotten[m]

\* Those past their second guard are finitely many.
LEMMA CallingCount ==
    /\ IsFiniteSet(Calling)
    /\ Cardinality(Calling) \in Nat /\ Cardinality(Payers) \in Nat
    /\ Cardinality(Calling) <= Cardinality(Payers)
<1>1. Calling \in SUBSET Payers /\ IsFiniteSet(Payers)
    BY CostAssumption DEF Calling
<1> QED BY <1>1, FS_Subset, FS_CardinalityType

\* A price more for a caller more.
LEMMA PricesAdd ==
    ASSUME NEW a \in Nat, NEW b \in Nat
    PROVE  /\ MaxPrice * a \in Nat
           /\ MaxPrice * (a + 1) = MaxPrice * a + MaxPrice
           /\ a <= b => MaxPrice * a <= MaxPrice * b
<1>1. MaxPrice \in Nat
    BY Dearest
<1>2. MaxPrice * (a + 1) = MaxPrice * a + MaxPrice /\ MaxPrice * a \in Nat
    BY <1>1, SMTT(20)
<1>3. ASSUME a <= b PROVE MaxPrice * a <= MaxPrice * b
  <2>1. PICK k \in Nat : b = a + k
    <3>1. b - a \in Nat
        BY <1>3
    <3> QED BY <3>1
  <2>2. MaxPrice * b = MaxPrice * a + MaxPrice * k /\ MaxPrice * k \in Nat
    BY <1>1, <2>1, SMTT(20)
  <2> QED BY <1>2, <2>2
<1> QED BY <1>2, <1>3

\* A guard lets a call begin only while the month is below the cap; the log takes
\* no more for a call than was set aside for it.
LEMMA CostReservedStep ==
    ASSUME CostInv, CostReserved, [CostNext]_costVars
    PROVE  CostReserved'
<1> DEFINE k == Cardinality(Calling)  k1 == Cardinality(Calling')  n == Cardinality(Payers)
<1> SUFFICES ASSUME cap' > 0, NEW m \in Months
             PROVE  dated'.month[m] + (IF m = ThisMonth' THEN MaxPrice * k1 ELSE 0)
                       <= cap' - 1 + MaxPrice * n + forgotten'[m]
    BY DEF CostReserved
<1>1. cap' = cap
    BY DEF CostNext, costVars, AsksFirst, AsksAgain, Guards, Logs, Mirrors, Bumps, Crashes, NextDay
<1>2. CostInv' /\ ThisMonth \in Months /\ ThisMonth' \in Months /\ cap \in Nat
      /\ forgotten[m] \in Nat /\ forgotten'[m] \in Nat /\ forgotten[ThisMonth] \in Nat
  <2>1. CostInv'
    BY CostStepInv
  <2> QED BY <2>1, Calendar, CostAssumption DEF CostInv, CostTypeOK, ThisMonth
<1>3. /\ dated.month[m] \in Nat /\ dated'.month[m] \in Nat
      /\ dated.month[ThisMonth] \in Nat
    BY <1>2 DEF CostInv, CostTypeOK, File
<1>4. /\ k \in Nat /\ k1 \in Nat /\ n \in Nat /\ k <= n /\ k1 <= n
      /\ IsFiniteSet(Calling) /\ IsFiniteSet(Calling')
  <2>1. Calling' \in SUBSET Payers /\ IsFiniteSet(Payers)
    BY CostAssumption DEF Calling
  <2> QED BY <2>1, CallingCount, FS_Subset, FS_CardinalityType
<1>5. /\ MaxPrice \in Nat /\ MaxPrice * k \in Nat /\ MaxPrice * k1 \in Nat /\ MaxPrice * n \in Nat
      /\ MaxPrice * k1 <= MaxPrice * n
    BY <1>4, Dearest, PricesAdd
<1>6. /\ dated.month[m] + (IF m = ThisMonth THEN MaxPrice * k ELSE 0) <= cap - 1 + MaxPrice * n + forgotten[m]
      /\ dated.month[ThisMonth] + MaxPrice * k <= cap - 1 + MaxPrice * n + forgotten[ThisMonth]
    BY <1>1, <1>2 DEF CostReserved
<1> HIDE DEF k, k1, n
<1>7. ASSUME dated' = dated, ThisMonth' = ThisMonth, forgotten'[m] >= forgotten[m], k1 <= k
      PROVE  dated'.month[m] + (IF m = ThisMonth' THEN MaxPrice * k1 ELSE 0) <= cap' - 1 + MaxPrice * n + forgotten'[m]
  <2>1. MaxPrice * k1 <= MaxPrice * k
    BY <1>4, <1>7, PricesAdd
  <2> QED BY <1>1, <1>2, <1>3, <1>5, <1>6, <1>7, <2>1
<1>8. CASE UNCHANGED costVars \/ Mirrors \/ Bumps
  <2>1. dated' = dated /\ ThisMonth' = ThisMonth /\ forgotten' = forgotten /\ Calling' = Calling
    BY <1>8 DEF costVars, Mirrors, Bumps, ThisMonth, Calling
  <2> QED BY <1>2, <1>4, <1>7, <2>1 DEF k, k1
<1>9. CASE Crashes
  <2>1. dated' = dated /\ ThisMonth' = ThisMonth /\ Calling' = {}
    BY <1>9 DEF Crashes, ThisMonth, Calling
  <2>2. k1 = 0
    BY <2>1, FS_EmptySet DEF k1
  <2>3. CASE hasLegacy
    <3>1. append.yuan \in Nat
        BY Dearest DEF CostInv, CostTypeOK
    <3>2. Uncopied(m) \in Nat /\ forgotten'[m] = forgotten[m] + Uncopied(m)
        BY <1>9, <2>3, <3>1 DEF Crashes, Uncopied
    <3> QED BY <1>2, <1>4, <1>7, <2>1, <2>2, <3>2
  <2>4. CASE ~hasLegacy
    <3>1. forgotten'[m] = dated'.month[m] /\ MaxPrice * k1 = 0
        BY <1>5, <1>9, <2>1, <2>2, <2>4 DEF Crashes
    <3> QED BY <1>1, <1>2, <1>3, <1>5, <3>1
  <2> QED BY <2>3, <2>4
<1>10. ASSUME NEW r \in Payers, AsksFirst(r) PROVE dated'.month[m] + (IF m = ThisMonth' THEN MaxPrice * k1 ELSE 0) <= cap' - 1 + MaxPrice * n + forgotten'[m]
  <2>1. dated' = dated /\ ThisMonth' = ThisMonth /\ forgotten' = forgotten /\ Calling' = Calling
    BY <1>10 DEF AsksFirst, Guards, ThisMonth, Calling, CostInv, CostTypeOK
  <2> QED BY <1>2, <1>4, <1>7, <2>1 DEF k, k1
<1>11. ASSUME NEW r \in Payers, AsksAgain(r) PROVE dated'.month[m] + (IF m = ThisMonth' THEN MaxPrice * k1 ELSE 0) <= cap' - 1 + MaxPrice * n + forgotten'[m]
  <2>1. dated' = dated /\ ThisMonth' = ThisMonth /\ forgotten' = forgotten /\ append = NoAppend /\ append.stage = "none"
    BY <1>11 DEF AsksAgain, Guards, ThisMonth, NoAppend
  <2>2. CASE CapHit
    <3>1. Calling' = Calling
        BY <1>11, <2>2 DEF AsksAgain, Guards, Calling, CostInv, CostTypeOK
    <3> QED BY <1>2, <1>4, <1>7, <2>1, <3>1 DEF k, k1
  <2>3. CASE ~CapHit
    <3>1. MonthTotal(Hydrated) < cap /\ MonthTotal(Hydrated) \in Nat
        BY <1>1, <1>2, <2>3, HydratedFollows DEF CapHit, MonthTotal, CounterType, CostInv, CostTypeOK
    <3>2. dated.month[ThisMonth] <= MonthTotal(Hydrated) + forgotten[ThisMonth]
      <4>1. Follows(Hydrated) /\ Within(ThisMonth) = 0
        BY <2>1, HydratedFollows DEF Within
      <4> QED BY <1>1, <1>2, <3>1, <4>1 DEF Follows
    <3>3. CASE m = ThisMonth
        BY <1>1, <1>2, <1>3, <1>5, <2>1, <3>1, <3>2, <3>3
    <3>4. CASE m # ThisMonth
        BY <1>1, <1>6, <2>1, <3>4
    <3> QED BY <3>3, <3>4
  <2> QED BY <2>2, <2>3
<1>12. ASSUME NEW r \in Payers, Logs(r) PROVE dated'.month[m] + (IF m = ThisMonth' THEN MaxPrice * k1 ELSE 0) <= cap' - 1 + MaxPrice * n + forgotten'[m]
  <2>1. PICK yuan \in Prices : dated' = Plus(dated, today, yuan)
    BY <1>12 DEF Logs
  <2>2. ThisMonth' = ThisMonth /\ forgotten' = forgotten /\ r \in Calling /\ Calling' = Calling \ {r}
    BY <1>12 DEF Logs, ThisMonth, Calling, CostInv, CostTypeOK
  <2>3. k1 + 1 = k
    BY <1>4, <2>2, FS_RemoveElement DEF k, k1
  <2>4. MaxPrice * k = MaxPrice * k1 + MaxPrice
    BY <1>4, <2>3, PricesAdd
  <2>5. yuan \in Nat /\ yuan <= MaxPrice /\ dated'.month[m] = dated.month[m] + IF m = ThisMonth THEN yuan ELSE 0
    <3>1. yuan \in Nat /\ yuan <= MaxPrice
        BY Dearest
    <3>2. dated \in File /\ today \in Days
        BY DEF CostInv, CostTypeOK
    <3>3. dated'.month[m] = dated.month[m] + IF m = ThisMonth THEN yuan ELSE 0
        BY <2>1, <3>1, <3>2, OneLineMore DEF ThisMonth
    <3> QED BY <3>1, <3>3
  <2> QED BY <1>1, <1>2, <1>3, <1>5, <1>6, <2>2, <2>4, <2>5
<1>13. CASE NextDay
  <2>1. dated' = dated /\ forgotten' = forgotten /\ Calling' = Calling /\ today' = today + 1
    BY <1>13 DEF NextDay, Calling
  <2>2. CASE ThisMonth' = ThisMonth
    BY <1>2, <1>4, <1>7, <2>1, <2>2 DEF k, k1
  <2>3. CASE ThisMonth' # ThisMonth
    <3>1. ThisMonth' > ThisMonth
      <4>1. today \in Days /\ today' \in Days /\ today <= today'
        BY <1>2, <2>1, Calendar DEF CostInv, CostTypeOK
      <4>2. ThisMonth <= ThisMonth' /\ ThisMonth \in Nat /\ ThisMonth' \in Nat
        BY <1>2, <4>1, Calendar DEF ThisMonth
      <4> QED BY <2>3, <4>2
    <3>2. dated.month[ThisMonth'] = 0
        BY <1>2, <3>1 DEF CostInv, Files
    <3>3. CASE m = ThisMonth'
        BY <1>1, <1>2, <1>5, <2>1, <3>2, <3>3
    <3>4. CASE m # ThisMonth'
        BY <1>1, <1>2, <1>3, <1>5, <1>6, <2>1, <3>4
    <3> QED BY <3>3, <3>4
  <2> QED BY <2>2, <2>3
<1> QED BY <1>8, <1>9, <1>10, <1>11, <1>12, <1>13 DEF CostNext

\* The month of a capped gateway ends below its cap but for one call of each
\* request in flight and what restarts forgot, however they interleave.
THEOREM OvershootIsBounded == CostSpec => []CapOvershoot
<1>1. CostInit => CostReserved
  <2> SUFFICES ASSUME CostInit PROVE CostReserved
    OBVIOUS
  <2>1. Calling = {} /\ Cardinality(Calling) = 0
    BY FS_EmptySet DEF CostInit, Calling
  <2>2. MaxPrice * Cardinality(Payers) \in Nat /\ MaxPrice * 0 = 0 /\ cap \in Nat
    BY CallingCount, PricesAdd, Dearest, CostAssumption DEF CostInit
  <2> QED BY <2>1, <2>2 DEF CostInit, CostReserved, Empty
<1>2. CostInv /\ CostReserved /\ [CostNext]_costVars => CostReserved'
    BY CostReservedStep
<1>3. ASSUME CostInv, CostReserved PROVE CapOvershoot
  <2> SUFFICES ASSUME cap > 0, NEW m \in Months
               PROVE  dated.month[m] <= cap - 1 + MaxPrice * Cardinality(Payers) + forgotten[m]
    BY DEF CapOvershoot
  <2>1. /\ MaxPrice * Cardinality(Calling) \in Nat /\ MaxPrice * Cardinality(Payers) \in Nat
        /\ cap \in Nat /\ forgotten[m] \in Nat /\ dated.month[m] \in Nat
    BY <1>3, CallingCount, PricesAdd, CostAssumption DEF CostInv, CostTypeOK, File
  <2> QED BY <1>3, <2>1 DEF CostReserved
<1> QED BY <1>1, <1>2, <1>3, CostInductive, PTL DEF CostSpec

-----------------------------------------------------------------------------
(* The sacred ledger (sacred_guard.py) *)

\* A request between its check and its record keeps to the bucket of its key,
\* and its process keeps the store it was checked in.
Bound == \A c \in Callers :
    /\ caller[c].key \in Keys => caller[c].bucket = caller[c].key
    /\ caller[c].key \notin Keys => caller[c].bucket \notin Keys
    /\ caller[c] # Away => caller[c].host \in Hosts /\ backend[caller[c].host] # "none"

\* The bucket of a key holds what the key has spent.
KeysCounted == \A s \in SacredStores, k \in Keys : spend[s][k] = keySpend[s][k]

SacredInv == SacredTypeOK /\ Bound /\ KeysCounted

\* The requests that have been checked and not recorded.
InFlight(s, k) ==
    {c \in Callers : caller[c].key = k /\ caller[c].host \in Hosts /\ backend[caller[c].host] = s}

\* What they may still spend is set aside.
Ceiling == SacredCap - 1 + SacredPrice * Cardinality(Callers)
SacredReserved == \A s \in SacredStores, k \in Keys :
    keySpend[s][k] + SacredPrice * Cardinality(InFlight(s, k)) <= Ceiling

-----------------------------------------------------------------------------
(* Types *)

\* A price more for a request more.
LEMMA OnePriceMore ==
    ASSUME NEW a \in Nat, NEW b \in Nat
    PROVE  /\ SacredPrice \in Nat /\ SacredPrice * a \in Nat
           /\ SacredPrice * (a + 1) = SacredPrice * a + SacredPrice
           /\ a <= b => SacredPrice * a <= SacredPrice * b
<1>1. SacredPrice \in Nat
    BY SacredAssumption
<1>2. SacredPrice * (a + 1) = SacredPrice * a + SacredPrice /\ SacredPrice * a \in Nat
    BY <1>1
<1>3. ASSUME a <= b PROVE SacredPrice * a <= SacredPrice * b
  <2>1. PICK k \in Nat : b = a + k
    <3>1. b - a \in Nat /\ b = a + (b - a)
        BY <1>3
    <3> QED BY <3>1
  <2>2. SacredPrice * b = SacredPrice * a + SacredPrice * k /\ SacredPrice * k \in Nat
    BY <1>1, <2>1
  <2> QED BY <1>2, <2>2
<1> QED BY <1>1, <1>2, <1>3

\* Whatever a process has picked, it picks one of the stores.
LEMMA StorePicked ==
    ASSUME SacredInv, NEW h \in Hosts
    PROVE  /\ StoreOf(h) \in SacredStores /\ StoreOf(h) # "none"
           /\ backend[h] # "none" => StoreOf(h) = backend[h]
    BY SacredAssumption DEF SacredInv, SacredTypeOK, StoreOf, SacredStores, SharedStores

\* A key's bucket is its own, and no session id or nobody gets at one.
LEMMA BucketsApart ==
    ASSUME NEW key \in Keys \cup {Nobody}, NEW session \in Sessions \cup {Nobody}
    PROVE  /\ Bucket(key, session) \in Buckets
           /\ key \in Keys => Bucket(key, session) = key
           /\ key \notin Keys => Bucket(key, session) \notin Keys
    BY SacredAssumption DEF Bucket, Buckets

-----------------------------------------------------------------------------
(* The steps *)

LEMMA SacredInitInv == SacredInit => SacredInv
<1> SUFFICES ASSUME SacredInit PROVE SacredInv
    OBVIOUS
<1>1. 0 \in SacredDays /\ "anon" \in Buckets /\ "anon" \notin Keys /\ Nobody \notin Keys
    BY SacredAssumption DEF SacredDays, Buckets
<1>2. SacredTypeOK
    BY <1>1 DEF SacredInit, SacredTypeOK, Away
<1>3. Bound
    BY <1>1 DEF SacredInit, Bound, Away
<1>4. KeysCounted
    BY DEF SacredInit, KeysCounted, Buckets
<1> QED BY <1>2, <1>3, <1>4 DEF SacredInv

LEMMA CheckStep == ASSUME SacredInv, NEW c \in Callers, Checks(c) PROVE SacredInv'
<1>1. PICK h \in Hosts, key \in Keys \cup {Nobody}, session \in Sessions \cup {Nobody} :
        /\ backend' = [backend EXCEPT ![h] = StoreOf(h)]
        /\ \/ caller' = caller
           \/ caller' = [caller EXCEPT ![c] = [host |-> h, key |-> key, bucket |-> Bucket(key, session)]]
        /\ UNCHANGED <<kind, absent, date, spend, daily, keySpend>>
    BY DEF Checks
<1>2. StoreOf(h) \in SacredStores /\ StoreOf(h) # "none"
    BY StorePicked
<1>3. /\ Bucket(key, session) \in Buckets
      /\ key \in Keys => Bucket(key, session) = key
      /\ key \notin Keys => Bucket(key, session) \notin Keys
    BY BucketsApart
<1>4. SacredTypeOK'
    BY <1>1, <1>2, <1>3 DEF SacredInv, SacredTypeOK
<1>5. Bound'
    BY <1>1, <1>2, <1>3 DEF SacredInv, Bound, SacredTypeOK
<1>6. KeysCounted'
    BY <1>1 DEF SacredInv, KeysCounted
<1> QED BY <1>4, <1>5, <1>6 DEF SacredInv

LEMMA RecordStep ==
    ASSUME SacredInv, NEW c \in Callers, Records(c)
    PROVE  /\ SacredInv'
           /\ \E yuan \in 1..SacredPrice, s \in SacredStores :
                /\ s = StoreOf(caller[c].host)
                /\ \A t \in SacredStores, k \in Keys :
                     keySpend'[t][k] = keySpend[t][k] +
                         IF t = s /\ k = caller[c].key THEN yuan ELSE 0
<1>1. PICK yuan \in 1..SacredPrice :
        /\ caller[c] # Away
        /\ Adds(StoreOf(caller[c].host), caller[c].bucket, yuan)
        /\ keySpend' = IF caller[c].key = Nobody THEN keySpend
                       ELSE [keySpend EXCEPT ![StoreOf(caller[c].host)][caller[c].key] = @ + yuan]
        /\ caller' = [caller EXCEPT ![c] = Away]
        /\ UNCHANGED <<kind, absent, date, backend>>
    BY DEF Records
<1> DEFINE s == StoreOf(caller[c].host)
           k == caller[c].key
           b == caller[c].bucket
<1>2. caller[c].host \in Hosts /\ s \in SacredStores
    BY <1>1, StorePicked DEF SacredInv, Bound
<1>3. yuan \in Nat /\ b \in Buckets /\ k \in Keys \cup {Nobody} /\ date \in SacredDays
    BY SacredAssumption DEF SacredInv, SacredTypeOK
<1>4. k \in Keys => b = k
    BY DEF SacredInv, Bound
<1>5. k \notin Keys => b \notin Keys /\ k = Nobody
    BY <1>3 DEF SacredInv, Bound
<1>6. Keys \subseteq Buckets /\ Nobody \notin Keys /\ "anon" \in Buckets /\ "anon" \notin Keys
    BY SacredAssumption DEF Buckets
<1> HIDE DEF s, k, b
<1>7. /\ spend' = [spend EXCEPT ![s][b] = @ + yuan]
      /\ daily' = [daily EXCEPT ![s][date] = @ + yuan]
      /\ keySpend' = IF k = Nobody THEN keySpend ELSE [keySpend EXCEPT ![s][k] = @ + yuan]
    BY <1>1 DEF Adds, s, k, b
<1>8. spend' \in [SacredStores -> [Buckets -> Nat]]
    BY <1>2, <1>3, <1>7 DEF SacredInv, SacredTypeOK
<1>9. daily' \in [SacredStores -> [SacredDays -> Nat]]
    BY <1>2, <1>3, <1>7 DEF SacredInv, SacredTypeOK
<1>10. keySpend' \in [SacredStores -> [Keys -> Nat]]
    BY <1>2, <1>3, <1>7 DEF SacredInv, SacredTypeOK
<1>11. SacredTypeOK'
    BY <1>1, <1>6, <1>8, <1>9, <1>10 DEF SacredInv, SacredTypeOK, Away
<1>12. Bound'
    BY <1>1, <1>6 DEF SacredInv, Bound, SacredTypeOK, Away
<1>13. \A t \in SacredStores, x \in Keys :
         keySpend'[t][x] = keySpend[t][x] + IF t = s /\ x = k THEN yuan ELSE 0
    BY <1>2, <1>3, <1>6, <1>7 DEF SacredInv, SacredTypeOK
<1>14. \A t \in SacredStores, x \in Keys :
         spend'[t][x] = spend[t][x] + IF t = s /\ x = b THEN yuan ELSE 0
    BY <1>2, <1>3, <1>6, <1>7 DEF SacredInv, SacredTypeOK
<1>15. KeysCounted'
    BY <1>4, <1>5, <1>13, <1>14 DEF SacredInv, KeysCounted
<1> QED BY <1>2, <1>11, <1>12, <1>13, <1>15 DEF SacredInv, s, k

\* Only the bucket that is emptied changes, and it is the key's if it is one.
LEMMA ResetStep ==
    ASSUME SacredInv, NEW h \in Hosts, NEW b \in Buckets, Resets(h, b)
    PROVE  /\ SacredInv'
           /\ \A t \in SacredStores, k \in Keys :
                keySpend'[t][k] = keySpend[t][k] \/ keySpend'[t][k] = 0
<1> DEFINE s == StoreOf(h)
<1>1. s \in SacredStores /\ s # "none"
    BY StorePicked
<1> HIDE DEF s
<1>2. /\ backend' = [backend EXCEPT ![h] = s]
      /\ spend' = [spend EXCEPT ![s][b] = 0]
      /\ keySpend' = IF b \in Keys THEN [keySpend EXCEPT ![s][b] = 0] ELSE keySpend
      /\ UNCHANGED <<kind, absent, date, daily, caller>>
    BY DEF Resets, Empties, s
<1>3. Keys \subseteq Buckets
    BY DEF Buckets
<1>4. spend' \in [SacredStores -> [Buckets -> Nat]]
    BY <1>1, <1>2 DEF SacredInv, SacredTypeOK
<1>5. keySpend' \in [SacredStores -> [Keys -> Nat]]
    BY <1>1, <1>2 DEF SacredInv, SacredTypeOK
<1>6. SacredTypeOK'
    BY <1>1, <1>2, <1>4, <1>5 DEF SacredInv, SacredTypeOK
<1>7. Bound'
    BY <1>1, <1>2 DEF SacredInv, Bound, SacredTypeOK
<1>8. \A t \in SacredStores, k \in Keys :
        /\ keySpend'[t][k] = IF t = s /\ k = b THEN 0 ELSE keySpend[t][k]
        /\ spend'[t][k] = IF t = s /\ k = b THEN 0 ELSE spend[t][k]
    BY <1>1, <1>2, <1>3 DEF SacredInv, SacredTypeOK
<1>9. KeysCounted'
    BY <1>8 DEF SacredInv, KeysCounted
<1> QED BY <1>6, <1>7, <1>8, <1>9 DEF SacredInv

\* The memory of a process goes with it, and so do its requests.
LEMMA RestartStep ==
    ASSUME SacredInv, NEW h \in Hosts, SacredRestarts(h)
    PROVE  /\ SacredInv'
           /\ \A t \in SacredStores, k \in Keys :
                keySpend'[t][k] = keySpend[t][k] \/ keySpend'[t][k] = 0
<1>1. /\ backend' = [backend EXCEPT ![h] = "none"]
      /\ absent' \in SacredOutages
      /\ spend' = [spend EXCEPT ![h] = [b \in Buckets |-> 0]]
      /\ daily' = [daily EXCEPT ![h] = [d \in SacredDays |-> 0]]
      /\ keySpend' = [keySpend EXCEPT ![h] = [k \in Keys |-> 0]]
      /\ caller' = [c \in Callers |-> IF caller[c].host = h THEN Away ELSE caller[c]]
      /\ UNCHANGED <<kind, date>>
    BY DEF SacredRestarts
<1>2. h \in SacredStores /\ Keys \subseteq Buckets /\ "anon" \in Buckets /\ "anon" \notin Keys
    BY SacredAssumption DEF SacredStores, Buckets
<1>3. Nobody \notin Keys
    BY SacredAssumption
<1>4. caller' \in [Callers -> [host : Hosts \cup {Nobody}, key : Keys \cup {Nobody}, bucket : Buckets]]
    BY <1>1, <1>2 DEF SacredInv, SacredTypeOK, Away
<1>5. SacredTypeOK'
    BY <1>1, <1>2, <1>4 DEF SacredInv, SacredTypeOK
<1>6. Bound'
  <2> SUFFICES ASSUME NEW c \in Callers
               PROVE  /\ caller'[c].key \in Keys => caller'[c].bucket = caller'[c].key
                      /\ caller'[c].key \notin Keys => caller'[c].bucket \notin Keys
                      /\ caller'[c] # Away => caller'[c].host \in Hosts /\ backend'[caller'[c].host] # "none"
    BY DEF Bound
  <2>1. CASE caller[c].host = h
    BY <1>1, <1>2, <1>3, <2>1 DEF Away
  <2>2. CASE caller[c].host # h
    <3>1. caller'[c] = caller[c]
        BY <1>1, <2>2
    <3>2. caller[c] # Away => backend'[caller[c].host] = backend[caller[c].host]
        BY <1>1, <2>2 DEF SacredInv, Bound, SacredTypeOK
    <3> QED BY <3>1, <3>2 DEF SacredInv, Bound
  <2> QED BY <2>1, <2>2
<1>7. \A t \in SacredStores, k \in Keys :
        /\ keySpend'[t][k] = IF t = h THEN 0 ELSE keySpend[t][k]
        /\ spend'[t][k] = IF t = h THEN 0 ELSE spend[t][k]
    BY <1>1, <1>2 DEF SacredInv, SacredTypeOK
<1>8. KeysCounted'
    BY <1>7 DEF SacredInv, KeysCounted
<1> QED BY <1>5, <1>6, <1>7, <1>8 DEF SacredInv

\* A call without text is forgotten.
LEMMA FailStep == ASSUME SacredInv, NEW c \in Callers, CallFails(c) PROVE SacredInv'
<1>1. caller' = [caller EXCEPT ![c] = Away]
      /\ UNCHANGED <<kind, absent, date, backend, spend, daily, keySpend>>
    BY DEF CallFails
<1>2. "anon" \in Buckets /\ "anon" \notin Keys /\ Nobody \notin Keys
    BY SacredAssumption DEF Buckets
<1>3. SacredTypeOK'
    BY <1>1, <1>2 DEF SacredInv, SacredTypeOK, Away
<1>4. Bound'
    BY <1>1, <1>2 DEF SacredInv, Bound, SacredTypeOK, Away
<1>5. KeysCounted'
    BY <1>1 DEF SacredInv, KeysCounted
<1> QED BY <1>3, <1>4, <1>5 DEF SacredInv

LEMMA MidnightStep == ASSUME SacredInv, SacredMidnight PROVE SacredInv'
<1>1. date' \in SacredDays
    BY SacredAssumption DEF SacredInv, SacredTypeOK, SacredMidnight, SacredDays
<1>2. SacredTypeOK'
    BY <1>1 DEF SacredInv, SacredTypeOK, SacredMidnight
<1> QED BY <1>2 DEF SacredInv, SacredMidnight, Bound, KeysCounted

LEMMA SacredStepInv == SacredInv /\ [SacredNext]_sacredVars => SacredInv'
<1> SUFFICES ASSUME SacredInv, [SacredNext]_sacredVars PROVE SacredInv'
    OBVIOUS
<1>1. CASE UNCHANGED sacredVars
    BY <1>1 DEF sacredVars, SacredInv, SacredTypeOK, Bound, KeysCounted
<1>2. CASE SacredNext
    BY <1>2, CheckStep, RecordStep, FailStep, ResetStep, RestartStep, MidnightStep DEF SacredNext
<1> QED BY <1>1, <1>2

LEMMA SacredInductive == SacredSpec => []SacredInv
<1>1. SacredInit => SacredInv
    BY SacredInitInv
<1>2. SacredInv /\ [SacredNext]_sacredVars => SacredInv'
    BY SacredStepInv
<1> QED BY <1>1, <1>2, PTL DEF SacredSpec

\* The stores, the buckets and the requests keep their types (sacred_guard.py).
THEOREM SacredTypeCorrect == SacredSpec => []SacredTypeOK
<1>1. SacredInv => SacredTypeOK
    BY DEF SacredInv
<1> QED BY <1>1, SacredInductive, PTL

-----------------------------------------------------------------------------
(* The cap *)

\* Requests in flight are finitely many, and no more than there can be.
LEMMA InFlightCount ==
    ASSUME NEW F \in SUBSET Callers
    PROVE  /\ IsFiniteSet(F)
           /\ Cardinality(F) \in Nat /\ Cardinality(Callers) \in Nat
           /\ Cardinality(F) <= Cardinality(Callers)
    BY SacredAssumption, FS_Subset, FS_CardinalityType

\* Fewer requests set less aside.
LEMMA FewerReserved ==
    ASSUME NEW F \in SUBSET Callers, NEW G \in SUBSET F
    PROVE  SacredPrice * Cardinality(G) <= SacredPrice * Cardinality(F)
<1>1. IsFiniteSet(F) /\ Cardinality(F) \in Nat
    BY InFlightCount
<1>2. Cardinality(G) \in Nat /\ Cardinality(G) <= Cardinality(F)
    BY <1>1, FS_Subset, FS_CardinalityType
<1> QED BY <1>1, <1>2, OnePriceMore

LEMMA SacredReservedStep == SacredInv /\ SacredReserved /\ [SacredNext]_sacredVars => SacredReserved'
<1> SUFFICES ASSUME SacredInv, SacredReserved, [SacredNext]_sacredVars, NEW s \in SacredStores, NEW k \in Keys
             PROVE  keySpend'[s][k] + SacredPrice * Cardinality(InFlight(s, k)') <= Ceiling
    BY DEF SacredReserved, Ceiling
<1> DEFINE F == InFlight(s, k)
           F1 == InFlight(s, k)'
<1>1. SacredInv'
    BY SacredStepInv
<1>2. keySpend[s][k] \in Nat /\ keySpend'[s][k] \in Nat /\ k # Nobody /\ k \in Buckets
    BY <1>1, SacredAssumption DEF SacredInv, SacredTypeOK, Buckets
<1>3. F \in SUBSET Callers /\ F1 \in SUBSET Callers
    BY DEF InFlight
<1>4. /\ Cardinality(F) \in Nat /\ Cardinality(F1) \in Nat /\ Cardinality(Callers) \in Nat
      /\ Cardinality(F1) <= Cardinality(Callers)
    BY <1>3, InFlightCount
<1>5. /\ SacredPrice * Cardinality(F) \in Nat /\ SacredPrice * Cardinality(F1) \in Nat
      /\ SacredPrice * Cardinality(F1) <= SacredPrice * Cardinality(Callers)
      /\ SacredPrice * Cardinality(Callers) \in Nat
    BY <1>4, OnePriceMore
<1>6. keySpend[s][k] + SacredPrice * Cardinality(F) <= Ceiling
    BY DEF SacredReserved
<1>7. SacredCap \in Nat \ {0} /\ Ceiling \in Nat /\ Ceiling = SacredCap - 1 + SacredPrice * Cardinality(Callers)
    BY <1>5, SacredAssumption DEF Ceiling
<1>8. ASSUME F1 \subseteq F, keySpend'[s][k] = keySpend[s][k] \/ keySpend'[s][k] = 0
      PROVE  keySpend'[s][k] + SacredPrice * Cardinality(F1) <= Ceiling
  <2>1. SacredPrice * Cardinality(F1) <= SacredPrice * Cardinality(F)
    BY <1>3, <1>8, FewerReserved
  <2> HIDE DEF F, F1
  <2> QED BY <1>2, <1>5, <1>6, <1>7, <1>8, <2>1
<1>9. CASE UNCHANGED sacredVars
  <2>1. F1 = F /\ keySpend' = keySpend
    BY <1>9 DEF sacredVars, InFlight
  <2> QED BY <1>8, <2>1
<1>10. ASSUME NEW c \in Callers, Checks(c)
       PROVE  keySpend'[s][k] + SacredPrice * Cardinality(F1) <= Ceiling
  <2>1. PICK h \in Hosts, key \in Keys \cup {Nobody}, session \in Sessions \cup {Nobody} :
          /\ caller[c] = Away
          /\ backend' = [backend EXCEPT ![h] = StoreOf(h)]
          /\ caller' = IF Total(StoreOf(h), Bucket(key, session)) >= SacredCap THEN caller
                       ELSE [caller EXCEPT ![c] = [host |-> h, key |-> key, bucket |-> Bucket(key, session)]]
          /\ keySpend' = keySpend
    BY <1>10 DEF Checks
  <2>2. /\ StoreOf(h) \in SacredStores
        /\ backend[h] # "none" => StoreOf(h) = backend[h]
    BY StorePicked
  <2>3. \A g \in Hosts : backend[g] # "none" => backend'[g] = backend[g]
    BY <2>1, <2>2 DEF SacredInv, SacredTypeOK
  <2>4. \A d \in Callers : d # c => caller'[d] = caller[d]
    BY <2>1 DEF SacredInv, SacredTypeOK
  <2>5. \A d \in Callers : d # c => (d \in F1 => d \in F)
    BY <1>2, <2>3, <2>4 DEF InFlight, SacredInv, Bound, Away
  <2>6. CASE c \notin F1
    BY <1>3, <1>8, <2>1, <2>5, <2>6
  <2>7. CASE c \in F1
    <3>1. caller' # caller
      <4>1. caller'[c].key = k /\ caller[c].key = Nobody
        BY <2>1, <2>7 DEF InFlight, Away
      <4> QED BY <1>2, <4>1
    <3>2. caller'[c] = [host |-> h, key |-> key, bucket |-> Bucket(key, session)]
        BY <2>1, <3>1 DEF SacredInv, SacredTypeOK
    <3>3. key = k /\ StoreOf(h) = s
        BY <2>1, <2>7, <3>2 DEF InFlight, SacredInv, SacredTypeOK
    <3>4. ~(spend[s][k] >= SacredCap)
        BY <2>1, <3>1, <3>3, BucketsApart DEF Total
    <3>5. spend[s][k] = keySpend[s][k]
        BY DEF SacredInv, KeysCounted
    <3>6. keySpend[s][k] < SacredCap /\ keySpend'[s][k] = keySpend[s][k]
        BY <1>2, <1>7, <2>1, <3>4, <3>5
    <3> HIDE DEF F, F1
    <3> QED BY <1>2, <1>5, <1>7, <3>6
  <2> QED BY <2>6, <2>7
<1>11. ASSUME NEW c \in Callers, Records(c)
       PROVE  keySpend'[s][k] + SacredPrice * Cardinality(F1) <= Ceiling
  <2>1. PICK yuan \in 1..SacredPrice, t \in SacredStores :
          /\ t = StoreOf(caller[c].host)
          /\ keySpend'[s][k] = keySpend[s][k] + IF s = t /\ k = caller[c].key THEN yuan ELSE 0
    BY <1>11, RecordStep
  <2>2. caller[c] # Away /\ caller' = [caller EXCEPT ![c] = Away] /\ backend' = backend
    BY <1>11 DEF Records
  <2>3. F1 = F \ {c}
    BY <1>2, <2>2 DEF InFlight, SacredInv, SacredTypeOK, Away
  <2>4. CASE s = t /\ k = caller[c].key
    <3>1. c \in F
        BY <2>1, <2>2, <2>4, StorePicked DEF InFlight, SacredInv, Bound
    <3>2. IsFiniteSet(F)
        BY <1>3, InFlightCount
    <3>3. Cardinality(F1) + 1 = Cardinality(F)
      <4>1. Cardinality(F \ {c}) = Cardinality(F) - 1
        BY <3>1, <3>2, FS_RemoveElement
      <4> QED BY <1>4, <2>3, <4>1
    <3>4. SacredPrice * Cardinality(F) = SacredPrice * Cardinality(F1) + SacredPrice
        BY <1>4, <3>3, OnePriceMore
    <3>5. SacredPrice \in Nat /\ yuan \in Nat /\ yuan <= SacredPrice
        BY SacredAssumption
    <3> HIDE DEF F, F1
    <3> QED BY <1>2, <1>5, <1>6, <1>7, <2>1, <2>4, <3>4, <3>5
  <2>5. CASE ~(s = t /\ k = caller[c].key)
    BY <1>2, <1>8, <2>1, <2>3, <2>5
  <2> QED BY <2>4, <2>5
<1>12. ASSUME NEW c \in Callers, CallFails(c)
       PROVE  keySpend'[s][k] + SacredPrice * Cardinality(F1) <= Ceiling
  <2>1. F1 \subseteq F /\ keySpend' = keySpend
    BY <1>2, <1>12 DEF CallFails, InFlight, SacredInv, SacredTypeOK, Away
  <2> QED BY <1>8, <2>1
<1>13. ASSUME NEW h \in Hosts, NEW b \in Buckets, Resets(h, b)
       PROVE  keySpend'[s][k] + SacredPrice * Cardinality(F1) <= Ceiling
  <2>1. keySpend'[s][k] = keySpend[s][k] \/ keySpend'[s][k] = 0
    BY <1>13, ResetStep
  <2>2. caller' = caller /\ backend' = [backend EXCEPT ![h] = StoreOf(h)]
    BY <1>13 DEF Resets
  <2>3. \A g \in Hosts : backend[g] # "none" => backend'[g] = backend[g]
    BY <2>2, StorePicked DEF SacredInv, SacredTypeOK
  <2>4. F1 \subseteq F
    BY <1>2, <2>2, <2>3 DEF InFlight, SacredInv, Bound, Away
  <2> QED BY <1>8, <2>1, <2>4
<1>14. ASSUME NEW h \in Hosts, SacredRestarts(h)
       PROVE  keySpend'[s][k] + SacredPrice * Cardinality(F1) <= Ceiling
  <2>1. keySpend'[s][k] = keySpend[s][k] \/ keySpend'[s][k] = 0
    BY <1>14, RestartStep
  <2>2. /\ caller' = [c \in Callers |-> IF caller[c].host = h THEN Away ELSE caller[c]]
        /\ backend' = [backend EXCEPT ![h] = "none"]
    BY <1>14 DEF SacredRestarts
  <2>3. \A g \in Hosts : g # h => backend'[g] = backend[g]
    BY <2>2 DEF SacredInv, SacredTypeOK
  <2>4. \A c \in Callers : caller'[c].key = k => caller'[c] = caller[c] /\ caller[c].host # h
    BY <1>2, <2>2 DEF Away
  <2>5. F1 \subseteq F
    BY <2>3, <2>4 DEF InFlight
  <2> QED BY <1>8, <2>1, <2>5
<1>15. CASE SacredMidnight
  <2>1. F1 = F /\ keySpend' = keySpend
    BY <1>15 DEF SacredMidnight, InFlight
  <2> QED BY <1>8, <2>1
<1> QED BY <1>9, <1>10, <1>11, <1>12, <1>13, <1>14, <1>15 DEF SacredNext

\* Whatever session ids are sent with a key, through whatever processes,
\* outages and restarts, the key spends in one store no more than the hard cap
\* and a call of each request in flight (check_sacred_guard()).
THEOREM KeySpendIsBounded == SacredSpec => []KeySpendHolds
<1>1. SacredInit => SacredReserved
  <2> SUFFICES ASSUME SacredInit, NEW s \in SacredStores, NEW k \in Keys
               PROVE  keySpend[s][k] + SacredPrice * Cardinality(InFlight(s, k)) <= Ceiling
    BY DEF SacredReserved
  <2>1. InFlight(s, k) = {}
    BY SacredAssumption DEF SacredInit, InFlight, Away
  <2>2. SacredPrice * 0 = 0 /\ SacredPrice * Cardinality(Callers) \in Nat
    BY OnePriceMore, InFlightCount
  <2>3. Cardinality(InFlight(s, k)) = 0
    BY <2>1, FS_EmptySet
  <2>4. keySpend[s][k] = 0
    BY DEF SacredInit
  <2> QED BY <2>2, <2>3, <2>4, SacredAssumption DEF Ceiling
<1>2. SacredInv /\ SacredReserved /\ [SacredNext]_sacredVars => SacredReserved'
    BY SacredReservedStep
<1>3. SacredInv /\ SacredReserved => KeySpendHolds
  <2> SUFFICES ASSUME SacredInv, SacredReserved, NEW s \in SacredStores, NEW k \in Keys
               PROVE  keySpend[s][k] <= SacredCap - 1 + SacredPrice * Cardinality(Callers)
    BY DEF KeySpendHolds
  <2>1. InFlight(s, k) \in SUBSET Callers
    BY DEF InFlight
  <2>2. SacredPrice * Cardinality(InFlight(s, k)) \in Nat /\ SacredPrice * Cardinality(Callers) \in Nat
    BY <2>1, InFlightCount, OnePriceMore
  <2>3. keySpend[s][k] \in Nat
    BY DEF SacredInv, SacredTypeOK
  <2>4. keySpend[s][k] + SacredPrice * Cardinality(InFlight(s, k)) <= Ceiling
    BY DEF SacredReserved
  <2> QED BY <2>2, <2>3, <2>4, SacredAssumption DEF Ceiling
<1> QED BY <1>1, <1>2, <1>3, SacredInductive, PTL DEF SacredSpec

-----------------------------------------------------------------------------
(* Finite sets *)

\* Of finite sets there is a smallest: one that has no other within it.
LEMMA SmallestExists ==
    ASSUME NEW S, IsFiniteSet(S), NEW F, F \subseteq SUBSET S, F # {}
    PROVE  \E T \in F : \A U \in F : U \subseteq T => U = T
<1>1. F \subseteq FiniteSubsetsOf(S)
    BY FS_Subset DEF FiniteSubsetsOf
<1>2. PICK T \in F : \A U \in F : ~(<<U, T>> \in StrictSubsetOrdering(S))
    BY <1>1, FS_StrictSubsetOrderingWellFounded, WFMin
<1>3. ASSUME NEW U \in F, U \subseteq T, U # T PROVE FALSE
    BY <1>2, <1>3 DEF StrictSubsetOrdering
<1> QED BY <1>3

\* A finite set of naturals that is not empty has a greatest member: a smallest
\* subset that had none would have lost it with any of its members.
LEMMA MaxExists ==
    ASSUME NEW S, S \subseteq Nat, IsFiniteSet(S), S # {}
    PROVE  Max(S) \in S /\ \A x \in S : x <= Max(S)
<1> DEFINE Topped(T) == \E x \in T : \A y \in T : y <= x
           Bad == {T \in SUBSET S : T # {} /\ ~Topped(T)}
<1>1. Topped(S)
  <2> SUFFICES ASSUME ~Topped(S) PROVE FALSE
    OBVIOUS
  <2>1. Bad \subseteq SUBSET S
    OBVIOUS
  <2>2. Bad # {}
    <3>1. S \in Bad
        OBVIOUS
    <3> QED BY <3>1
  <2>3. PICK T \in Bad : \A U \in Bad : U \subseteq T => U = T
    <3>1. IsFiniteSet(S)
        OBVIOUS
    <3> HIDE DEF Bad
    <3> QED BY ONLY <2>1, <2>2, <3>1, SmallestExists
  <2>4. PICK x \in T : x \in Nat /\ T \subseteq Nat
    OBVIOUS
  <2>5. T \ {x} \notin Bad
    BY <2>3, <2>4
  <2>6. CASE T \ {x} = {}
    BY <2>4, <2>6
  <2>7. CASE T \ {x} # {}
    <3>1. PICK m \in T \ {x} : \A y \in T \ {x} : y <= m
        BY <2>5, <2>7
    <3>2. CASE m <= x
      <4>1. \A y \in T : y <= x
          BY <2>4, <3>1, <3>2
      <4> QED BY <2>4, <4>1
    <3>3. CASE ~(m <= x)
      <4>1. \A y \in T : y <= m
          BY <2>4, <3>1, <3>3
      <4> QED BY <3>1, <4>1
    <3> QED BY <3>2, <3>3
  <2> QED BY <2>6, <2>7
<1>2. \E x \in S : \A y \in S : x >= y
    BY <1>1
<1> QED BY <1>2 DEF Max

-----------------------------------------------------------------------------
(* The response cache *)

\* In memory, what was stored within the TTL is under its key and in the list.
KeysKept == where = "memory" => \A a \in Asks :
    stored[a] # -1 /\ clock - stored[a] <= TTL =>
        exact[a] \in entries /\ exact[a].ask = a /\ exact[a].ts = stored[a]

CacheInv == CacheTypeOK /\ ServedFresh /\ KeysKept

\* The table's clock and the process's are never ahead of the time.
LEMMA Clocks ==
    ASSUME CacheTypeOK
    PROVE  Now \in 0..clock /\ Now \in 0..LastTick /\ Began \in -1..clock
    BY CacheAssumption DEF CacheTypeOK, Now, Began

\* A new entry is an entry, behind all others.
LEMMA NewEntry ==
    ASSUME CacheTypeOK, NEW a \in Asks
    PROVE  /\ [ask |-> a, ts |-> Now, no |-> LastPlace] \in Entries
           /\ [ask |-> a, ts |-> Now, no |-> LastPlace] \notin entries
<1>1. Now \in 0..LastTick
    BY Clocks
<1> DEFINE places == {e.no : e \in entries}
           place == [e \in entries |-> e.no]
<1>2. IsFiniteSet({0} \cup places) /\ {0} \cup places \subseteq Nat
  <2>1. places \subseteq Nat
    BY DEF CacheTypeOK, Entries
  <2>2. place \in Surjection(entries, places)
    BY DEF Surjection
  <2>3. IsFiniteSet(places)
    BY <2>2, FS_Surjection DEF CacheTypeOK
  <2> HIDE DEF places
  <2>4. IsFiniteSet(places \cup {0})
    BY <2>3, FS_AddElement
  <2>5. {0} \cup places = places \cup {0}
    OBVIOUS
  <2> QED BY <2>1, <2>4, <2>5
<1>3. /\ Max({0} \cup places) \in Nat
      /\ \A x \in {0} \cup places : x <= Max({0} \cup places)
  <2> HIDE DEF places
  <2> QED BY <1>2, MaxExists
<1>4. LastPlace \in Nat \ {0} /\ \A e \in entries : e.no < LastPlace
  <2>1. \A e \in entries : e.no \in Nat /\ e.no \in places
    BY DEF CacheTypeOK, Entries
  <2>2. LastPlace = 1 + Max({0} \cup places)
    BY DEF LastPlace
  <2> HIDE DEF places
  <2> QED BY <1>3, <2>1, <2>2
<1> QED BY <1>1, <1>4 DEF Entries, CacheTypeOK

\* At the start there is nothing to find.
LEMMA CacheInitInv == CacheInit => CacheInv
<1> SUFFICES ASSUME CacheInit PROVE CacheInv
    OBVIOUS
<1>1. CacheTypeOK
  <2>1. IsFiniteSet(entries) /\ Cardinality(entries) = 0
    BY FS_EmptySet DEF CacheInit
  <2> QED BY <2>1, CacheAssumption DEF CacheInit, CacheTypeOK
<1> QED BY <1>1 DEF CacheInit, CacheInv, ServedFresh, KeysKept

\* An answer is served from memory with its age below the TTL.
LEMMA ServeStep ==
    ASSUME CacheInv, NEW r \in Askers, NEW a \in Asks, NEW e,
           e \in Exact(a) \cup Nearest(a[2]), Serves(r, a, e),
           began' = Began, UNCHANGED <<where, clock, entries, exact, stored>>
    PROVE  CacheInv'
<1>1. Began \in -1..clock /\ Now \in 0..clock
    BY Clocks DEF CacheInv
<1>2. e \in Entries /\ Fresh(e)
    BY DEF CacheInv, CacheTypeOK, Exact, Nearest
<1>3. e.ask = a \/ Similar(a[2], e.ask[2]) >= Threshold
    BY DEF Exact, Nearest
<1>4. CacheTypeOK'
    BY <1>1, <1>2 DEF CacheInv, CacheTypeOK, Serves
<1>5. ServedFresh'
  <2>1. served' = [ask |-> a, entry |-> e, at |-> clock]
    BY DEF Serves
  <2>2. where = "memory" => clock - e.ts <= TTL
    BY <1>1, <1>2, CacheAssumption DEF Fresh, Now, Entries, CacheInv, CacheTypeOK
  <2> QED BY <1>3, <2>1, <2>2 DEF ServedFresh
<1>6. KeysKept'
    BY DEF CacheInv, KeysKept
<1> QED BY <1>4, <1>5, <1>6 DEF CacheInv

\* A request that goes on, or ends, takes nothing from the cache.
LEMMA GoStep ==
    ASSUME CacheInv, NEW r \in Askers,
           Ends(r) \/ \E next \in {"looking", "calling", "storing"}, a \in Asks : Goes(r, next, a),
           began' \in {began, Began}, UNCHANGED <<where, clock, entries, exact, stored>>
    PROVE  CacheInv'
<1>1. Began \in -1..clock
    BY Clocks DEF CacheInv
<1>2. served' = NotServed /\ CacheTypeOK'
    BY <1>1 DEF CacheInv, CacheTypeOK, Ends, Goes
<1> QED BY <1>2 DEF CacheInv, ServedFresh, KeysKept

\* An entry that takes its place under its key and in the list is found there,
\* and so are the others that are not too old, after a pruning as before.
LEMMA StoreStep ==
    ASSUME CacheInv, NEW r \in Askers, Stores(r)
    PROVE  CacheInv'
<1> DEFINE a == asker[r].ask
           new == [ask |-> a, ts |-> Now, no |-> LastPlace]
<1>1. a \in Asks /\ a = asker[r].ask
    BY DEF Stores, CacheInv, CacheTypeOK, Idle
<1>2. /\ new \in Entries /\ new \notin entries /\ Now \in 0..clock /\ Now \in 0..LastTick
      /\ new.ask = a /\ new.ts = Now
    BY <1>1, NewEntry, Clocks DEF CacheInv
<1>3. served' = NotServed /\ UNCHANGED <<where, clock>> /\ asker' \in [Askers -> [stage : {"looking", "calling", "storing"}, ask : Asks] \cup {Idle}]
    BY DEF Stores, Ends, CacheInv, CacheTypeOK
<1> HIDE DEF new, a
<1>4. CASE UNCHANGED <<entries, exact, began, stored>>
    BY <1>3, <1>4 DEF CacheInv, CacheTypeOK, ServedFresh, KeysKept
<1>5. CASE where # "memory" /\ Cardinality(entries) < MaxEntries /\ StoresInTable(new)
  <2>1. IsFiniteSet(entries \cup {new}) /\ Cardinality(entries \cup {new}) = Cardinality(entries) + 1
    BY <1>2, FS_AddElement DEF CacheInv, CacheTypeOK
  <2>2. CacheTypeOK'
    <3>1. entries' \in {entries, entries \cup {new}} /\ began' = -1 /\ UNCHANGED <<exact, stored>>
        BY <1>5 DEF StoresInTable
    <3>2. Cardinality(entries) \in Nat /\ MaxEntries \in Nat
        BY FS_CardinalityType, CacheAssumption DEF CacheInv, CacheTypeOK
    <3>3. entries' \subseteq Entries /\ IsFiniteSet(entries') /\ Cardinality(entries') <= MaxEntries
      <4>1. CASE entries' = entries
          BY <4>1 DEF CacheInv, CacheTypeOK
      <4>2. CASE entries' = entries \cup {new}
          BY <1>2, <1>5, <2>1, <3>2, <4>2 DEF CacheInv, CacheTypeOK
      <4> QED BY <3>1, <4>1, <4>2
    <3> QED BY <1>3, <3>1, <3>3 DEF CacheInv, CacheTypeOK
  <2> QED BY <1>3, <1>5, <2>2 DEF CacheInv, ServedFresh, KeysKept
<1>6. CASE where = "memory" /\ Cardinality(entries) < MaxEntries /\ StoresInMemory(new)
  <2> DEFINE list == entries \cup {new}
             byKey == [exact EXCEPT ![a] = new]
  <2>1. /\ entries' = Pruned(list) /\ exact' = PrunedExact(list, byKey)
        /\ stored' = [stored EXCEPT ![a] = clock] /\ began' = began
    BY <1>2, <1>6 DEF StoresInMemory
  <2>2. IsFiniteSet(list) /\ Cardinality(list) = Cardinality(entries) + 1
    BY <1>2, FS_AddElement DEF CacheInv, CacheTypeOK
  <2>3. list \subseteq Entries /\ byKey \in [Asks -> Entries \cup {NoEntry}]
    BY <1>1, <1>2 DEF CacheInv, CacheTypeOK
  <2>4. CacheTypeOK'
    <3>1. entries' \in SUBSET list
        BY <2>1 DEF Pruned
    <3>2. IsFiniteSet(entries') /\ Cardinality(entries') <= Cardinality(list)
        BY <2>2, <3>1, FS_Subset
    <3>3. Cardinality(entries) \in Nat /\ Cardinality(entries') \in Nat /\ MaxEntries \in Nat
        BY <3>2, FS_CardinalityType, CacheAssumption DEF CacheInv, CacheTypeOK
    <3>4. exact' \in [Asks -> Entries \cup {NoEntry}]
        BY <2>1, <2>3 DEF PrunedExact
    <3>5. stored' \in [Asks -> -1..clock]
      <4>1. clock \in -1..clock
          BY CacheAssumption DEF CacheInv, CacheTypeOK
      <4> QED BY <2>1, <4>1 DEF CacheInv, CacheTypeOK
    <3>6. entries' \subseteq Entries
        BY <2>3, <3>1
    <3> HIDE DEF list, byKey
    <3> QED BY <1>3, <1>6, <2>1, <2>2, <3>2, <3>3, <3>4, <3>5, <3>6 DEF CacheInv, CacheTypeOK
  <2>5. KeysKept'
    <3> SUFFICES ASSUME NEW b \in Asks, stored'[b] # -1, clock - stored'[b] <= TTL
                 PROVE  exact'[b] \in entries' /\ exact'[b].ask = b /\ exact'[b].ts = stored'[b]
        BY <1>3 DEF KeysKept
    <3>1. byKey[b] \in list /\ byKey[b].ask = b /\ byKey[b].ts = stored'[b]
      <4>1. CASE b = a
          BY <1>1, <1>2, <1>6, <2>1, <4>1 DEF CacheInv, CacheTypeOK, Now
      <4>2. CASE b # a
        <5>1. byKey[b] = exact[b] /\ stored'[b] = stored[b]
            BY <1>1, <2>1, <4>2 DEF CacheInv, CacheTypeOK
        <5> QED BY <1>6, <5>1 DEF CacheInv, KeysKept
      <4> QED BY <4>1, <4>2
    <3>2. byKey[b] \in Entries /\ byKey[b] # NoEntry
        BY <2>3, <3>1 DEF Entries, NoEntry
    <3>3. Fresh(byKey[b])
        BY <1>6, <3>1 DEF Fresh, Now
    <3> HIDE DEF list, byKey
    <3> QED BY <2>1, <3>1, <3>2, <3>3 DEF Pruned, PrunedExact
  <2> QED BY <1>3, <2>4, <2>5 DEF CacheInv, ServedFresh
<1> QED BY <1>1, <1>4, <1>5, <1>6 DEF Stores, new, a, CacheInv, CacheTypeOK

\* Every step keeps what is served fresh and what is stored found.
LEMMA CacheStepInv ==
    ASSUME CacheInv, [CacheNext]_cacheVars
    PROVE  CacheInv'
<1>1. ASSUME NEW r \in Askers, Looks(r) PROVE CacheInv'
  <2>1. PICK a \in Asks :
          /\ \/ \E e \in Exact(a) : Serves(r, a, e)
             \/ Goes(r, "looking", a)
          /\ began' = Began
          /\ UNCHANGED <<where, clock, entries, exact, stored>>
    BY <1>1 DEF Looks
  <2> QED BY <2>1, ServeStep, GoStep
<1>2. ASSUME NEW r \in Askers, Searches(r) PROVE CacheInv'
  <2> DEFINE a == asker[r].ask
  <2>1. a \in Asks
    BY <1>2 DEF Searches, CacheInv, CacheTypeOK, Idle
  <2>2. /\ \/ began' = Began /\ \E e \in Nearest(a[2]) : Serves(r, a, e)
           \/ began' \in {began, Began} /\ Goes(r, "calling", a)
        /\ UNCHANGED <<where, clock, entries, exact, stored>>
    BY <1>2 DEF Searches
  <2> HIDE DEF a
  <2> QED BY <2>1, <2>2, ServeStep, GoStep
<1>3. ASSUME NEW r \in Askers, WorkerAnswers(r) PROVE CacheInv'
  <2>1. asker[r].ask \in Asks
    BY <1>3 DEF WorkerAnswers, CacheInv, CacheTypeOK, Idle
  <2>2. /\ Ends(r) \/ Goes(r, "storing", asker[r].ask)
        /\ UNCHANGED <<where, clock, entries, exact, began, stored>>
    BY <1>3 DEF WorkerAnswers
  <2> QED BY <2>1, <2>2, GoStep
<1>4. CASE CacheRestarts
  <2>1. CacheTypeOK'
    <3>1. IsFiniteSet({}) /\ Cardinality({}) = 0
        BY FS_EmptySet
    <3> QED BY <1>4, <3>1, CacheAssumption DEF CacheRestarts, CacheInv, CacheTypeOK
  <2> QED BY <1>4, <2>1 DEF CacheRestarts, CacheInv, ServedFresh, KeysKept
<1>5. CASE CacheTicks
  <2>1. clock' = clock + 1 /\ clock' \in 0..LastTick /\ clock \in Nat /\ served' = NotServed
        /\ UNCHANGED <<where, entries, exact, began, asker, stored>>
    BY <1>5, CacheAssumption DEF CacheTicks, CacheInv, CacheTypeOK
  <2>2. CacheTypeOK'
    BY <2>1 DEF CacheInv, CacheTypeOK
  <2>3. KeysKept'
    BY <2>1, CacheAssumption DEF CacheInv, CacheTypeOK, KeysKept
  <2> QED BY <2>1, <2>2, <2>3 DEF CacheInv, ServedFresh
<1>6. CASE UNCHANGED cacheVars
  <2>1. UNCHANGED <<where, clock, entries, exact, began, asker, served, stored>>
    BY <1>6 DEF cacheVars
  <2>2. CacheTypeOK'
    BY <2>1 DEF CacheInv, CacheTypeOK
  <2> QED BY <2>1, <2>2 DEF CacheInv, ServedFresh, KeysKept
<1> QED BY <1>1, <1>2, <1>3, <1>4, <1>5, <1>6, StoreStep DEF CacheNext

\* So it is at every step.
LEMMA CacheInductive == CacheSpec => []CacheInv
<1>1. CacheInv /\ [CacheNext]_cacheVars => CacheInv'
    BY CacheStepInv
<1> QED BY <1>1, CacheInitInv, PTL DEF CacheSpec

\* In memory, what is served has been stored within its TTL, for what was asked or
\* for a text near it, and what is stored is found throughout its TTL, past every
\* pruning (semantic_cache.py).
THEOREM EntriesLiveTheirTTL == CacheSpec => []MemoryKeepsTTL
<1>1. ASSUME CacheInv PROVE MemoryKeepsTTL
  <2>1. StoredIsFound
    <3> SUFFICES ASSUME where = "memory", NEW a \in Asks, stored[a] # -1, clock - stored[a] <= TTL
                 PROVE  \E e \in entries : e.ask = a /\ e.ts = stored[a] /\ Exact(a) = {e}
        BY DEF StoredIsFound
    <3>1. exact[a] \in entries /\ exact[a].ask = a /\ exact[a].ts = stored[a]
        BY <1>1 DEF CacheInv, KeysKept
    <3>2. exact[a] # NoEntry
        BY <1>1, <3>1 DEF CacheInv, CacheTypeOK, Entries, NoEntry
    <3>3. Exact(a) = {exact[a]}
        BY <3>1, <3>2 DEF Exact, Fresh, Now
    <3> QED BY <3>1, <3>3
  <2> QED BY <1>1, <2>1 DEF CacheInv, MemoryKeepsTTL
<1> QED BY <1>1, CacheInductive, PTL

-----------------------------------------------------------------------------
(* The readiness probe *)

\* A candidate that has a key has answered at a time or after it.
AnsweredSince(tick) == \E i \in Probed :
    Candidates[i] \in Keyed /\ lastUp[Candidates[i]] >= tick

ReadyInv ==
    /\ ReadyTypeOK
    /\ \A w \in up : lastUp[w] = second
    /\ probe.ok /\ ~soft /\ mode \in {"http", "chat"} => AnsweredSince(probe.ts)

\* The first of the candidates is probed, where there is one.
LEMMA Candidacy ==
    /\ \A i \in Probed : i \in Nat /\ Candidates[i] \in Range(Candidates)
    /\ Candidates # <<>> => 1 \in Probed
<1>1. DOMAIN Candidates = 1..Len(Candidates) /\ Len(Candidates) \in Nat
    BY ReadyAssumption
<1>2. \A i \in Probed : i \in Nat /\ Candidates[i] \in Range(Candidates)
    BY <1>1 DEF Probed, Range
<1>3. ASSUME Candidates # <<>> PROVE 1 \in Probed
  <2>1. Len(Candidates) # 0
    BY <1>3, ReadyAssumption
  <2> QED BY <1>1, <2>1, ReadyAssumption DEF Probed
<1> QED BY <1>2, <1>3

\* The steps that ask nothing of a worker, and those that change no worker.
LEMMA ProbeStep ==
    ASSUME ReadyInv, NEW v \in Visitors, Visits(v) \/ Pings(v) \/ ProbeRaises(v)
    PROVE  /\ ReadyInv'
           /\ told'.ready /\ ~soft /\ mode \in {"http", "chat"}
                => AnsweredSince(Earlier(told'.since, second - ProbeCache + 1))
<1>1. /\ second \in Nat /\ second \in 0..second /\ second \in 0..LastSecond
      /\ ProbeCache \in Nat /\ UNCHANGED <<mode, soft, second, up, lastUp>>
      /\ probe.ts \in Int /\ \A w \in Range(Candidates) : lastUp[w] \in Int
  <2>1. UNCHANGED <<mode, soft, second, up, lastUp>>
    BY DEF Visits, Pings, ProbeRaises
  <2>2. second \in Nat /\ second \in 0..second /\ second \in 0..LastSecond /\ ProbeCache \in Nat
    BY ReadyAssumption DEF ReadyInv, ReadyTypeOK
  <2>3. probe.ts \in Int /\ \A w \in Range(Candidates) : lastUp[w] \in Int
    BY <2>2 DEF ReadyInv, ReadyTypeOK
  <2> QED BY <2>1, <2>2, <2>3
<1>2. ASSUME NEW ok \in BOOLEAN, NEW since \in 0..second, Tells(v, ok, since),
             probe' = probe \/ Keeps(since, ok)
      PROVE  /\ ReadyTypeOK' /\ (told'.ready => ok) /\ told'.since = since
    BY <1>1, <1>2, ReadyAssumption DEF ReadyInv, ReadyTypeOK, Tells, Keeps
<1>3. ASSUME NEW x \in Int, NEW y \in Int, AnsweredSince(x), y <= x PROVE AnsweredSince(y)
    BY <1>1, <1>3, Candidacy DEF AnsweredSince
<1>4. \A since \in 0..second :
        /\ Earlier(since, second - ProbeCache + 1) \in Int
        /\ Earlier(since, second - ProbeCache + 1) <= since
        /\ Earlier(since, second - ProbeCache + 1) <= second - ProbeCache + 1
    BY <1>1 DEF Earlier
<1>5. CASE Visits(v) /\ second - probe.ts < ProbeCache
  <2>1. Tells(v, probe.ok, second) /\ probe' = probe
    BY <1>1, <1>5 DEF Visits
  <2>2. ReadyTypeOK' /\ (told'.ready => probe.ok) /\ told'.since = second
    BY <1>1, <1>2, <2>1 DEF ReadyInv, ReadyTypeOK
  <2>3. ReadyInv'
    BY <1>1, <2>1, <2>2 DEF ReadyInv, AnsweredSince
  <2>4. ASSUME told'.ready, ~soft, mode \in {"http", "chat"}
        PROVE  AnsweredSince(Earlier(told'.since, second - ProbeCache + 1))
    <3>1. AnsweredSince(probe.ts) /\ second - ProbeCache + 1 <= probe.ts
        BY <1>1, <1>5, <2>2, <2>4 DEF ReadyInv
    <3> QED BY <1>1, <1>3, <1>4, <2>2, <3>1
  <2> QED BY <2>3, <2>4
<1>6. CASE Visits(v) /\ ~(second - probe.ts < ProbeCache) /\ NoCalls
  <2>1. Tells(v, WithoutCalls, second) /\ Keeps(second, WithoutCalls) /\ WithoutCalls \in BOOLEAN
    <3>1. second - probe.ts >= ProbeCache
        BY <1>1, <1>6
    <3>2. WithoutCalls \in BOOLEAN
        BY DEF WithoutCalls
    <3> QED BY <1>6, <3>1, <3>2 DEF Visits
  <2>2. ReadyTypeOK' /\ (told'.ready => WithoutCalls)
    BY <1>1, <1>2, <2>1
  <2>3. mode \in {"http", "chat"} => ~WithoutCalls
    BY DEF WithoutCalls
  <2> QED BY <1>1, <2>1, <2>2, <2>3 DEF ReadyInv, AnsweredSince, Keeps
<1>7. CASE Visits(v) /\ ~(second - probe.ts < ProbeCache) /\ ~NoCalls
  <2>1. /\ visitor' = [visitor EXCEPT ![v] = [since |-> second, next |-> 1]]
        /\ told' = NotTold /\ probe' = probe /\ Candidates # <<>>
    BY <1>1, <1>7 DEF Visits, NoCalls
  <2>2. ReadyTypeOK'
    BY <1>1, <2>1, Candidacy DEF ReadyInv, ReadyTypeOK, NotTold
  <2> QED BY <1>1, <2>1, <2>2 DEF ReadyInv, AnsweredSince, NotTold
<1>8. CASE Pings(v)
  <2> DEFINE w == Candidates[visitor[v].next]
             ok == w \in Keyed \cap up \/ soft
  <2>1. visitor[v].since \in 0..second /\ visitor[v].next \in Probed /\ ok \in BOOLEAN
    BY <1>8 DEF Pings, ReadyInv, ReadyTypeOK
  <2>2. CASE Keeps(visitor[v].since, ok) /\ Tells(v, ok, visitor[v].since)
    <3>1. /\ ReadyTypeOK' /\ (told'.ready => ok) /\ told'.since = visitor[v].since
          /\ probe' = [ts |-> visitor[v].since, ok |-> ok]
        BY <1>2, <2>1, <2>2 DEF Keeps
    <3>2. ok /\ ~soft => AnsweredSince(visitor[v].since)
      <4>1. w \in up => lastUp[w] = second
          BY DEF ReadyInv
      <4> QED BY <1>1, <2>1, <4>1 DEF AnsweredSince
    <3>3. ReadyInv'
        BY <1>1, <3>1, <3>2 DEF ReadyInv, AnsweredSince
    <3> HIDE DEF ok
    <3> QED BY <1>1, <1>3, <1>4, <2>1, <3>1, <3>2, <3>3
  <2>3. CASE /\ visitor[v].next + 1 \in Probed
             /\ visitor' = [visitor EXCEPT ![v].next = @ + 1]
             /\ told' = NotTold /\ probe' = probe
    <3>1. ReadyTypeOK'
      <4>1. visitor[v] \in [since : 0..second, next : Probed]
          BY <1>8 DEF Pings, ReadyInv, ReadyTypeOK
      <4>2. [visitor[v] EXCEPT !.next = @ + 1] \in [since : 0..second, next : Probed]
          BY <2>3, <4>1
      <4>3. visitor' \in [Visitors -> [since : 0..second, next : Probed] \cup {Elsewhere}]
          BY <2>3, <4>2 DEF ReadyInv, ReadyTypeOK
      <4> QED BY <1>1, <2>3, <4>3 DEF ReadyInv, ReadyTypeOK, NotTold
    <3> QED BY <1>1, <2>3, <3>1 DEF ReadyInv, AnsweredSince, NotTold
  <2> QED BY <1>8, <2>2, <2>3 DEF Pings
<1>9. CASE ProbeRaises(v)
  <2>1. visitor[v].since \in 0..second
    BY <1>9 DEF ProbeRaises, ReadyInv, ReadyTypeOK
  <2>2. /\ ReadyTypeOK' /\ (told'.ready => FALSE)
        /\ probe' = [ts |-> visitor[v].since, ok |-> FALSE]
    BY <1>2, <1>9, <2>1 DEF ProbeRaises, Keeps
  <2> QED BY <1>1, <2>2 DEF ReadyInv, AnsweredSince
<1> QED BY <1>5, <1>6, <1>7, <1>8, <1>9

\* Workers come, go and stay: none has answered later than it has answered.
LEMMA WorldStep ==
    ASSUME ReadyInv, WorkerChanges \/ SecondPasses
    PROVE  ReadyInv' /\ ~told'.ready
<1>1. /\ second \in Nat /\ LastSecond \in Nat /\ ProbeCache \in Nat /\ probe.ts \in Int
      /\ \A w \in Range(Candidates) : lastUp[w] \in -1..second
    BY ReadyAssumption DEF ReadyInv, ReadyTypeOK
<1>2. told' = NotTold /\ UNCHANGED <<mode, soft, probe, visitor>>
    BY DEF WorkerChanges, SecondPasses
<1>3. /\ ReadyTypeOK'
      /\ \A w \in up' : lastUp'[w] = second'
      /\ \A w \in Range(Candidates) : lastUp'[w] \in Int /\ lastUp'[w] >= lastUp[w]
  <2>1. CASE WorkerChanges
    BY <1>1, <1>2, <2>1 DEF WorkerChanges, ReadyInv, ReadyTypeOK, NotTold
  <2>2. CASE SecondPasses
    <3>1. second' = second + 1 /\ second' \in 0..LastSecond /\ up' = up
        BY <1>1, <2>2 DEF SecondPasses, ReadyInv, ReadyTypeOK
    <3>2. lastUp' = [w \in Range(Candidates) |-> IF w \in up THEN second + 1 ELSE lastUp[w]]
        BY <2>2 DEF SecondPasses
    <3>3. lastUp' \in [Range(Candidates) -> -1..second']
        BY <1>1, <3>1, <3>2
    <3>4. ReadyTypeOK'
        BY <1>1, <1>2, <3>1, <3>3 DEF ReadyInv, ReadyTypeOK, NotTold
    <3> QED BY <1>1, <3>1, <3>2, <3>4 DEF ReadyInv, ReadyTypeOK
  <2> QED BY <2>1, <2>2
<1>4. \A tick \in Int : AnsweredSince(tick) => AnsweredSince(tick)'
    BY <1>1, <1>3, Candidacy DEF AnsweredSince
<1> QED BY <1>1, <1>2, <1>3, <1>4 DEF ReadyInv, NotTold, AnsweredSince

\* So the result that is kept stands for an answer, at every step.
LEMMA ReadyInductive == ReadySpec => []ReadyInv
<1>1. ASSUME ReadyInit PROVE ReadyInv
  <2>1. ReadyTypeOK
    BY <1>1, ReadyAssumption DEF ReadyInit, ReadyTypeOK, NoProbe, NotTold
  <2> QED BY <1>1, <2>1 DEF ReadyInit, ReadyTypeOK, ReadyInv, NoProbe
<1>2. ASSUME ReadyInv, UNCHANGED readyVars PROVE ReadyInv'
    BY <1>2 DEF readyVars, ReadyInv, ReadyTypeOK, AnsweredSince
<1>3. ReadyInv /\ [ReadyNext]_readyVars => ReadyInv'
    BY <1>2, ProbeStep, WorldStep DEF ReadyNext
<1> QED BY <1>1, <1>3, PTL DEF ReadySpec

\* A load balancer that is told "ready" is told of an answer: a probed worker
\* has given one since the request came or within the time a result is kept,
\* for any number of requests, workers and seconds (readyz()).
THEOREM ReadyIsEarned == ReadySpec => ReadyReflects
<1>1. ASSUME ReadyInv, ReadyNext
      PROVE  told'.ready /\ ~soft /\ mode \in {"http", "chat"} =>
               \E i \in Probed : /\ Candidates[i] \in Keyed
                                 /\ lastUp[Candidates[i]] >= Earlier(told'.since, second - ProbeCache + 1)
    BY <1>1, ProbeStep, WorldStep DEF ReadyNext, AnsweredSince
<1>2. ReadyInv /\ [ReadyNext]_readyVars =>
        [told'.ready /\ ~soft /\ mode \in {"http", "chat"} =>
               \E i \in Probed : /\ Candidates[i] \in Keyed
                                 /\ lastUp[Candidates[i]] >= Earlier(told'.since, second - ProbeCache + 1)]_readyVars
    BY <1>1
<1> QED BY <1>2, ReadyInductive, PTL DEF ReadySpec, ReadyReflects

-----------------------------------------------------------------------------
(* The learned head *)

\* What Moves() sums: table's moves over the cells of s, from one cell to the next.
Chosen(s) == CHOOSE c \in s : TRUE
AddsUp(table, g, s) == IF s = {} THEN 0 ELSE table[Chosen(s)].moves + g[s \ {Chosen(s)}]
Sums(table, g, S) == g = [s \in SUBSET S |-> AddsUp(table, g, s)]
Summed(table) == CHOOSE g : Sums(table, g, DOMAIN table)

\* Two such sums agree: in a smallest set where they did not they would agree on
\* the rest of it.
LEMMA SumsAgree ==
    ASSUME NEW table, NEW S, IsFiniteSet(S), NEW g, NEW h, NEW T, NEW U,
           S \subseteq T, S \subseteq U, Sums(table, g, T), Sums(table, h, U)
    PROVE  g[S] = h[S]
<1> DEFINE Bad == {s \in SUBSET S : g[s] # h[s]}
<1> SUFFICES ASSUME Bad # {} PROVE FALSE
    OBVIOUS
<1>1. PICK s \in Bad : \A r \in Bad : r \subseteq s => r = s
  <2>1. Bad \subseteq SUBSET S
    OBVIOUS
  <2> HIDE DEF Bad
  <2> QED BY <2>1, SmallestExists
<1>2. s # {} /\ Chosen(s) \in s
    BY <1>1 DEF Sums, AddsUp, Chosen
<1>3. s \ {Chosen(s)} \notin Bad
    BY <1>1, <1>2
<1>4. g[s \ {Chosen(s)}] = h[s \ {Chosen(s)}]
    BY <1>1, <1>3
<1> QED BY <1>1, <1>2, <1>4 DEF Sums, AddsUp

\* There is such a sum: a smallest set without one would get it from its subsets.
LEMMA SumsExist ==
    ASSUME NEW table, NEW S, IsFiniteSet(S)
    PROVE  \E g : Sums(table, g, S)
<1> DEFINE Bad == {T \in SUBSET S : ~\E g : Sums(table, g, T)}
<1> SUFFICES ASSUME Bad # {} PROVE FALSE
    BY DEF Bad
<1>1. PICK T \in Bad : \A U \in Bad : U \subseteq T => U = T
  <2>1. Bad \subseteq SUBSET S
    OBVIOUS
  <2> HIDE DEF Bad
  <2> QED BY <2>1, SmallestExists
<1> DEFINE sum(U) == CHOOSE g : Sums(table, g, U)
           below == [U \in SUBSET T |-> IF U = T THEN 0 ELSE sum(U)[U]]
           whole == [U \in SUBSET T |-> IF U = T THEN AddsUp(table, below, T) ELSE below[U]]
<1>2. \A U \in SUBSET T : U # T => Sums(table, sum(U), U)
    BY <1>1
<1>3. ASSUME NEW U \in SUBSET T
      PROVE  whole[U] = AddsUp(table, whole, U)
  <2>1. CASE U = {}
    <3>1. CASE U = T
        BY <2>1, <3>1 DEF AddsUp
    <3>2. CASE U # T
        <4>1. Sums(table, sum(U), U)
            BY <1>2, <3>2
        <4>2. sum(U)[U] = 0
            BY <2>1, <4>1 DEF Sums, AddsUp
        <4> HIDE DEF sum
        <4> QED BY <2>1, <3>2, <4>2 DEF AddsUp
    <3> QED BY <3>1, <3>2
  <2>2. CASE U # {}
    <3> DEFINE V == U \ {Chosen(U)}
    <3>1. Chosen(U) \in U
        BY <2>2 DEF Chosen
    <3>2. V \in SUBSET T /\ V # T /\ V # U /\ V \subseteq U
        BY <3>1
    <3>3. whole[V] = sum(V)[V] /\ below[V] = sum(V)[V]
        BY <3>2
    <3>4. CASE U = T
        BY <2>2, <3>3, <3>4 DEF AddsUp
    <3>5. CASE U # T
      <4>1. Sums(table, sum(U), U) /\ Sums(table, sum(V), V)
          BY <1>2, <3>2, <3>5
      <4>2. IsFiniteSet(V)
          BY <3>2, FS_Subset
      <4> HIDE DEF sum, V
      <4>3. sum(U)[V] = sum(V)[V]
          BY <3>2, <4>1, <4>2, SumsAgree
      <4>4. sum(U)[U] = AddsUp(table, sum(U), U)
          BY <4>1 DEF Sums
      <4> QED BY <2>2, <3>3, <3>5, <4>3, <4>4 DEF AddsUp, V
    <3> QED BY <3>4, <3>5
  <2> QED BY <2>1, <2>2
<1>4. Sums(table, whole, T)
  <2>1. whole = [U \in SUBSET T |-> whole[U]]
    OBVIOUS
  <2> HIDE DEF whole
  <2> QED BY <1>3, <2>1 DEF Sums
<1> HIDE DEF whole
<1> QED BY <1>1, <1>4

\* Moves() is that sum.
LEMMA MovesAreSummed ==
    ASSUME NEW table, DOMAIN table = Cells
    PROVE  Moves(table) = Summed(table)[Cells] /\ Sums(table, Summed(table), Cells)
<1>1. Moves(table) = Summed(table)[DOMAIN table]
    BY DEF Moves, FoldFunction, FoldFunctionOnSet, MapThenFoldSet, Summed, Sums, AddsUp, Chosen
<1>2. PICK g : Sums(table, g, Cells)
    BY SumsExist, HeadAssumption
<1>3. Sums(table, Summed(table), DOMAIN table)
    BY <1>2 DEF Summed
<1> QED BY <1>1, <1>3

\* Two tables that have the same moves but for at most one more in one cell.
Further(table, new, c) ==
    \A k \in Cells : new[k].moves = table[k].moves + IF k = c THEN 1 ELSE 0

\* The moves of a table are a natural; they are as many as those of a table with
\* as many in each cell, and no fewer than those of one with fewer.
LEMMA MovesGrow ==
    ASSUME NEW table, NEW new, DOMAIN table = Cells, DOMAIN new = Cells,
           \A k \in Cells : table[k].moves \in Nat /\ new[k].moves \in Nat,
           \A k \in Cells : table[k].moves <= new[k].moves
    PROVE  Moves(table) \in Nat /\ Moves(new) \in Nat /\ Moves(table) <= Moves(new)
<1> DEFINE g == Summed(table)
           h == Summed(new)
           Bad == {s \in SUBSET Cells : ~(g[s] \in Nat /\ h[s] \in Nat /\ g[s] <= h[s])}
<1>1. /\ Moves(table) = g[Cells] /\ Moves(new) = h[Cells]
      /\ \A s \in SUBSET Cells : g[s] = AddsUp(table, g, s) /\ h[s] = AddsUp(new, h, s)
  <2>1. /\ Moves(table) = g[Cells] /\ Sums(table, g, Cells)
        /\ Moves(new) = h[Cells] /\ Sums(new, h, Cells)
    BY MovesAreSummed
  <2> HIDE DEF g, h
  <2> QED BY <2>1 DEF Sums
<1> HIDE DEF g, h
<1>2. Bad = {}
  <2> SUFFICES ASSUME Bad # {} PROVE FALSE
    OBVIOUS
  <2>1. PICK s \in Bad : \A r \in Bad : r \subseteq s => r = s
    <3>1. Bad \subseteq SUBSET Cells
        OBVIOUS
    <3> HIDE DEF Bad
    <3> QED BY <3>1, SmallestExists, HeadAssumption
  <2>2. s # {}
    <3>1. g[{}] = 0 /\ h[{}] = 0
      <4>1. AddsUp(table, g, {}) = 0 /\ AddsUp(new, h, {}) = 0
          BY DEF AddsUp
      <4> QED BY <1>1, <4>1
    <3>2. ASSUME s = {} PROVE FALSE
      <4>1. {} \notin Bad
          BY <3>1
      <4> HIDE DEF Bad
      <4> QED BY <2>1, <3>2, <4>1
    <3> QED BY <3>2
  <2>3. Chosen(s) \in s
    BY <2>2 DEF Chosen
  <2> DEFINE c == Chosen(s)
             r == s \ {c}
  <2>4. g[r] \in Nat /\ h[r] \in Nat /\ g[r] <= h[r]
    BY <2>1, <2>3
  <2>5. g[s] = table[c].moves + g[r] /\ h[s] = new[c].moves + h[r]
    BY <1>1, <2>1, <2>2 DEF AddsUp
  <2>6. table[c].moves \in Nat /\ new[c].moves \in Nat /\ table[c].moves <= new[c].moves
    BY <2>1, <2>3
  <2>7. g[s] \in Nat /\ h[s] \in Nat /\ g[s] <= h[s]
    <3> HIDE DEF c, r
    <3> QED BY <2>4, <2>5, <2>6
  <2> QED BY <2>1, <2>7
<1> QED BY <1>1, <1>2

\* One move more in one cell is one move more.
LEMMA MovesByOne ==
    ASSUME NEW table, NEW new, NEW c \in Cells, DOMAIN table = Cells, DOMAIN new = Cells,
           \A k \in Cells : table[k].moves \in Nat, Further(table, new, c)
    PROVE  Moves(new) = Moves(table) + 1
<1> DEFINE g == Summed(table)
           h == Summed(new)
           One(s) == IF c \in s THEN 1 ELSE 0
           Bad == {s \in SUBSET Cells : ~(g[s] \in Nat /\ h[s] = g[s] + One(s))}
<1>1. /\ Moves(table) = g[Cells] /\ Moves(new) = h[Cells]
      /\ \A s \in SUBSET Cells : g[s] = AddsUp(table, g, s) /\ h[s] = AddsUp(new, h, s)
  <2>1. /\ Moves(table) = g[Cells] /\ Sums(table, g, Cells)
        /\ Moves(new) = h[Cells] /\ Sums(new, h, Cells)
    BY MovesAreSummed
  <2> HIDE DEF g, h
  <2> QED BY <2>1 DEF Sums
<1> HIDE DEF g, h
<1>2. Bad = {}
  <2> SUFFICES ASSUME Bad # {} PROVE FALSE
    OBVIOUS
  <2>1. PICK s \in Bad : \A r \in Bad : r \subseteq s => r = s
    <3>1. Bad \subseteq SUBSET Cells
        OBVIOUS
    <3> HIDE DEF Bad
    <3> QED BY <3>1, SmallestExists, HeadAssumption
  <2>2. s # {}
    <3>1. g[{}] = 0 /\ h[{}] = 0
      <4>1. AddsUp(table, g, {}) = 0 /\ AddsUp(new, h, {}) = 0
          BY DEF AddsUp
      <4> QED BY <1>1, <4>1
    <3>2. ASSUME s = {} PROVE FALSE
      <4>1. {} \notin Bad
          BY <3>1
      <4> HIDE DEF Bad
      <4> QED BY <2>1, <3>2, <4>1
    <3> QED BY <3>2
  <2>3. Chosen(s) \in s
    BY <2>2 DEF Chosen
  <2> DEFINE k == Chosen(s)
             r == s \ {k}
  <2>4. g[r] \in Nat /\ h[r] = g[r] + One(r)
    BY <2>1, <2>3
  <2>5. g[s] = table[k].moves + g[r] /\ h[s] = new[k].moves + h[r]
    BY <1>1, <2>1, <2>2 DEF AddsUp
  <2>6. table[k].moves \in Nat /\ new[k].moves = table[k].moves + IF k = c THEN 1 ELSE 0
    BY <2>1, <2>3 DEF Further
  <2>7. One(s) = One(r) + IF k = c THEN 1 ELSE 0
    BY <2>3
  <2>8. One(r) \in Nat /\ One(s) \in Nat
    OBVIOUS
  <2>9. g[s] \in Nat /\ h[s] = g[s] + One(s)
    <3> HIDE DEF k, r, One
    <3> QED BY <2>4, <2>5, <2>6, <2>7, <2>8
  <2> QED BY <2>1, <2>9
<1>3. One(Cells) = 1
    OBVIOUS
<1> HIDE DEF One
<1> QED BY <1>1, <1>2, <1>3

\* A table without moves has none.
LEMMA NoMoves ==
    ASSUME NEW table, DOMAIN table = Cells, \A k \in Cells : table[k].moves = 0
    PROVE  Moves(table) = 0
<1> DEFINE g == Summed(table)
           Bad == {s \in SUBSET Cells : g[s] # 0}
<1>1. Moves(table) = g[Cells] /\ \A s \in SUBSET Cells : g[s] = AddsUp(table, g, s)
  <2>1. Moves(table) = g[Cells] /\ Sums(table, g, Cells)
    BY MovesAreSummed
  <2> HIDE DEF g
  <2> QED BY <2>1 DEF Sums
<1> HIDE DEF g
<1>2. Bad = {}
  <2> SUFFICES ASSUME Bad # {} PROVE FALSE
    OBVIOUS
  <2>1. PICK s \in Bad : \A r \in Bad : r \subseteq s => r = s
    <3>1. Bad \subseteq SUBSET Cells
        OBVIOUS
    <3> HIDE DEF Bad
    <3> QED BY <3>1, SmallestExists, HeadAssumption
  <2>2. s # {}
    <3>1. g[{}] = 0
      <4>1. AddsUp(table, g, {}) = 0
          BY DEF AddsUp
      <4> QED BY <1>1, <4>1
    <3> QED BY <2>1, <3>1
  <2>3. Chosen(s) \in s
    BY <2>2 DEF Chosen
  <2>4. g[s \ {Chosen(s)}] = 0 /\ table[Chosen(s)].moves = 0
    BY <2>1, <2>3
  <2>5. g[s] = table[Chosen(s)].moves + g[s \ {Chosen(s)}]
    BY <1>1, <2>1, <2>2 DEF AddsUp
  <2> QED BY <2>1, <2>4, <2>5
<1> QED BY <1>1, <1>2

\* What the threads of one process do: ts, with its table, its weights w, and
\* what it has learned, d, since it started with b.
Blank(table) == \A c \in Cells : table[c].at = Absent => table[c].moves = 0
Learns(state) == state.stage \in {"entered", "moved"}
Alone(ts) == \A t, u \in Threads : Learns(ts[t]) /\ Learns(ts[u]) => t = u
HalfDone(ts) == IF \E t \in Threads : ts[t].stage = "moved" THEN 1 ELSE 0
Counts(table, w, ts, b, d) ==
    /\ b.weights <= b.moves
    /\ w = b.weights + d
    /\ Moves(table) = b.moves + d + HalfDone(ts)
HasRead(table, w, ts) == \A t \in Threads :
    /\ ts[t].stage = "entered" => ts[t].read.moves = table[ts[t].cell].moves
    /\ ts[t].stage = "moved" => ts[t].read = w

\* The file as it would be if the cells still to be copied were copied now.
Mixed(table, my) == [c \in Cells |-> IF c \in my.left THEN table[c] ELSE my.copied[c]]
Covered(table, my) ==
    my.stage \in {"saving", "truncated"} =>
        /\ Blank(my.copied)
        /\ my.weights <= Moves(Mixed(table, my))
        /\ my.stage = "truncated" => my.left = {}

Held(table, w, ts, b, d) ==
    /\ Blank(table) /\ Alone(ts) /\ Counts(table, w, ts, b, d) /\ HasRead(table, w, ts)
    /\ \A t \in Threads : Covered(table, ts[t])
Whole(file) == file.state = "whole" => Blank(file.prior) /\ file.weights <= Moves(file.prior)

States == {Resting} \cup Entered \cup Moved \cup Predicting \cup Saving
Snapshots == {NoSnapshot, Torn} \cup [state : {"whole"}, prior : Priors, weights : Nat]
Starting == [moves : Nat, weights : Nat]

HeadInv ==
    /\ HeadTypeOK /\ Whole(snapshot)
    /\ \A s \in Servers : Held(prior[s], weights[s], thread[s], base[s], done[s])

\* The moves of a table are a natural.
LEMMA MovesType ==
    ASSUME NEW table \in Priors
    PROVE  Moves(table) \in Nat
<1>1. DOMAIN table = Cells /\ \A k \in Cells : table[k].moves \in Nat /\ table[k].moves <= table[k].moves
    BY DEF Priors
<1> QED BY <1>1, MovesGrow

\* What a thread holds at each stage.
LEMMA StageHolds ==
    ASSUME NEW state \in States
    PROVE  /\ state.stage = "rest" => state = Resting
           /\ state.stage = "entered" => state \in Entered
           /\ state.stage = "moved" => state \in Moved
           /\ state.stage = "predicting" => state \in Predicting
           /\ state.stage \in {"saving", "truncated"} => state \in Saving
<1>1. /\ Resting.stage = "rest" /\ \A x \in Entered : x.stage = "entered"
      /\ \A x \in Moved : x.stage = "moved"
      /\ \A x \in Predicting : x.stage = "predicting"
      /\ \A x \in Saving : x.stage \in {"saving", "truncated"}
    BY DEF Resting, Entered, Moved, Predicting, Saving
<1> QED BY <1>1 DEF States

\* A step of one process leaves the others as they are.
LEMMA ServerStep ==
    ASSUME HeadInv, NEW s \in Servers, NEW table \in Priors, NEW w \in Nat,
           NEW ts \in [Threads -> States], NEW b \in Starting, NEW d \in Nat,
           Held(table, w, ts, b, d),
           prior' = [prior EXCEPT ![s] = table], weights' = [weights EXCEPT ![s] = w],
           thread' = [thread EXCEPT ![s] = ts], base' = [base EXCEPT ![s] = b],
           done' = [done EXCEPT ![s] = d],
           snapshot' \in Snapshots, Whole(snapshot'), turns' \in 0..TurnLimit
    PROVE  HeadInv'
<1>1. HeadTypeOK'
    BY DEF HeadInv, HeadTypeOK, States, Snapshots, Starting
<1>2. ASSUME NEW x \in Servers
      PROVE  Held(prior'[x], weights'[x], thread'[x], base'[x], done'[x])
  <2>1. CASE x = s
    <3>1. prior'[x] = table /\ weights'[x] = w /\ thread'[x] = ts /\ base'[x] = b /\ done'[x] = d
        BY <2>1 DEF HeadInv, HeadTypeOK
    <3> QED BY <3>1
  <2>2. CASE x # s
    <3>1. /\ prior'[x] = prior[x] /\ weights'[x] = weights[x] /\ thread'[x] = thread[x]
          /\ base'[x] = base[x] /\ done'[x] = done[x]
        BY <2>2 DEF HeadInv, HeadTypeOK
    <3> QED BY <3>1 DEF HeadInv
  <2> QED BY <2>1, <2>2
<1> QED BY <1>1, <1>2 DEF HeadInv

\* The state of a process, with its types.
LEMMA ServerHolds ==
    ASSUME HeadInv, NEW s \in Servers
    PROVE  /\ prior[s] \in Priors /\ weights[s] \in Nat /\ thread[s] \in [Threads -> States]
           /\ base[s] \in Starting /\ done[s] \in Nat
           /\ snapshot \in Snapshots /\ Whole(snapshot) /\ turns \in 0..TurnLimit
           /\ Held(prior[s], weights[s], thread[s], base[s], done[s])
    BY DEF HeadInv, HeadTypeOK, States, Snapshots, Starting

\* A thread that goes on and changes nothing else of its process.
LEMMA ThreadTurns ==
    ASSUME HeadInv, NEW s \in Servers, NEW t \in Threads, NEW to \in States,
           Turns(s, t, to), UNCHANGED <<prior, weights, base, done>>,
           Learns(to) => LockFree(s) /\ to.stage = "entered" /\ to.read.moves = prior[s][to.cell].moves,
           ~Learns(thread[s][t]), Covered(prior[s], to),
           snapshot' \in Snapshots, Whole(snapshot'), turns' \in 0..TurnLimit
    PROVE  HeadInv'
<1> DEFINE ts == [thread[s] EXCEPT ![t] = to]
<1>1. /\ prior[s] \in Priors /\ weights[s] \in Nat /\ thread[s] \in [Threads -> States]
      /\ base[s] \in Starting /\ done[s] \in Nat
      /\ Held(prior[s], weights[s], thread[s], base[s], done[s])
    BY ServerHolds
<1>2. /\ ts \in [Threads -> States] /\ ts[t] = to
      /\ \A u \in Threads : u # t => ts[u] = thread[s][u]
    BY <1>1
<1>3. /\ prior' = [prior EXCEPT ![s] = prior[s]] /\ weights' = [weights EXCEPT ![s] = weights[s]]
      /\ base' = [base EXCEPT ![s] = base[s]] /\ done' = [done EXCEPT ![s] = done[s]]
    BY DEF HeadInv, HeadTypeOK
<1>4. thread' = [thread EXCEPT ![s] = ts]
    BY DEF Turns, HeadInv, HeadTypeOK
<1> HIDE DEF ts
<1>5. Learns(to) => \A u \in Threads : ~Learns(thread[s][u])
    BY DEF LockFree, Busy, Learns
<1>6. Alone(ts)
    BY <1>1, <1>2, <1>5 DEF Held, Alone
<1>7. HalfDone(ts) = HalfDone(thread[s])
  <2>1. \A u \in Threads : ts[u].stage = "moved" <=> thread[s][u].stage = "moved"
    BY <1>2 DEF Learns
  <2> QED BY <2>1 DEF HalfDone
<1>8. HasRead(prior[s], weights[s], ts)
  <2>1. to.stage # "moved" /\ (to.stage = "entered" => to.read.moves = prior[s][to.cell].moves)
    BY DEF Learns
  <2>2. HasRead(prior[s], weights[s], thread[s])
    BY <1>1 DEF Held
  <2> QED BY <1>2, <2>1, <2>2 DEF HasRead
<1>9. \A u \in Threads : Covered(prior[s], ts[u])
  <2>1. \A u \in Threads : Covered(prior[s], thread[s][u])
    BY <1>1 DEF Held
  <2> QED BY <1>2, <2>1
<1>10. Held(prior[s], weights[s], ts, base[s], done[s])
    BY <1>1, <1>6, <1>7, <1>8, <1>9 DEF Held, Counts
<1> DEFINE table == prior[s]
           w == weights[s]
           b == base[s]
           d == done[s]
<1>11. /\ table \in Priors /\ w \in Nat /\ ts \in [Threads -> States] /\ b \in Starting /\ d \in Nat
       /\ Held(table, w, ts, b, d)
       /\ prior' = [prior EXCEPT ![s] = table] /\ weights' = [weights EXCEPT ![s] = w]
       /\ thread' = [thread EXCEPT ![s] = ts]
       /\ base' = [base EXCEPT ![s] = b] /\ done' = [done EXCEPT ![s] = d]
    BY <1>1, <1>2, <1>3, <1>4, <1>10
<1> HIDE DEF table, w, b, d
<1>12. HeadInv /\ s \in Servers /\ snapshot' \in Snapshots /\ Whole(snapshot') /\ turns' \in 0..TurnLimit
    OBVIOUS
<1> QED BY ONLY <1>11, <1>12, ServerStep

\* Weights have learned no more than priors have moved.
LEMMA SpentIsMoved ==
    ASSUME NEW s \in Servers, HeadInv
    PROVE  weights[s] <= Moves(prior[s])
<1>1. /\ prior[s] \in Priors /\ weights[s] \in Nat /\ base[s] \in Starting /\ done[s] \in Nat
      /\ Counts(prior[s], weights[s], thread[s], base[s], done[s])
    BY ServerHolds DEF Held
<1> DEFINE extra == HalfDone(thread[s])
           total == Moves(prior[s])
           w == weights[s]
           b == base[s].weights
           m == base[s].moves
           d == done[s]
<1>2. extra \in {0, 1}
    BY DEF HalfDone
<1>3. b \in Nat /\ m \in Nat /\ d \in Nat /\ b <= m /\ w = b + d /\ total = m + d + extra
    BY <1>1 DEF Counts, Starting
<1> HIDE DEF extra, total, w, b, m, d
<1>4. w <= total
    BY <1>2, <1>3
<1> QED BY <1>4 DEF w, total

\* Raising a table to floors moves nothing.
LEMMA LiftedKeeps ==
    ASSUME NEW table \in Priors, Blank(table), NEW floors \in [Cells -> Percent \cup {Absent}], NEW force
    PROVE  /\ Lifted(table, floors, force) \in Priors /\ Blank(Lifted(table, floors, force))
           /\ \A c \in Cells : Lifted(table, floors, force)[c].moves = table[c].moves
<1> DEFINE new == Lifted(table, floors, force)
<1>1. new = [c \in Cells |-> new[c]]
    BY DEF Lifted
<1>2. ASSUME NEW c \in Cells
      PROVE  /\ new[c] \in [at : Percent \cup {Absent}, moves : Nat]
             /\ new[c].moves = table[c].moves
             /\ new[c].at = Absent => table[c].at = Absent
  <2>1. table[c] \in [at : Percent \cup {Absent}, moves : Nat] /\ floors[c] \in Percent \cup {Absent}
    BY DEF Priors
  <2>2. new[c] = table[c] \/ (floors[c] # Absent /\ new[c] = [table[c] EXCEPT !.at = floors[c]])
    BY DEF Lifted
  <2> HIDE DEF new
  <2> QED BY <2>1, <2>2
<1> HIDE DEF new
<1>3. new \in Priors /\ Blank(new) /\ \A c \in Cells : new[c].moves = table[c].moves
    BY <1>1, <1>2 DEF Priors, Blank
<1> QED BY <1>3 DEF new

\* The same holds of all floors of a process.
LEMMA FlooredKeeps ==
    ASSUME NEW table \in Priors, Blank(table), NEW force
    PROVE  /\ Floored(table, force) \in Priors /\ Blank(Floored(table, force))
           /\ \A c \in Cells : Floored(table, force)[c].moves = table[c].moves
<1> DEFINE local == Lifted(table, LocalFloors, force)
<1>1. LocalFloors \in [Cells -> Percent \cup {Absent}] /\ Floors \in [Cells -> Percent \cup {Absent}]
  <2>1. \A f \in {Calibrated, HandTuned, LocalFloors, LeastFloors} : f \in [Cells -> Percent \cup {Absent}]
    BY HeadAssumption
  <2> QED BY <2>1 DEF Floors
<1>2. local \in Priors /\ Blank(local) /\ \A c \in Cells : local[c].moves = table[c].moves
    BY <1>1, LiftedKeeps
<1> HIDE DEF local
<1>3. /\ Lifted(local, Floors, force) \in Priors /\ Blank(Lifted(local, Floors, force))
      /\ \A c \in Cells : Lifted(local, Floors, force)[c].moves = local[c].moves
    BY <1>1, <1>2, LiftedKeeps
<1> QED BY <1>2, <1>3 DEF Floored, local

\* A process starts with priors that have moved for all its weights have learned.
LEMMA StartHolds ==
    ASSUME snapshot \in Snapshots, Whole(snapshot)
    PROVE  /\ Reset \in Priors /\ Blank(Reset)
           /\ Loaded(Reset) \in Priors /\ Blank(Loaded(Reset))
           /\ LoadedWeights \in Nat /\ LoadedWeights <= Moves(Loaded(Reset))
<1> DEFINE plain == [c \in Cells |-> [NoPrior EXCEPT !.at = IF c \in Baseline THEN 50 ELSE Absent]]
<1>1. plain \in Priors /\ Blank(plain) /\ \A c \in Cells : plain[c].moves = 0
    BY DEF Priors, Blank, NoPrior, Percent, Absent
<1>0. Reset = Floored(plain, TRUE)
    BY DEF Reset
<1> HIDE DEF plain
<1>2. Reset \in Priors /\ Blank(Reset) /\ \A c \in Cells : Reset[c].moves = 0
    BY <1>0, <1>1, FlooredKeeps
<1> HIDE DEF Reset
<1>3. CASE snapshot.state # "whole"
  <2>1. Loaded(Reset) = Reset /\ LoadedWeights = 0
    BY <1>3 DEF Loaded, LoadedWeights
  <2>2. Moves(Reset) \in Nat
    BY <1>2, MovesType
  <2> QED BY <1>2, <2>1, <2>2
<1>4. CASE snapshot.state = "whole"
  <2> DEFINE file == snapshot.prior
             both == [c \in Cells |-> IF snapshot.prior[c].at # Absent THEN snapshot.prior[c] ELSE Reset[c]]
  <2>1. file \in Priors /\ Blank(file) /\ snapshot.weights \in Nat /\ snapshot.weights <= Moves(file)
    BY <1>4 DEF Snapshots, NoSnapshot, Torn, Whole
  <2>2. Loaded(Reset) = Floored(both, FALSE) /\ LoadedWeights = snapshot.weights
    BY <1>4 DEF Loaded, LoadedWeights
  <2>3. both \in Priors /\ Blank(both) /\ \A c \in Cells : both[c].moves = file[c].moves
    BY <1>2, <2>1 DEF Priors, Blank
  <2> HIDE DEF both
  <2> DEFINE new == Floored(both, FALSE)
  <2>4. new \in Priors /\ Blank(new) /\ \A c \in Cells : new[c].moves = both[c].moves
    BY <2>3, FlooredKeeps
  <2>7. Loaded(Reset) = new
    BY <2>2
  <2> HIDE DEF file, new
  <2>5. /\ DOMAIN file = Cells /\ DOMAIN new = Cells
        /\ \A c \in Cells : file[c].moves \in Nat /\ new[c].moves \in Nat /\ file[c].moves <= new[c].moves
    BY <2>1, <2>3, <2>4 DEF Priors
  <2>6. Moves(file) \in Nat /\ Moves(new) \in Nat /\ Moves(file) <= Moves(new)
    BY <2>5, MovesGrow
  <2>8. snapshot.weights \in Nat /\ snapshot.weights <= Moves(new)
    BY <2>1, <2>6
  <2>9. new \in Priors /\ Blank(new)
    BY <2>4
  <2> QED BY <1>2, <2>2, <2>7, <2>8, <2>9
<1> QED BY <1>2, <1>3, <1>4

\* What a process that has just started holds.
LEMMA FreshHolds ==
    ASSUME NEW table \in Priors, Blank(table), NEW w \in Nat, w <= Moves(table)
    PROVE  Held(table, w, [t \in Threads |-> Resting], [moves |-> Moves(table), weights |-> w], 0)
<1> DEFINE ts == [t \in Threads |-> Resting]
           b == [moves |-> Moves(table), weights |-> w]
<1>1. Moves(table) \in Nat
    BY MovesType
<1>2. \A t \in Threads : ts[t].stage = "rest"
    BY DEF Resting
<1> HIDE DEF ts
<1>3. Alone(ts) /\ HasRead(table, w, ts) /\ HalfDone(ts) = 0 /\ \A t \in Threads : Covered(table, ts[t])
    BY <1>2 DEF Alone, Learns, HasRead, HalfDone, Covered
<1>4. b.moves = Moves(table) /\ b.weights = w
    OBVIOUS
<1> HIDE DEF b
<1>5. Counts(table, w, ts, b, 0)
    BY <1>1, <1>3, <1>4 DEF Counts
<1>6. Held(table, w, ts, b, 0)
    BY <1>3, <1>5 DEF Held
<1> QED BY <1>6 DEF ts, b

LEMMA HeadInitInv ==
    ASSUME HeadInit
    PROVE  HeadInv
<1>1. snapshot \in Snapshots /\ Whole(snapshot) /\ snapshot.state # "whole"
    BY DEF HeadInit, Snapshots, Whole, NoSnapshot
<1>2. Reset \in Priors /\ Blank(Reset)
    BY <1>1, StartHolds
<1>3. \A c \in Cells : Reset[c].moves = 0
  <2> DEFINE plain == [c \in Cells |-> [NoPrior EXCEPT !.at = IF c \in Baseline THEN 50 ELSE Absent]]
  <2>1. plain \in Priors /\ Blank(plain) /\ \A c \in Cells : plain[c].moves = 0
    BY DEF Priors, Blank, NoPrior, Percent, Absent
  <2>2. Reset = Floored(plain, TRUE)
    BY DEF Reset
  <2> HIDE DEF plain
  <2> QED BY <2>1, <2>2, FlooredKeeps
<1>4. Moves(Reset) = 0
  <2>1. DOMAIN Reset = Cells
    BY <1>2 DEF Priors
  <2> QED BY <1>3, <2>1, NoMoves
<1>5. Held(Reset, 0, [t \in Threads |-> Resting], [moves |-> 0, weights |-> 0], 0)
    BY <1>2, <1>4, FreshHolds
<1>6. \A s \in Servers : Held(prior[s], weights[s], thread[s], base[s], done[s])
  <2> TAKE s \in Servers
  <2>1. /\ prior[s] = Reset /\ weights[s] = 0 /\ thread[s] = [t \in Threads |-> Resting]
        /\ base[s] = [moves |-> 0, weights |-> 0] /\ done[s] = 0
    BY DEF HeadInit
  <2> QED BY <1>5, <2>1
<1>7. HeadTypeOK
    BY <1>1, <1>2, HeadAssumption DEF HeadInit, HeadTypeOK, Snapshots
<1> QED BY <1>1, <1>6, <1>7 DEF HeadInv


\* Those of a prediction.
LEMMA PredictStep ==
    ASSUME HeadInv, NEW s \in Servers, Predicts(s) \/ Features(s) \/ Predicted(s)
    PROVE  HeadInv'
<1>1. /\ prior[s] \in Priors /\ weights[s] \in Nat /\ thread[s] \in [Threads -> States]
      /\ snapshot \in Snapshots /\ Whole(snapshot) /\ turns \in 0..TurnLimit /\ Loop \in Threads
    BY ServerHolds DEF Threads
<1> DEFINE my == thread[s][Loop]
<1>2. my \in States
    BY <1>1
<1>3. /\ UNCHANGED <<prior, weights, base, done>> /\ UNCHANGED snapshot /\ turns' \in 0..TurnLimit
  <2>1. turns' = turns \/ (turns < TurnLimit /\ turns' = turns + 1)
    BY DEF Predicts, Features, Predicted
  <2>2. UNCHANGED <<prior, weights, base, done>> /\ UNCHANGED snapshot
    BY DEF Predicts, Features, Predicted
  <2>3. turns' \in 0..TurnLimit
    BY <1>1, <2>1, HeadAssumption
  <2> QED BY <2>2, <2>3
<1>4. snapshot' \in Snapshots /\ Whole(snapshot')
    BY <1>1, <1>3
<1>5. PICK to \in States : Turns(s, Loop, to) /\ to.stage \in {"rest", "predicting"} /\ my.stage \in {"rest", "predicting"}
  <2>1. CASE Predicts(s)
    <3> DEFINE to == [stage |-> "predicting", weights |-> weights[s], then |-> prior[s],
                      seen |-> [c \in Cells |-> NoPrior], left |-> Cells]
    <3>1. to \in Predicting
        BY <1>1 DEF Predicting, Priors, NoPrior
    <3>2. to \in States /\ to.stage = "predicting"
        BY <3>1 DEF States
    <3>3. Turns(s, Loop, to) /\ my.stage = "rest"
        BY <2>1 DEF Predicts, Resting
    <3> HIDE DEF to
    <3> QED BY <3>2, <3>3
  <2>2. CASE Features(s)
    <3>1. PICK c \in Cells : /\ my.stage = "predicting"
                             /\ Turns(s, Loop, [my EXCEPT !.seen[c] = prior[s][c], !.left = @ \ {c}])
        BY <2>2 DEF Features
    <3> DEFINE to == [my EXCEPT !.seen[c] = prior[s][c], !.left = @ \ {c}]
    <3>2. my \in Predicting
        BY <1>2, <3>1, StageHolds
    <3>3. to \in Predicting /\ to.stage = "predicting"
      <4>1. [my.seen EXCEPT ![c] = prior[s][c]] \in Priors
          BY <1>1, <3>2 DEF Predicting, Priors
      <4>2. to = [stage |-> "predicting", weights |-> my.weights, then |-> my.then,
                  seen |-> [my.seen EXCEPT ![c] = prior[s][c]], left |-> my.left \ {c}]
        <5>1. to = [my EXCEPT !.seen = [my.seen EXCEPT ![c] = prior[s][c]], !.left = my.left \ {c}]
            BY <3>2 DEF Predicting
        <5> HIDE DEF to, my
        <5> QED BY <3>2, <5>1 DEF Predicting
      <4> HIDE DEF to, my
      <4> QED BY <3>2, <4>1, <4>2 DEF Predicting
    <3>4. to \in States
        BY <3>3 DEF States
    <3> HIDE DEF to
    <3> QED BY <3>1, <3>3, <3>4 DEF to
  <2>3. CASE Predicted(s)
    <3>1. Resting \in States /\ Resting.stage = "rest"
        BY DEF States, Resting
    <3> QED BY <2>3, <3>1 DEF Predicted
  <2> QED BY <2>1, <2>2, <2>3
<1>6. ~Learns(to) /\ ~Learns(thread[s][Loop]) /\ Covered(prior[s], to)
    BY <1>5 DEF Learns, Covered
<1> QED BY <1>1, <1>3, <1>4, <1>5, <1>6, ThreadTurns

\* Those of a snapshot: the cells that are copied are those of the moment they
\* are copied at, and by then the priors can only have moved further.
LEMMA SaveStep ==
    ASSUME HeadInv, NEW s \in Servers, Saves(s) \/ Copies(s) \/ Truncates(s) \/ Fills(s)
    PROVE  HeadInv'
<1>1. /\ prior[s] \in Priors /\ weights[s] \in Nat /\ thread[s] \in [Threads -> States]
      /\ snapshot \in Snapshots /\ Whole(snapshot) /\ turns \in 0..TurnLimit /\ Loop \in Threads
      /\ Held(prior[s], weights[s], thread[s], base[s], done[s])
    BY ServerHolds DEF Threads
<1> DEFINE my == thread[s][Loop]
<1>2. my \in States /\ Covered(prior[s], my)
    BY <1>1 DEF Held
<1>3. UNCHANGED <<prior, weights, base, done>> /\ turns' \in 0..TurnLimit
  <2>1. turns' = turns \/ (turns < TurnLimit /\ turns' = turns + 1)
    BY DEF Saves, Copies, Truncates, Fills
  <2>2. UNCHANGED <<prior, weights, base, done>>
    BY DEF Saves, Copies, Truncates, Fills
  <2>3. turns' \in 0..TurnLimit
    BY <1>1, <2>1, HeadAssumption
  <2> QED BY <2>2, <2>3
<1>4. Resting \in States /\ ~Learns(Resting) /\ Covered(prior[s], Resting)
    BY DEF States, Resting, Learns, Covered
<1>5. CASE Saves(s)
  <2> DEFINE present == Present(prior[s])
             none == [c \in Cells |-> NoPrior]
             to == [stage |-> "saving", weights |-> weights[s], copied |-> none,
                    left |-> present, size |-> Cardinality(present)]
  <2>1. present \in SUBSET Cells /\ Cardinality(present) \in Nat
    <3>1. present \in SUBSET Cells
        BY DEF Present
    <3> QED BY <3>1, HeadAssumption, FS_Subset, FS_CardinalityType
  <2>2. none \in Priors /\ Blank(none)
    BY DEF Priors, Blank, NoPrior
  <2>3. Turns(s, Loop, to) /\ ~Learns(my) /\ UNCHANGED snapshot
    BY <1>5 DEF Saves, Learns, Resting
  <2>4. to \in Saving /\ ~Learns(to)
    BY <1>1, <2>1, <2>2 DEF Saving, Learns
  <2>5. Covered(prior[s], to)
    <3> DEFINE mixed == Mixed(prior[s], to)
    <3>1. /\ mixed = [c \in Cells |-> IF c \in present THEN prior[s][c] ELSE NoPrior]
          /\ \A c \in Cells : mixed[c].moves = prior[s][c].moves
      <4>1. mixed = [c \in Cells |-> IF c \in present THEN prior[s][c] ELSE NoPrior]
          BY DEF Mixed
      <4>2. \A c \in Cells : c \notin present => prior[s][c].moves = 0
          BY <1>1 DEF Held, Blank, Present
      <4> HIDE DEF mixed, present
      <4> QED BY <4>1, <4>2 DEF NoPrior
    <3> HIDE DEF mixed, present
    <3>2. /\ DOMAIN prior[s] = Cells /\ DOMAIN mixed = Cells
          /\ \A c \in Cells : prior[s][c].moves \in Nat /\ mixed[c].moves \in Nat
          /\ \A c \in Cells : prior[s][c].moves <= mixed[c].moves
        BY <1>1, <3>1 DEF Priors
    <3>3. Moves(prior[s]) \in Nat /\ Moves(mixed) \in Nat /\ Moves(prior[s]) <= Moves(mixed)
        BY <3>2, MovesGrow
    <3>4. weights[s] <= Moves(prior[s])
        BY <1>1, SpentIsMoved
    <3>5. weights[s] <= Moves(mixed)
        BY <1>1, <3>3, <3>4
    <3>6. to.stage = "saving" /\ to.weights = weights[s] /\ to.copied = none
        OBVIOUS
    <3> HIDE DEF to, none
    <3> QED BY <2>2, <3>5, <3>6 DEF Covered, mixed
  <2>6. to \in States
    BY <2>4 DEF States
  <2>7. snapshot' \in Snapshots /\ Whole(snapshot')
    BY <1>1, <2>3
  <2> HIDE DEF to
  <2> QED BY <1>1, <1>3, <2>3, <2>4, <2>5, <2>6, <2>7, ThreadTurns
<1>6. CASE Copies(s)
  <2>1. my \in Saving /\ my.stage = "saving" /\ ~Learns(my) /\ UNCHANGED snapshot
    BY <1>2, <1>6, StageHolds DEF Copies, Learns
  <2>2. snapshot' \in Snapshots /\ Whole(snapshot')
    BY <1>1, <2>1
  <2>3. CASE Turns(s, Loop, Resting)
    BY <1>1, <1>3, <1>4, <2>1, <2>2, <2>3, ThreadTurns
  <2>4. CASE \E c \in my.left : Turns(s, Loop, [my EXCEPT !.copied[c] = prior[s][c], !.left = @ \ {c}])
    <3>1. PICK c \in my.left : Turns(s, Loop, [my EXCEPT !.copied[c] = prior[s][c], !.left = @ \ {c}])
        BY <2>4
    <3> DEFINE to == [my EXCEPT !.copied[c] = prior[s][c], !.left = @ \ {c}]
               new == [my.copied EXCEPT ![c] = prior[s][c]]
    <3>2. c \in Cells /\ new \in Priors /\ Blank(new)
      <4>1. c \in Cells /\ my.copied \in Priors
          BY <2>1 DEF Saving
      <4>2. Blank(prior[s]) /\ Blank(my.copied)
          BY <1>1, <1>2, <2>1 DEF Held, Covered
      <4> QED BY <1>1, <4>1, <4>2 DEF Priors, Blank
    <3>3. to = [stage |-> "saving", weights |-> my.weights, copied |-> new, left |-> my.left \ {c}, size |-> my.size]
      <4>1. to = [my EXCEPT !.copied = new, !.left = my.left \ {c}]
          BY <2>1 DEF Saving
      <4> HIDE DEF to, my, new
      <4> QED BY <2>1, <4>1 DEF Saving
    <3> HIDE DEF to
    <3>4. to \in Saving /\ ~Learns(to)
        BY <2>1, <3>2, <3>3 DEF Saving, Learns
    <3>5. Mixed(prior[s], to) = Mixed(prior[s], my)
      <4>1. \A k \in Cells : new[k] = IF k = c THEN prior[s][c] ELSE my.copied[k]
          BY <2>1 DEF Saving, Priors
      <4> HIDE DEF my, new
      <4> QED BY <3>3, <4>1 DEF Mixed
    <3>6. Covered(prior[s], to)
      <4> HIDE DEF my, new
      <4> QED BY <1>2, <2>1, <3>2, <3>3, <3>5 DEF Covered
    <3>7. to \in States /\ Turns(s, Loop, to)
        BY <3>1, <3>4 DEF States, to
    <3> QED BY <1>1, <1>3, <2>1, <2>2, <3>4, <3>6, <3>7, ThreadTurns
  <2> QED BY <1>6, <2>3, <2>4 DEF Copies
<1>7. CASE Truncates(s)
  <2> DEFINE to == [my EXCEPT !.stage = "truncated"]
  <2>1. my \in Saving /\ my.stage = "saving" /\ my.left = {} /\ ~Learns(my) /\ snapshot' = Torn /\ Turns(s, Loop, to)
    BY <1>2, <1>7, StageHolds DEF Truncates, Learns
  <2>2. to = [stage |-> "truncated", weights |-> my.weights, copied |-> my.copied, left |-> my.left, size |-> my.size]
    BY <2>1 DEF Saving
  <2> HIDE DEF to
  <2>3. to \in Saving /\ ~Learns(to)
    <3> HIDE DEF my
    <3> QED BY <2>1, <2>2 DEF Saving, Learns
  <2>4. Mixed(prior[s], to) = Mixed(prior[s], my)
    BY <2>2 DEF Mixed
  <2>5. Covered(prior[s], to)
    <3> HIDE DEF my
    <3> QED BY <1>2, <2>1, <2>2, <2>4 DEF Covered
  <2>6. to \in States /\ snapshot' \in Snapshots /\ Whole(snapshot')
    BY <2>1, <2>3 DEF States, Snapshots, Whole, Torn
  <2> QED BY <1>1, <1>3, <2>1, <2>3, <2>5, <2>6, ThreadTurns
<1>8. CASE Fills(s)
  <2>1. my \in Saving /\ my.stage = "truncated" /\ ~Learns(my) /\ snapshot' = Written(s, my) /\ Turns(s, Loop, Resting)
    BY <1>2, <1>8, StageHolds DEF Fills, Learns
  <2>2. Mixed(prior[s], my) = my.copied
    <3>1. my.left = {} /\ my.copied = [c \in Cells |-> my.copied[c]]
        BY <1>2, <2>1 DEF Covered, Saving, Priors
    <3> HIDE DEF my
    <3> QED BY <3>1 DEF Mixed
  <2>3. Blank(my.copied) /\ my.weights <= Moves(my.copied)
    BY <1>2, <2>1, <2>2 DEF Covered
  <2>4. snapshot' \in Snapshots
    BY <2>1 DEF Written, Snapshots, Saving
  <2>5. Whole(snapshot')
    BY <2>1, <2>3 DEF Written, Whole
  <2> QED BY <1>1, <1>3, <1>4, <2>1, <2>4, <2>5, ThreadTurns
<1> QED BY <1>5, <1>6, <1>7, <1>8

\* A thread enters the lock with the moves of the prior it has read.
LEMMA EnterStep ==
    ASSUME HeadInv, NEW s \in Servers, NEW t \in Threads, Enters(s, t)
    PROVE  HeadInv'
<1>1. /\ prior[s] \in Priors /\ Blank(prior[s])
      /\ snapshot \in Snapshots /\ Whole(snapshot) /\ turns \in 0..TurnLimit
    BY ServerHolds DEF Held
<1>2. PICK c \in Cells, success \in Successes :
        /\ thread[s][t] = Resting /\ LockFree(s)
        /\ Turns(s, t, [stage |-> "entered", cell |-> c, success |-> success,
                   read |-> IF prior[s][c].at = Absent THEN [NoPrior EXCEPT !.at = 50] ELSE prior[s][c]])
        /\ UNCHANGED <<prior, weights, snapshot, base, done, turns>>
    BY DEF Enters
<1> DEFINE seen == IF prior[s][c].at = Absent THEN [NoPrior EXCEPT !.at = 50] ELSE prior[s][c]
           to == [stage |-> "entered", cell |-> c, success |-> success, read |-> seen]
<1>3. seen \in [at : Percent, moves : Nat] /\ seen.moves = prior[s][c].moves
  <2>1. prior[s][c] \in [at : Percent \cup {Absent}, moves : Nat]
    BY <1>1 DEF Priors
  <2>2. CASE prior[s][c].at = Absent
    <3>1. seen = [at |-> 50, moves |-> 0] /\ prior[s][c].moves = 0
        BY <1>1, <2>2 DEF NoPrior, Blank
    <3> HIDE DEF seen
    <3> QED BY <3>1 DEF Percent
  <2>3. CASE prior[s][c].at # Absent
    BY <2>1, <2>3
  <2> QED BY <2>2, <2>3
<1> HIDE DEF seen
<1>4. /\ to \in Entered /\ to.stage = "entered" /\ to.read.moves = prior[s][to.cell].moves
      /\ Turns(s, t, to)
    BY <1>2, <1>3 DEF Entered, seen
<1> HIDE DEF to
<1>5. to \in States /\ Covered(prior[s], to) /\ ~Learns(thread[s][t])
    BY <1>2, <1>4 DEF States, Covered, Learns, Resting
<1>6. snapshot' \in Snapshots /\ Whole(snapshot') /\ turns' \in 0..TurnLimit
    BY <1>1, <1>2
<1>7. UNCHANGED <<prior, weights, base, done>> /\ LockFree(s)
    BY <1>2
<1> QED BY <1>4, <1>5, <1>6, <1>7, ThreadTurns

\* Who holds the lock holds it alone.
LEMMA OneLearns ==
    ASSUME NEW ts \in [Threads -> States], Alone(ts), NEW t \in Threads, Learns(ts[t]),
           NEW to \in States
    PROVE  /\ Alone([ts EXCEPT ![t] = to])
           /\ \A u \in Threads : u # t => ~Learns(ts[u])
           /\ HalfDone([ts EXCEPT ![t] = to]) = IF to.stage = "moved" THEN 1 ELSE 0
           /\ HalfDone(ts) = IF ts[t].stage = "moved" THEN 1 ELSE 0
<1> DEFINE new == [ts EXCEPT ![t] = to]
<1>1. new[t] = to /\ \A u \in Threads : u # t => new[u] = ts[u]
    OBVIOUS
<1>2. \A u \in Threads : u # t => ~Learns(ts[u])
    BY DEF Alone
<1> HIDE DEF new
<1>3. Alone(new)
    BY <1>1, <1>2 DEF Alone
<1>4. (\E u \in Threads : new[u].stage = "moved") <=> to.stage = "moved"
    BY <1>1, <1>2 DEF Learns
<1>5. (\E u \in Threads : ts[u].stage = "moved") <=> ts[t].stage = "moved"
    BY <1>2 DEF Learns
<1>6. HalfDone(new) = IF to.stage = "moved" THEN 1 ELSE 0
    BY <1>4 DEF HalfDone
<1>7. HalfDone(ts) = IF ts[t].stage = "moved" THEN 1 ELSE 0
    BY <1>5 DEF HalfDone
<1> QED BY <1>2, <1>3, <1>6, <1>7 DEF new

\* The prior it moves is still as it has read it, and a file that is being made
\* only gains by it.
LEMMA MoveStep ==
    ASSUME HeadInv, NEW s \in Servers, NEW t \in Threads, MovesPrior(s, t)
    PROVE  HeadInv'
<1>1. /\ prior[s] \in Priors /\ weights[s] \in Nat /\ thread[s] \in [Threads -> States]
      /\ base[s] \in Starting /\ done[s] \in Nat
      /\ snapshot \in Snapshots /\ Whole(snapshot) /\ turns \in 0..TurnLimit
      /\ Held(prior[s], weights[s], thread[s], base[s], done[s])
    BY ServerHolds
<1> DEFINE my == thread[s][t]
           new == [at |-> my.read.at + (my.success - my.read.at) \div 20, moves |-> my.read.moves + 1]
           to == [stage |-> "moved", read |-> weights[s]]
           table == [prior[s] EXCEPT ![my.cell] = new]
           ts == [thread[s] EXCEPT ![t] = to]
           w == weights[s]
           b == base[s]
           d == done[s]
<1>2. /\ my.stage = "entered" /\ prior' = [prior EXCEPT ![s][my.cell] = new] /\ Turns(s, t, to)
      /\ UNCHANGED <<weights, snapshot, base, done, turns>>
    BY DEF MovesPrior
<1>3. my \in Entered /\ Learns(my) /\ my.stage # "moved"
    BY <1>1, <1>2, StageHolds DEF Learns
<1>4. my.cell \in Cells /\ my.success \in Percent /\ my.read \in [at : Percent, moves : Nat]
    BY <1>3, HeadAssumption DEF Entered
<1>5. new \in [at : Percent, moves : Nat] /\ new.moves = my.read.moves + 1
  <2> DEFINE p == my.read.at
             q == my.success
  <2>1. p \in 0..100 /\ q \in 0..100 /\ my.read.moves \in Nat
    BY <1>4 DEF Percent
  <2>0. new.at = p + (q - p) \div 20 /\ new.moves = my.read.moves + 1
    OBVIOUS
  <2> HIDE DEF p, q
  <2>2. new = [at |-> new.at, moves |-> new.moves]
    OBVIOUS
  <2> HIDE DEF new, my
  <2>3. p + (q - p) \div 20 \in 0..100
    BY <2>1
  <2>4. new.at \in Percent /\ new.moves \in Nat
    BY <2>0, <2>1, <2>3 DEF Percent
  <2>5. new \in [at : Percent, moves : Nat]
    BY <2>2, <2>4
  <2> QED BY <2>0, <2>5
<1>6. my.read.moves = prior[s][my.cell].moves
    BY <1>1, <1>2 DEF Held, HasRead
<1> HIDE DEF new
<1>7. /\ table \in Priors /\ Blank(table) /\ Further(prior[s], table, my.cell)
      /\ DOMAIN table = Cells /\ DOMAIN prior[s] = Cells
  <2>1. /\ DOMAIN prior[s] = Cells /\ table = [k \in Cells |-> IF k = my.cell THEN new ELSE prior[s][k]]
    BY <1>1 DEF Priors
  <2>2. new.at # Absent /\ new \in [at : Percent \cup {Absent}, moves : Nat]
    BY <1>5 DEF Percent, Absent
  <2>3. Blank(prior[s])
    BY <1>1 DEF Held
  <2> HIDE DEF table
  <2>4. table \in Priors
    BY <1>1, <2>1, <2>2 DEF Priors
  <2>5. Blank(table)
    BY <2>1, <2>2, <2>3 DEF Blank
  <2>6. Further(prior[s], table, my.cell)
    <3>1. \A k \in Cells : prior[s][k].moves \in Nat
        BY <1>1 DEF Priors
    <3> HIDE DEF my
    <3> QED BY <1>5, <1>6, <2>1, <3>1 DEF Further
  <2> QED BY <2>1, <2>4, <2>5, <2>6
<1>8. Moves(table) = Moves(prior[s]) + 1
  <2>1. \A k \in Cells : prior[s][k].moves \in Nat
    BY <1>1 DEF Priors
  <2> HIDE DEF table, my
  <2> QED BY <1>4, <1>7, <2>1, MovesByOne
<1>9. to \in States /\ to.stage = "moved" /\ to.read = w
    BY <1>1 DEF States, Moved
<1>10. /\ Alone(ts) /\ HalfDone(ts) = 1 /\ HalfDone(thread[s]) = 0
       /\ \A u \in Threads : u # t => ~Learns(thread[s][u])
  <2>1. Alone(thread[s])
    BY <1>1 DEF Held
  <2> HIDE DEF to
  <2> QED BY <1>1, <1>2, <1>3, <1>9, <2>1, OneLearns
<1>11. ts \in [Threads -> States] /\ ts[t] = to /\ \A u \in Threads : u # t => ts[u] = thread[s][u]
    BY <1>1, <1>9
<1>12. /\ prior' = [prior EXCEPT ![s] = table] /\ thread' = [thread EXCEPT ![s] = ts]
       /\ weights' = [weights EXCEPT ![s] = w] /\ base' = [base EXCEPT ![s] = b] /\ done' = [done EXCEPT ![s] = d]
    BY <1>2 DEF Turns, HeadInv, HeadTypeOK
<1>13. HasRead(table, w, ts)
  <2> HIDE DEF table, to, ts
  <2> QED BY <1>9, <1>10, <1>11 DEF HasRead, Learns
<1>14. \A u \in Threads : Covered(table, ts[u])
  <2> TAKE u \in Threads
  <2>1. CASE u = t
    BY <1>9, <1>11, <2>1 DEF Covered
  <2>2. CASE u # t /\ thread[s][u].stage \in {"saving", "truncated"}
    <3> DEFINE other == thread[s][u]
    <3>1. other \in Saving /\ Covered(prior[s], other) /\ ts[u] = other
        BY <1>1, <1>11, <2>2, StageHolds DEF Held
    <3> DEFINE before == Mixed(prior[s], other)
               after == Mixed(table, other)
    <3>2. /\ DOMAIN before = Cells /\ DOMAIN after = Cells
          /\ \A k \in Cells : before[k].moves \in Nat /\ after[k].moves \in Nat
          /\ \A k \in Cells : before[k].moves <= after[k].moves
      <4>1. DOMAIN before = Cells /\ DOMAIN after = Cells
          BY DEF Mixed
      <4>2. ASSUME NEW k \in Cells
            PROVE  before[k].moves \in Nat /\ after[k].moves \in Nat /\ before[k].moves <= after[k].moves
        <5>1. /\ before[k] = IF k \in other.left THEN prior[s][k] ELSE other.copied[k]
              /\ after[k] = IF k \in other.left THEN table[k] ELSE other.copied[k]
            BY DEF Mixed
        <5>2. prior[s][k].moves \in Nat /\ other.copied[k].moves \in Nat
            BY <1>1, <3>1 DEF Priors, Saving
        <5>3. table[k].moves = prior[s][k].moves + IF k = my.cell THEN 1 ELSE 0
            BY <1>7 DEF Further
        <5> HIDE DEF before, after, other, my, table
        <5> QED BY <5>1, <5>2, <5>3
      <4> QED BY <4>1, <4>2
    <3>3. Moves(before) \in Nat /\ Moves(after) \in Nat /\ Moves(before) <= Moves(after)
      <4> HIDE DEF before, after
      <4> QED BY <3>2, MovesGrow
    <3>4. other.weights <= Moves(before) /\ other.weights \in Nat
        BY <2>2, <3>1 DEF Covered, Saving
    <3>5. other.weights <= Moves(after)
      <4> HIDE DEF before, after, other
      <4> QED BY <3>3, <3>4
    <3> HIDE DEF other
    <3> QED BY <2>2, <3>1, <3>5 DEF Covered
  <2>3. CASE u # t /\ thread[s][u].stage \notin {"saving", "truncated"}
    BY <1>11, <2>3 DEF Covered
  <2> QED BY <2>1, <2>2, <2>3
<1>15. Counts(table, w, ts, b, d)
  <2>1. Counts(prior[s], w, thread[s], b, d) /\ b.moves \in Nat
    BY <1>1 DEF Held, Starting
  <2> HIDE DEF table, w, b, d, ts
  <2> QED BY <1>1, <1>8, <1>10, <2>1 DEF Counts, b, d
<1>16. Held(table, w, ts, b, d)
    BY <1>7, <1>10, <1>13, <1>14, <1>15 DEF Held
<1>17. HeadInv /\ s \in Servers /\ snapshot' \in Snapshots /\ Whole(snapshot') /\ turns' \in 0..TurnLimit
    BY <1>1, <1>2
<1>18. table \in Priors /\ w \in Nat /\ b \in Starting /\ d \in Nat
    BY <1>1, <1>7
<1> HIDE DEF table, w, ts, b, d
<1> QED BY ONLY <1>11, <1>12, <1>16, <1>17, <1>18, ServerStep

\* The weights it adds to are still as it has read them.
LEMMA WeightStep ==
    ASSUME HeadInv, NEW s \in Servers, NEW t \in Threads, MovesWeights(s, t)
    PROVE  HeadInv'
<1>1. /\ prior[s] \in Priors /\ weights[s] \in Nat /\ thread[s] \in [Threads -> States]
      /\ base[s] \in Starting /\ done[s] \in Nat
      /\ snapshot \in Snapshots /\ Whole(snapshot) /\ turns \in 0..TurnLimit
      /\ Held(prior[s], weights[s], thread[s], base[s], done[s])
    BY ServerHolds
<1> DEFINE table == prior[s]
           ts == [thread[s] EXCEPT ![t] = Resting]
           w == weights[s] + 1
           b == base[s]
           d == done[s] + 1
<1>2. /\ thread[s][t].stage = "moved" /\ thread[s][t].read = weights[s]
      /\ Learns(thread[s][t])
    BY <1>1 DEF MovesWeights, Held, HasRead, Learns
<1>3. /\ prior' = [prior EXCEPT ![s] = table] /\ thread' = [thread EXCEPT ![s] = ts]
      /\ weights' = [weights EXCEPT ![s] = w] /\ base' = [base EXCEPT ![s] = b] /\ done' = [done EXCEPT ![s] = d]
  <2>1. /\ weights' = [weights EXCEPT ![s] = thread[s][t].read + 1] /\ done' = [done EXCEPT ![s] = @ + 1]
        /\ Turns(s, t, Resting) /\ UNCHANGED <<prior, snapshot, base, turns>>
    BY DEF MovesWeights
  <2> QED BY <1>2, <2>1 DEF Turns, HeadInv, HeadTypeOK
<1>4. Resting \in States /\ Resting.stage = "rest"
    BY DEF States, Resting
<1>5. /\ Alone(ts) /\ HalfDone(ts) = 0 /\ HalfDone(thread[s]) = 1
      /\ \A u \in Threads : u # t => ~Learns(thread[s][u])
  <2>1. Alone(thread[s])
    BY <1>1 DEF Held
  <2> QED BY <1>1, <1>2, <1>4, <2>1, OneLearns
<1>6. ts \in [Threads -> States] /\ ts[t] = Resting /\ \A u \in Threads : u # t => ts[u] = thread[s][u]
    BY <1>1, <1>4
<1> HIDE DEF ts
<1>7. HasRead(table, w, ts)
    BY <1>4, <1>5, <1>6 DEF HasRead, Learns
<1>8. \A u \in Threads : Covered(table, ts[u])
  <2>1. \A u \in Threads : Covered(table, thread[s][u])
    BY <1>1 DEF Held
  <2>2. Covered(table, Resting)
    BY <1>4 DEF Covered
  <2> HIDE DEF table
  <2> QED BY <1>6, <2>1, <2>2
<1>9. Counts(table, w, ts, b, d)
  <2>1. Counts(table, weights[s], thread[s], b, done[s]) /\ b.moves \in Nat /\ b.weights \in Nat /\ done[s] \in Nat
    BY <1>1 DEF Held, Starting
  <2> HIDE DEF table, b
  <2> QED BY <1>5, <2>1 DEF Counts
<1>10. Held(table, w, ts, b, d)
    BY <1>1, <1>5, <1>7, <1>8, <1>9 DEF Held
<1>11. HeadInv /\ s \in Servers /\ snapshot' \in Snapshots /\ Whole(snapshot') /\ turns' \in 0..TurnLimit
    BY <1>1 DEF MovesWeights
<1>12. table \in Priors /\ w \in Nat /\ b \in Starting /\ d \in Nat
    BY <1>1
<1> HIDE DEF table, w, b, d
<1> QED BY ONLY <1>3, <1>6, <1>10, <1>11, <1>12, ServerStep

\* A process that starts again has what the file has, or nothing.
LEMMA StartStep ==
    ASSUME HeadInv, NEW s \in Servers, Starts(s)
    PROVE  HeadInv'
<1> DEFINE table == Loaded(Reset)
           w == LoadedWeights
           ts == [t \in Threads |-> Resting]
           b == [moves |-> Moves(Loaded(Reset)), weights |-> LoadedWeights]
           d == 0
<1>1. snapshot \in Snapshots /\ Whole(snapshot) /\ turns \in 0..TurnLimit
    BY ServerHolds
<1>2. table \in Priors /\ Blank(table) /\ w \in Nat /\ w <= Moves(table)
    BY <1>1, StartHolds
<1>3. Moves(table) \in Nat
  <2> HIDE DEF table
  <2> QED BY <1>2, MovesType
<1>4. b \in Starting
    BY <1>2, <1>3 DEF Starting
<1>5. Held(table, w, ts, b, d)
    BY <1>2, FreshHolds
<1>6. /\ prior' = [prior EXCEPT ![s] = table] /\ thread' = [thread EXCEPT ![s] = ts]
      /\ weights' = [weights EXCEPT ![s] = w] /\ base' = [base EXCEPT ![s] = b] /\ done' = [done EXCEPT ![s] = d]
      /\ UNCHANGED <<snapshot, turns>>
    BY DEF Starts
<1>7. ts \in [Threads -> States] /\ d \in Nat
    BY DEF States
<1>8. HeadInv /\ s \in Servers /\ snapshot' \in Snapshots /\ Whole(snapshot') /\ turns' \in 0..TurnLimit
    BY <1>1, <1>6
<1> HIDE DEF table, w, ts, b, d
<1> QED BY ONLY <1>2, <1>4, <1>5, <1>6, <1>7, <1>8, ServerStep

LEMMA HeadStepInv ==
    ASSUME HeadInv, [HeadNext]_headVars
    PROVE  HeadInv'
<1>1. CASE UNCHANGED headVars
  <2>1. UNCHANGED <<prior, weights, thread, snapshot, base, done, turns>>
    BY <1>1 DEF headVars
  <2> QED BY <2>1 DEF HeadInv, HeadTypeOK
<1>2. CASE HeadNext
  <2>1. PICK s \in Servers :
          \/ Starts(s) \/ Predicts(s) \/ Features(s) \/ Predicted(s)
          \/ Saves(s) \/ Copies(s) \/ Truncates(s) \/ Fills(s)
          \/ \E t \in Threads : Enters(s, t) \/ MovesPrior(s, t) \/ MovesWeights(s, t)
    BY <1>2 DEF HeadNext
  <2>2. CASE Starts(s)
    BY <2>2, StartStep
  <2>3. CASE Predicts(s) \/ Features(s) \/ Predicted(s)
    BY <2>3, PredictStep
  <2>4. CASE Saves(s) \/ Copies(s) \/ Truncates(s) \/ Fills(s)
    BY <2>4, SaveStep
  <2>5. ASSUME NEW t \in Threads, Enters(s, t) \/ MovesPrior(s, t) \/ MovesWeights(s, t)
        PROVE  HeadInv'
    BY <2>5, EnterStep, MoveStep, WeightStep
  <2> QED BY <2>1, <2>2, <2>3, <2>4, <2>5
<1> QED BY <1>1, <1>2

\* The head's invariant holds for any number of processes, threads and cells.
THEOREM HeadInductive == HeadSpec => []HeadInv
<1>1. HeadInit => HeadInv
    BY HeadInitInv
<1>2. HeadInv /\ [HeadNext]_headVars => HeadInv'
    BY HeadStepInv
<1> QED BY <1>1, <1>2, PTL DEF HeadSpec

\* No outcome is lost to another thread: whenever no thread holds the lock of
\* head.py's update(), each outcome since the start has moved one prior and the
\* weights.
THEOREM OutcomesAreKept == HeadSpec => []LearnsInTurn
<1>1. ASSUME HeadInv PROVE LearnsInTurn
  <2> SUFFICES ASSUME NEW s \in Servers, Busy(s, {"entered", "moved"}) = {}
               PROVE  /\ Moves(prior[s]) = base[s].moves + done[s]
                      /\ weights[s] = base[s].weights + done[s]
    BY DEF LearnsInTurn
  <2>1. /\ Counts(prior[s], weights[s], thread[s], base[s], done[s])
        /\ base[s] \in Starting /\ done[s] \in Nat
    BY <1>1, ServerHolds DEF Held
  <2>2. HalfDone(thread[s]) = 0
    BY DEF Busy, HalfDone
  <2> QED BY <2>1, <2>2 DEF Counts, Starting
<1> QED BY <1>1, HeadInductive, PTL

\* Through snapshots taken without the lock and through restarts from them, no
\* weights have learned from an outcome that no prior has moved by (lifespan.py
\* _auto_head_save_loop(), head.py load_from_snapshot()).
THEOREM WeightsFollowPriors == HeadSpec => []WeightsHavePriors
<1>1. ASSUME HeadInv PROVE WeightsHavePriors
    BY <1>1, SpentIsMoved DEF HeadInv, Whole, WeightsHavePriors
<1> QED BY <1>1, HeadInductive, PTL

-----------------------------------------------------------------------------
(* The panel of judges *)

\* A list has a place for each of its members.
LEMMA Places ==
    ASSUME NEW list, list \in Seq(Range(list)), NEW j \in Range(list)
    PROVE  Position(list, j) \in 1..Len(list) /\ list[Position(list, j)] = j
<1>1. DOMAIN list = 1..Len(list)
    OBVIOUS
<1>2. \E i \in DOMAIN list : list[i] = j
    BY DEF Range
<1>3. Position(list, j) \in DOMAIN list /\ list[Position(list, j)] = j
    BY <1>2 DEF Position
<1> QED BY <1>1, <1>3

\* No two workers have the same place or the same seat.
LEMMA SeatsApart ==
    ASSUME NEW fit, fit \subseteq Range(JudgeModels)
    PROVE  /\ \A j \in fit : Seat(j, fit) \in Nat
           /\ \A j, k \in fit : Seat(j, fit) = Seat(k, fit) => j = k
<1> DEFINE p == Len(PreferredJudges)
           n == Len(JudgeModels)
<1>1. p \in Nat /\ n \in Nat
    BY JudgeAssumption
<1>2. \A j \in fit : Place(j) \in 1..(p + n)
  <2> TAKE j \in fit
  <2>1. CASE j \in Range(PreferredJudges)
    <3>1. Position(PreferredJudges, j) \in 1..p
        BY <2>1, Places, JudgeAssumption
    <3> QED BY <1>1, <2>1, <3>1 DEF Place
  <2>2. CASE j \notin Range(PreferredJudges)
    <3>1. Position(JudgeModels, j) \in 1..n
        BY Places, JudgeAssumption
    <3> QED BY <1>1, <2>2, <3>1 DEF Place
  <2> QED BY <2>1, <2>2
<1>3. \A j, k \in fit : Place(j) = Place(k) => j = k
  <2> SUFFICES ASSUME NEW j \in fit, NEW k \in fit, Place(j) = Place(k) PROVE j = k
    OBVIOUS
  <2>1. \A i \in {j, k} : i \in Range(PreferredJudges) =>
            Place(i) = Position(PreferredJudges, i) /\ Place(i) \in 1..p /\ PreferredJudges[Place(i)] = i
    BY Places, JudgeAssumption DEF Place
  <2>2. \A i \in {j, k} : i \notin Range(PreferredJudges) =>
            /\ Place(i) = p + Position(JudgeModels, i) /\ Position(JudgeModels, i) \in 1..n
            /\ JudgeModels[Position(JudgeModels, i)] = i
    BY Places, JudgeAssumption DEF Place
  <2> HIDE DEF p, n
  <2>3. CASE j \in Range(PreferredJudges) /\ k \in Range(PreferredJudges)
    BY <2>1, <2>3
  <2>4. CASE j \notin Range(PreferredJudges) /\ k \notin Range(PreferredJudges)
    <3> DEFINE x == Position(JudgeModels, j)
               y == Position(JudgeModels, k)
    <3>1. x = y
      <4>1. x \in 1..n /\ y \in 1..n
          BY <2>2, <2>4
      <4>2. Place(j) = p + x /\ Place(k) = p + y
          BY <2>2, <2>4
      <4> HIDE DEF x, y
      <4>3. p + x = p + y
          BY <4>2
      <4> QED BY <1>1, <4>1, <4>3
    <3> QED BY <2>2, <2>4, <3>1
  <2>5. CASE (j \in Range(PreferredJudges)) # (k \in Range(PreferredJudges))
    BY <1>1, <2>1, <2>2, <2>5
  <2> QED BY <2>3, <2>4, <2>5
<1> DEFINE first(j) == \A k \in fit : FamilyOf[k] = FamilyOf[j] => Place(j) <= Place(k)
<1>4. \A j \in fit : Seat(j, fit) = Place(j) + IF first(j) THEN 0 ELSE p + n
    BY DEF Seat
<1> HIDE DEF first, p, n
<1>5. \A j \in fit : Seat(j, fit) \in Nat
    BY <1>1, <1>2, <1>4
<1>6. ASSUME NEW j \in fit, NEW k \in fit, Seat(j, fit) = Seat(k, fit) PROVE j = k
  <2>1. Place(j) = Place(k)
    BY <1>1, <1>2, <1>4, <1>6
  <2> QED BY <1>3, <2>1
<1> QED BY <1>5, <1>6

\* No more judges sit on a panel than its limit: all the others have their seats
\* before the last of them.
LEMMA PanelSize ==
    ASSUME JudgeTypeOK, NEW worker
    PROVE  /\ Panel(worker) \subseteq judgePool /\ IsFiniteSet(Panel(worker))
           /\ Cardinality(Panel(worker)) \in Nat /\ Cardinality(Panel(worker)) <= PanelLimit
<1> DEFINE fit == judgePool \ Excluded(worker)
           sits == Panel(worker)
           before(j) == {k \in fit : Seat(k, fit) < Seat(j, fit)}
<1>1. fit \subseteq Range(JudgeModels)
    BY JudgeAssumption DEF JudgeTypeOK
<1>2. IsFiniteSet(fit)
  <2> DEFINE list == [i \in 1..Len(JudgeModels) |-> JudgeModels[i]]
  <2>1. list \in Surjection(1..Len(JudgeModels), Range(JudgeModels)) /\ Len(JudgeModels) \in Nat
    <3>1. DOMAIN JudgeModels = 1..Len(JudgeModels) /\ Len(JudgeModels) \in Nat
        BY JudgeAssumption
    <3> QED BY <3>1 DEF Surjection, Range
  <2>2. IsFiniteSet(1..Len(JudgeModels))
    BY <2>1, FS_Interval
  <2>3. IsFiniteSet(Range(JudgeModels))
    <3> HIDE DEF list
    <3> QED BY <2>1, <2>2, FS_Surjection
  <2> HIDE DEF fit, list
  <2> QED BY <1>1, <2>3, FS_Subset
<1>3. sits \subseteq fit /\ \A j \in sits : Cardinality(before(j)) < PanelLimit
    BY DEF Panel
<1>4. fit \subseteq judgePool
    OBVIOUS
<1>5. /\ \A j \in fit : Seat(j, fit) \in Nat
      /\ \A j, k \in fit : Seat(j, fit) = Seat(k, fit) => j = k
  <2> HIDE DEF fit
  <2> QED BY <1>1, SeatsApart
<1> HIDE DEF fit, sits
<1>6. IsFiniteSet(sits) /\ Cardinality(sits) \in Nat
    BY <1>2, <1>3, FS_Subset, FS_CardinalityType
<1>7. CASE sits = {}
  <2>1. Cardinality(sits) = 0
    BY <1>7, FS_EmptySet
  <2> QED BY <1>3, <1>4, <1>6, <2>1, JudgeAssumption DEF sits
<1>8. CASE sits # {}
  <2> DEFINE seats == {Seat(j, fit) : j \in sits}
             seat == [j \in sits |-> Seat(j, fit)]
  <2>1. seats \subseteq Nat /\ seats # {}
    BY <1>3, <1>5, <1>8
  <2>2. IsFiniteSet(seats)
    <3>1. seat \in Surjection(sits, seats)
        BY DEF Surjection
    <3> HIDE DEF seats, seat
    <3> QED BY <1>6, <3>1, FS_Surjection
  <2>3. Max(seats) \in seats /\ \A x \in seats : x <= Max(seats)
    <3> HIDE DEF seats
    <3> QED BY <2>1, <2>2, MaxExists
  <2>4. PICK m \in sits : Seat(m, fit) = Max(seats)
    BY <2>3
  <2>5. \A j \in sits : Seat(j, fit) <= Seat(m, fit)
    BY <2>3, <2>4
  <2>6. sits \ {m} \subseteq before(m)
    <3> SUFFICES ASSUME NEW j \in sits, j # m PROVE j \in fit /\ Seat(j, fit) < Seat(m, fit)
        OBVIOUS
    <3>1. j \in fit /\ m \in fit
        BY <1>3
    <3> QED BY <1>5, <2>5, <3>1
  <2>7. IsFiniteSet(before(m)) /\ Cardinality(before(m)) \in Nat
    <3>1. before(m) \in SUBSET fit
        OBVIOUS
    <3> HIDE DEF before
    <3> QED BY <1>2, <3>1, FS_Subset, FS_CardinalityType
  <2>8. Cardinality(sits \ {m}) <= Cardinality(before(m))
    <3> HIDE DEF before
    <3> QED BY <2>6, <2>7, FS_Subset
  <2>9. Cardinality(sits \ {m}) = Cardinality(sits) - 1
    BY <1>6, <2>4, FS_RemoveElement
  <2>10. Cardinality(before(m)) < PanelLimit
    BY <1>3, <2>4
  <2> HIDE DEF before
  <2>11. Cardinality(sits) <= PanelLimit
    BY <1>6, <2>7, <2>8, <2>9, <2>10, JudgeAssumption
  <2> QED BY <1>3, <1>4, <1>6, <2>11 DEF sits
<1> QED BY <1>7, <1>8

\* Where one judge may fail and the rest outvote it, the majority is a ballot, and
\* no ballot has more votes.
LEMMA MajorityIsCast ==
    ASSUME OneMayFail, NEW votes, IsFiniteSet(DOMAIN votes),
           Cardinality(DOMAIN votes) <= PanelLimit,
           \A j \in DOMAIN votes : votes[j] \in Ballots \cup {"MISSING"},
           Cardinality(Succeeded(votes)) >= MinPanel
    PROVE  /\ Majority(votes) \in Ballots
           /\ \A c \in Ballots : Support(votes, c) <= Support(votes, Majority(votes))
<1> DEFINE for(b) == {j \in DOMAIN votes : votes[j] = b}
           a == Support(votes, "A")
           b == Support(votes, "B")
           m == Support(votes, "MISSING")
           t == Support(votes, "TIE")
<1>1. \A l \in {"A", "B", "MISSING", "TIE"} :
        IsFiniteSet(for(l)) /\ Support(votes, l) = Cardinality(for(l)) /\ Support(votes, l) \in Nat
  <2>1. \A l : for(l) \in SUBSET DOMAIN votes
    OBVIOUS
  <2>2. \A l : Support(votes, l) = Cardinality(for(l))
    BY DEF Support
  <2> HIDE DEF for
  <2> QED BY <2>1, <2>2, FS_Subset, FS_CardinalityType
<1>2. a \in Nat /\ b \in Nat /\ m \in Nat /\ t \in Nat
    BY <1>1
<1>3. MinPanel \in Nat /\ PanelLimit \in Nat
    BY JudgeAssumption
<1>4. m <= 1
  <2>1. for("MISSING") = DOMAIN votes \ Succeeded(votes)
    BY DEF Succeeded, Ballots
  <2>2. Succeeded(votes) \in SUBSET DOMAIN votes
    BY DEF Succeeded
  <2>3. IsFiniteSet(Succeeded(votes)) /\ Cardinality(Succeeded(votes)) \in Nat /\ Cardinality(DOMAIN votes) \in Nat
    BY <2>2, FS_Subset, FS_CardinalityType
  <2>4. DOMAIN votes \cap Succeeded(votes) = Succeeded(votes)
    BY <2>2
  <2>5. m = Cardinality(DOMAIN votes) - Cardinality(Succeeded(votes))
    <3>1. Cardinality(DOMAIN votes \ Succeeded(votes)) = Cardinality(DOMAIN votes) - Cardinality(DOMAIN votes \cap Succeeded(votes))
        BY FS_Difference
    <3> QED BY <1>1, <2>1, <2>4, <3>1
  <2> HIDE DEF m, for
  <2> QED BY <1>2, <1>3, <2>3, <2>5 DEF OneMayFail
<1>5. ASSUME a = 0, b = 0 PROVE t >= 2
  <2>1. for("A") = {} /\ for("B") = {}
    BY <1>1, <1>5, FS_EmptySet
  <2>2. Succeeded(votes) = for("TIE")
    BY <2>1 DEF Succeeded, Ballots
  <2>3. t = Cardinality(Succeeded(votes))
    BY <1>1, <2>2
  <2> HIDE DEF t, for
  <2> QED BY <1>2, <1>3, <2>3 DEF OneMayFail
<1> DEFINE has(i) == Support(votes, LetterOrder[i])
           Wins(i) == /\ \A k \in DOMAIN LetterOrder : has(k) <= has(i)
                      /\ \A k \in 1..(i - 1) : has(k) < has(i)
           first == CHOOSE i \in DOMAIN LetterOrder : Wins(i)
<1>6. DOMAIN LetterOrder = 1..4 /\ has(1) = a /\ has(2) = b /\ has(3) = m /\ has(4) = t
    BY DEF LetterOrder
<1>7. \A i \in 1..4 : Wins(i) <=> /\ a <= has(i) /\ b <= has(i) /\ m <= has(i) /\ t <= has(i)
                                  /\ i > 1 => a < has(i)
                                  /\ i > 2 => b < has(i)
                                  /\ i > 3 => m < has(i)
  <2> HIDE DEF has, a, b, m, t
  <2> QED BY <1>6
<1> HIDE DEF has, a, b, m, t, Wins
<1>8. \E i \in DOMAIN LetterOrder : Wins(i)
  <2>1. CASE b <= a /\ m <= a /\ t <= a
    BY <1>2, <1>6, <1>7, <2>1
  <2>2. CASE a < b /\ m <= b /\ t <= b
    BY <1>2, <1>6, <1>7, <2>2
  <2>3. CASE a < m /\ b < m /\ t <= m
    BY <1>2, <1>6, <1>7, <2>3
  <2>4. CASE a < t /\ b < t /\ m < t
    BY <1>2, <1>6, <1>7, <2>4
  <2> QED BY <1>2, <2>1, <2>2, <2>3, <2>4
<1>9. first \in 1..4 /\ Wins(first)
    BY <1>6, <1>8
<1>10. Majority(votes) = LetterOrder[first]
    BY DEF Majority, has, Wins
<1> HIDE DEF first
<1>11. first # 3
  <2> SUFFICES ASSUME first = 3 PROVE FALSE
    OBVIOUS
  <2>1. a < m /\ b < m /\ t <= m
    BY <1>6, <1>7, <1>9
  <2> QED BY <1>2, <1>4, <1>5, <2>1
<1>12. Majority(votes) \in Ballots
    BY <1>9, <1>10, <1>11 DEF LetterOrder, Ballots
<1>13. a <= has(first) /\ b <= has(first) /\ t <= has(first) /\ has(first) = Support(votes, Majority(votes))
    BY <1>7, <1>9, <1>10 DEF has
<1> QED BY <1>12, <1>13 DEF Ballots, a, b, t

\* What judges have said is remembered: each ballot of a panel, and each verdict
\* of the table, is its judge's own; and a panel keeps to its limit.
Spoken(ob) ==
    ob.stage = "judging" =>
        /\ IsFiniteSet(DOMAIN ob.votes) /\ Cardinality(DOMAIN ob.votes) <= PanelLimit
        /\ \A j \in DOMAIN ob.votes : ob.votes[j] \in Ballots => ob.votes[j] \in said[<<j, ob.reference>>]
Remembered == \A ref \in References :
    verdictOf[ref].by # Nothing => verdictOf[ref].verdict \in said[<<verdictOf[ref].by, ref>>]

JudgeInv == JudgeTypeOK /\ Remembered /\ \A o \in Observations : Spoken(observation[o])

\* The stages of an observation, and what it holds in each.
LEMMA Stages ==
    ASSUME JudgeTypeOK, NEW o \in Observations
    PROVE  /\ observation[o].stage = "judging" => IsJudging(observation[o])
           /\ observation[o].stage = "oracle" => observation[o].worker \in judgePool
    BY DEF JudgeTypeOK, IsObservation, New

\* An observation that goes on while nobody speaks.
LEMMA GoesOn ==
    ASSUME JudgeInv, NEW o \in Observations, NEW ob,
           IsObservation(ob), Spoken(ob), Becomes(o, ob),
           oracleCache' \in [hour : 0..LastHour, text : References \cup {Nothing}],
           UNCHANGED <<judgePool, verdictOf, hour, said>>
    PROVE  JudgeInv'
<1>1. observation' = [x \in Observations |-> IF x = o THEN ob ELSE observation[x]]
    BY DEF JudgeInv, JudgeTypeOK, Becomes
<1>2. \A x \in Observations : IsObservation(observation'[x]) /\ Spoken(observation'[x])
    BY <1>1 DEF JudgeInv, JudgeTypeOK
<1>3. \A x \in Observations : IsObservation(observation[x])' /\ Spoken(observation[x])'
    BY <1>2 DEF IsObservation, IsJudging, Spoken
<1>4. JudgeTypeOK'
    BY <1>1, <1>3 DEF JudgeInv, JudgeTypeOK
<1> QED BY <1>3, <1>4 DEF JudgeInv, Remembered

\* A panel begins with nobody asked.
LEMMA ConveneStep ==
    ASSUME JudgeInv, NEW o \in Observations, NEW worker \in judgePool, NEW ref \in References,
           Convenes(o, worker, ref),
           oracleCache' \in [hour : 0..LastHour, text : References \cup {Nothing}],
           UNCHANGED <<judgePool, verdictOf, hour, said>>
    PROVE  JudgeInv' /\ observation'[o].stage # "scored"
<1>0. o \in DOMAIN observation
    BY DEF JudgeInv, JudgeTypeOK
<1>1. CASE Becomes(o, [stage |-> "missing", worker |-> worker])
  <2> DEFINE ob == [stage |-> "missing", worker |-> worker]
  <2>1. IsObservation(ob) /\ Spoken(ob)
    BY DEF IsObservation, Spoken
  <2> QED BY <1>0, <1>1, <2>1, GoesOn DEF Becomes
<1>2. CASE Becomes(o, [stage |-> "judging", worker |-> worker, reference |-> ref,
                       votes |-> [j \in Panel(worker) |-> "unasked"]])
  <2> DEFINE ob == [stage |-> "judging", worker |-> worker, reference |-> ref,
                    votes |-> [j \in Panel(worker) |-> "unasked"]]
  <2>1. /\ Panel(worker) \subseteq judgePool /\ IsFiniteSet(Panel(worker))
        /\ Cardinality(Panel(worker)) <= PanelLimit
    BY PanelSize DEF JudgeInv
  <2>2. IsObservation(ob)
    BY <2>1 DEF IsObservation, IsJudging
  <2>3. Spoken(ob)
    BY <2>1 DEF Spoken, Ballots
  <2> QED BY <1>0, <1>2, <2>2, <2>3, GoesOn DEF Becomes
<1> QED BY <1>1, <1>2 DEF Convenes

\* What the table holds of a judge the judge has said.
LEMMA LookStep ==
    ASSUME JudgeInv, NEW o \in Observations, JudgesLook(o)
    PROVE  JudgeInv' /\ observation'[o].stage # "scored"
<1> DEFINE ob == observation[o]
           votes == [j \in DOMAIN ob.votes |-> LookedUp(j, ob.reference)]
           new == [ob EXCEPT !.votes = votes]
<1>1. ob.stage = "judging" /\ Becomes(o, new) /\ UNCHANGED <<judgePool, verdictOf, oracleCache, hour, said>>
    BY DEF JudgesLook
<1>2. IsJudging(ob) /\ Spoken(ob)
    BY <1>1, Stages DEF JudgeInv
<1>3. ASSUME NEW j \in DOMAIN ob.votes
      PROVE  LookedUp(j, ob.reference) = "asked" \/ LookedUp(j, ob.reference) \in said[<<j, ob.reference>>] \cap Ballots
  <2>1. j \in Range(JudgeModels) /\ j # Nothing /\ ob.reference \in References
    BY <1>2, JudgeAssumption DEF JudgeInv, JudgeTypeOK, IsJudging, Nothing
  <2>2. said[<<j, ob.reference>>] \subseteq Ballots
    BY <2>1 DEF JudgeInv, JudgeTypeOK
  <2> QED BY <2>1, <2>2 DEF LookedUp, JudgeInv, Remembered
<1>4. /\ new.stage = "judging" /\ new.worker = ob.worker /\ new.reference = ob.reference /\ new.votes = votes
      /\ new \in [stage : {"judging"}, worker : judgePool, reference : References, votes : {votes}]
    BY <1>2 DEF IsJudging
<1>5. IsObservation(new)
  <2>1. votes \in [DOMAIN votes -> Ballots \cup {"MISSING", "unasked", "asked"}] /\ DOMAIN votes = DOMAIN ob.votes
    BY <1>3
  <2> HIDE DEF ob, votes, new
  <2> QED BY <1>2, <1>4, <2>1 DEF IsObservation, IsJudging
<1>6. Spoken(new)
  <2>1. DOMAIN votes = DOMAIN ob.votes /\ \A j \in DOMAIN votes : votes[j] \in Ballots => votes[j] \in said[<<j, ob.reference>>]
    BY <1>3 DEF Ballots
  <2> HIDE DEF ob, votes, new
  <2> QED BY <1>1, <1>2, <1>4, <2>1 DEF Spoken
<1>7. oracleCache' \in [hour : 0..LastHour, text : References \cup {Nothing}] /\ o \in DOMAIN observation
    BY <1>1 DEF JudgeInv, JudgeTypeOK
<1> HIDE DEF new
<1> QED BY <1>1, <1>4, <1>5, <1>6, <1>7, GoesOn DEF Becomes

\* What a judge says is its ballot, and the row it writes is its own.
LEMMA ReplyStep ==
    ASSUME JudgeInv, NEW o \in Observations, NEW j \in judgePool, JudgeReplies(o, j)
    PROVE  JudgeInv' /\ observation'[o].stage # "scored"
<1> DEFINE ob == observation[o]
           ref == ob.reference
<1>1. ob.stage = "judging" /\ j \in DOMAIN ob.votes
    BY DEF JudgeReplies
<1>2. PICK reply \in Replies \cup {"MISSING"} :
        /\ observation' = [observation EXCEPT ![o].votes[j] = reply]
        /\ said' = [said EXCEPT ![<<j, ref>>] = @ \cup ({reply} \cap Ballots)]
        /\ Stored(j, ref, Kept(reply))
        /\ UNCHANGED <<judgePool, oracleCache, hour>>
    BY DEF JudgeReplies
<1> DEFINE votes == [ob.votes EXCEPT ![j] = reply]
           new == [ob EXCEPT !.votes = votes]
<1>3. IsJudging(ob) /\ Spoken(ob) /\ ref \in References /\ o \in DOMAIN observation
  <2>1. IsJudging(ob) /\ Spoken(ob)
    BY <1>1, Stages DEF JudgeInv
  <2> QED BY <2>1 DEF JudgeInv, JudgeTypeOK, IsJudging
<1>4. j \in Range(JudgeModels) /\ j # Nothing /\ <<j, ref>> \in Range(JudgeModels) \X References
    BY <1>3, JudgeAssumption DEF JudgeInv, JudgeTypeOK, Nothing
<1>5. /\ new.stage = "judging" /\ new.worker = ob.worker /\ new.reference = ref /\ new.votes = votes
      /\ new \in [stage : {"judging"}, worker : judgePool, reference : References, votes : {votes}]
      /\ observation' = [observation EXCEPT ![o] = new]
    BY <1>2, <1>3 DEF IsJudging
<1>6. /\ DOMAIN votes = DOMAIN ob.votes /\ votes[j] = reply
      /\ \A k \in DOMAIN votes : k # j => votes[k] = ob.votes[k]
    BY <1>1
<1>7. reply \in Ballots \cup {"MISSING"}
    BY <1>2, JudgeAssumption DEF Ballots
<1>8. votes \in [DOMAIN votes -> Ballots \cup {"MISSING", "unasked", "asked"}]
    BY <1>3, <1>7 DEF IsJudging
<1> HIDE DEF votes, new, ob, ref
<1>9. IsObservation(new)
    BY <1>3, <1>5, <1>6, <1>8 DEF IsObservation, IsJudging
<1>10. said' \in [Range(JudgeModels) \X References -> SUBSET Ballots]
    BY <1>2, <1>4 DEF JudgeInv, JudgeTypeOK
<1>11. \A k \in Range(JudgeModels), r \in References :
         said[<<k, r>>] \subseteq said'[<<k, r>>] /\ (k = j /\ r = ref /\ reply \in Ballots => reply \in said'[<<k, r>>])
    BY <1>2, <1>4 DEF JudgeInv, JudgeTypeOK
<1>12. /\ IsFiniteSet(DOMAIN new.votes) /\ Cardinality(DOMAIN new.votes) <= PanelLimit
       /\ \A k \in DOMAIN new.votes : new.votes[k] \in Ballots => new.votes[k] \in said'[<<k, new.reference>>]
  <2>1. ASSUME NEW k \in DOMAIN votes, votes[k] \in Ballots PROVE votes[k] \in said'[<<k, ref>>]
    <3>1. k \in Range(JudgeModels)
        BY <1>3, <1>6, JudgeAssumption DEF IsJudging, JudgeInv, JudgeTypeOK
    <3>2. CASE k = j
        BY <1>3, <1>6, <1>11, <2>1, <3>1, <3>2
    <3>3. CASE k # j
        BY <1>1, <1>3, <1>6, <1>11, <2>1, <3>1, <3>3 DEF Spoken, ref
    <3> QED BY <3>2, <3>3
  <2> QED BY <1>1, <1>3, <1>5, <1>6, <2>1 DEF Spoken
<1>13. observation' = [x \in Observations |-> IF x = o THEN new ELSE observation[x]]
    BY <1>5 DEF JudgeInv, JudgeTypeOK
<1>14. \A x \in Observations : IsObservation(observation[x])'
  <2>1. \A x \in Observations : IsObservation(observation'[x])
    BY <1>9, <1>13 DEF JudgeInv, JudgeTypeOK
  <2> QED BY <1>2, <2>1 DEF IsObservation, IsJudging
<1>15. \A x \in Observations : Spoken(observation[x])'
  <2> TAKE x \in Observations
  <2>1. CASE x = o
    <3>1. observation'[x] = new
        BY <1>13, <2>1
    <3> QED BY <1>12, <3>1 DEF Spoken
  <2>2. CASE x # o
    <3>1. observation'[x] = observation[x] /\ Spoken(observation[x])
        BY <1>13, <2>2 DEF JudgeInv
    <3>2. ASSUME observation[x].stage = "judging"
          PROVE  observation[x].reference \in References /\ DOMAIN observation[x].votes \subseteq Range(JudgeModels)
        BY <3>2, Stages, JudgeAssumption DEF JudgeInv, JudgeTypeOK, IsJudging
    <3> QED BY <1>11, <3>1, <3>2 DEF Spoken
  <2> QED BY <2>1, <2>2
<1>16. /\ verdictOf' \in [References -> [by : Range(JudgeModels) \cup {Nothing}, verdict : Ballots \cup {Nothing}]]
       /\ Remembered'
  <2>1. CASE reply = "MISSING"
    <3>1. verdictOf' = verdictOf
        BY <1>2, <1>3, <2>1 DEF Stored, Kept, Nothing, JudgeInv, JudgeTypeOK
    <3> QED BY <1>11, <3>1 DEF JudgeInv, JudgeTypeOK, Remembered
  <2>2. CASE reply # "MISSING"
    <3>1. reply \in Ballots /\ verdictOf' = [verdictOf EXCEPT ![ref] = [by |-> j, verdict |-> reply]]
        BY <1>2, <1>7, <2>2 DEF Stored, Kept, Nothing, Ballots
    <3>2. verdictOf' \in [References -> [by : Range(JudgeModels) \cup {Nothing}, verdict : Ballots \cup {Nothing}]]
        BY <1>3, <1>4, <3>1 DEF JudgeInv, JudgeTypeOK
    <3>3. Remembered'
      <4> SUFFICES ASSUME NEW r \in References, verdictOf'[r].by # Nothing
                   PROVE  verdictOf'[r].verdict \in said'[<<verdictOf'[r].by, r>>]
          BY DEF Remembered
      <4>1. CASE r = ref
          BY <1>3, <1>4, <1>11, <3>1, <4>1 DEF JudgeInv, JudgeTypeOK
      <4>2. CASE r # ref
        <5>1. verdictOf'[r] = verdictOf[r] /\ verdictOf[r].by \in Range(JudgeModels)
            BY <3>1, <4>2 DEF JudgeInv, JudgeTypeOK
        <5> QED BY <1>11, <5>1 DEF JudgeInv, Remembered
      <4> QED BY <4>1, <4>2
    <3> QED BY <3>2, <3>3
  <2> QED BY <2>1, <2>2
<1>17. JudgeTypeOK'
    BY <1>2, <1>10, <1>13, <1>14, <1>16 DEF JudgeInv, JudgeTypeOK
<1> QED BY <1>5, <1>13, <1>15, <1>16, <1>17 DEF JudgeInv

\* At the start nobody has spoken and the table is empty.
LEMMA JudgeInitInv ==
    ASSUME JudgeInit
    PROVE  JudgeInv
<1>1. \A o \in Observations : IsObservation(observation[o]) /\ Spoken(observation[o])
    BY DEF JudgeInit, IsObservation, Spoken, New
<1>2. JudgeTypeOK
    BY <1>1, JudgeAssumption DEF JudgeInit, JudgeTypeOK
<1> QED BY <1>1, <1>2 DEF JudgeInv, JudgeInit, Remembered

\* A tally counts what its judges have said, and only it ends in a score.
LEMMA TallyStep ==
    ASSUME JudgeInv, NEW o \in Observations, Tallies(o)
    PROVE  JudgeInv' /\ (OneMayFail /\ observation'[o].stage = "scored" => Earned(o))
<1> DEFINE ob == observation[o]
           enough == Cardinality(Succeeded(ob.votes)) >= MinPanel
           best == Majority(ob.votes)
           new == IF Cardinality(Succeeded(ob.votes)) < MinPanel
                  THEN [stage |-> "missing", worker |-> ob.worker]
                  ELSE [stage |-> "scored", worker |-> ob.worker, score |-> ScoreOf(Majority(ob.votes))]
<1>1. /\ ob.stage = "judging" /\ Becomes(o, new)
      /\ \A j \in DOMAIN ob.votes : ob.votes[j] \notin {"unasked", "asked"}
      /\ UNCHANGED <<judgePool, verdictOf, oracleCache, hour, said>>
    BY DEF Tallies
<1>2. IsJudging(ob) /\ Spoken(ob) /\ o \in DOMAIN observation
    BY <1>1, Stages DEF JudgeInv, JudgeTypeOK
<1>3. /\ IsFiniteSet(DOMAIN ob.votes) /\ Cardinality(DOMAIN ob.votes) <= PanelLimit
      /\ \A j \in DOMAIN ob.votes : ob.votes[j] \in Ballots \cup {"MISSING"}
      /\ \A j \in DOMAIN ob.votes : ob.votes[j] \in Ballots => ob.votes[j] \in said[<<j, ob.reference>>]
    BY <1>1, <1>2 DEF IsJudging, Spoken
<1>4. Cardinality(Succeeded(ob.votes)) \in Nat /\ MinPanel \in Nat
  <2>1. Succeeded(ob.votes) \subseteq DOMAIN ob.votes
    BY DEF Succeeded
  <2> QED BY <1>3, <2>1, FS_Subset, FS_CardinalityType, JudgeAssumption
<1>5. observation'[o] = new
    BY <1>1, <1>2 DEF Becomes
<1>6. IsObservation(new) /\ Spoken(new)
  <2>1. ob.worker \in judgePool
    BY <1>2 DEF IsJudging
  <2>2. ScoreOf(Majority(ob.votes)) \in {0, 50, 100}
    BY DEF ScoreOf
  <2> QED BY <2>1, <2>2 DEF IsObservation, Spoken
<1>7. JudgeInv'
  <2>1. oracleCache' \in [hour : 0..LastHour, text : References \cup {Nothing}]
    BY <1>1 DEF JudgeInv, JudgeTypeOK
  <2> HIDE DEF new
  <2> QED BY <1>1, <1>6, <2>1, GoesOn
<1>8. ASSUME OneMayFail, observation'[o].stage = "scored"
      PROVE  Earned(o)
  <2> DEFINE real == {j \in DOMAIN ob.votes : ob.votes[j] \in said[<<j, ob.reference>>]}
  <2>1. enough /\ observation'[o].score = ScoreOf(best)
    BY <1>4, <1>5, <1>8
  <2>2. real = Succeeded(ob.votes)
    <3>1. \A j \in DOMAIN ob.votes : said[<<j, ob.reference>>] \subseteq Ballots
        BY <1>2, JudgeAssumption DEF JudgeInv, JudgeTypeOK, IsJudging
    <3> QED BY <1>3, <3>1 DEF Succeeded
  <2>3. \A b \in Ballots : {j \in real : ob.votes[j] = b} = {j \in DOMAIN ob.votes : ob.votes[j] = b}
    BY <1>3
  <2>4. \A b \in Ballots : Cardinality({j \in real : ob.votes[j] = b}) = Support(ob.votes, b)
    BY <2>3 DEF Support
  <2>5. best \in Ballots /\ \A c \in Ballots : Support(ob.votes, c) <= Support(ob.votes, best)
    <3> HIDE DEF ob
    <3> QED BY <1>3, <1>8, <2>1, MajorityIsCast
  <2>6. \A j \in DOMAIN ob.votes : ob.votes[j] \in Ballots => j \in real
    BY <1>3
  <2> HIDE DEF best
  <2> QED BY <2>1, <2>2, <2>4, <2>5, <2>6 DEF Earned
<1> QED BY <1>7, <1>8

\* Whatever happens, the invariant stays, and an observation gets its score by
\* the tally of its panel only.
LEMMA JudgeStepInv ==
    ASSUME JudgeInv, [JudgeNext]_judgeVars
    PROVE  /\ JudgeInv'
           /\ OneMayFail => \A o \in Observations :
                observation[o].stage = "judging" /\ observation'[o].stage = "scored" => Earned(o)
<1> DEFINE Fair(o) == OneMayFail /\ observation[o].stage = "judging" /\ observation'[o].stage = "scored" => Earned(o)
<1>1. ASSUME NEW o \in Observations, NEW x \in Observations, x # o, NEW ob, Becomes(o, ob)
      PROVE  Fair(x)
    BY <1>1 DEF JudgeInv, JudgeTypeOK, Becomes
<1>2. ASSUME NEW o \in Observations, Samples(o)
      PROVE  JudgeInv' /\ \A x \in Observations : Fair(x)
  <2>1. PICK worker \in judgePool \cap Sampled :
          IF OracleKnown THEN Convenes(o, worker, oracleCache.text)
                         ELSE Becomes(o, [stage |-> "oracle", worker |-> worker])
    BY <1>2 DEF Samples
  <2>2. /\ observation[o].stage = "new" /\ UNCHANGED <<judgePool, verdictOf, oracleCache, hour, said>>
        /\ oracleCache' \in [hour : 0..LastHour, text : References \cup {Nothing}]
    BY <1>2 DEF Samples, JudgeInv, JudgeTypeOK
  <2>3. JudgeInv'
    <3>1. CASE OracleKnown
      <4>1. oracleCache.text \in References
          BY <3>1 DEF OracleKnown, JudgeInv, JudgeTypeOK
      <4> QED BY <2>1, <2>2, <3>1, <4>1, ConveneStep
    <3>2. CASE ~OracleKnown
      <4> DEFINE ob == [stage |-> "oracle", worker |-> worker]
      <4>1. IsObservation(ob) /\ Spoken(ob)
          BY DEF IsObservation, Spoken
      <4> HIDE DEF ob
      <4> QED BY <2>1, <2>2, <3>2, <4>1, GoesOn DEF ob
    <3> QED BY <3>1, <3>2
  <2>4. \E ob : Becomes(o, ob)
    BY <2>1 DEF Convenes
  <2> QED BY <1>1, <2>2, <2>3, <2>4
<1>3. ASSUME NEW o \in Observations, OracleAnswers(o)
      PROVE  JudgeInv' /\ \A x \in Observations : Fair(x)
  <2>1. /\ observation[o].stage = "oracle" /\ observation[o].worker \in judgePool
        /\ UNCHANGED <<judgePool, verdictOf, hour, said>>
    BY <1>3, Stages DEF OracleAnswers, JudgeInv
  <2>2. CASE Becomes(o, [stage |-> "skipped", worker |-> observation[o].worker]) /\ UNCHANGED oracleCache
    <3> DEFINE ob == [stage |-> "skipped", worker |-> observation[o].worker]
    <3>1. IsObservation(ob) /\ Spoken(ob)
        BY <2>1 DEF IsObservation, Spoken
    <3>2. oracleCache' \in [hour : 0..LastHour, text : References \cup {Nothing}]
        BY <2>2 DEF JudgeInv, JudgeTypeOK
    <3>3. Becomes(o, ob)
        BY <2>2
    <3> HIDE DEF ob
    <3>4. JudgeInv'
        BY <2>1, <3>1, <3>2, <3>3, GoesOn
    <3> QED BY <1>1, <2>1, <3>3, <3>4
  <2>3. CASE \E text \in References : /\ oracleCache' = [hour |-> hour, text |-> text]
                                      /\ Convenes(o, observation[o].worker, text)
    <3>1. PICK text \in References : /\ oracleCache' = [hour |-> hour, text |-> text]
                                     /\ Convenes(o, observation[o].worker, text)
        BY <2>3
    <3>2. oracleCache' \in [hour : 0..LastHour, text : References \cup {Nothing}]
        BY <3>1 DEF JudgeInv, JudgeTypeOK
    <3>3. JudgeInv'
        BY <2>1, <3>1, <3>2, ConveneStep
    <3>4. \E ob : Becomes(o, ob)
        BY <3>1 DEF Convenes
    <3> QED BY <1>1, <2>1, <3>3, <3>4
  <2> QED BY <1>3, <2>2, <2>3 DEF OracleAnswers
<1>4. ASSUME NEW o \in Observations, JudgesLook(o)
      PROVE  JudgeInv' /\ \A x \in Observations : Fair(x)
  <2>1. \E ob : Becomes(o, ob)
    BY <1>4 DEF JudgesLook
  <2> QED BY <1>1, <1>4, <2>1, LookStep
<1>5. ASSUME NEW o \in Observations, Tallies(o)
      PROVE  JudgeInv' /\ \A x \in Observations : Fair(x)
  <2>1. \E ob : Becomes(o, ob)
    BY <1>5 DEF Tallies
  <2> QED BY <1>1, <1>5, <2>1, TallyStep
<1>6. ASSUME NEW o \in Observations, NEW j \in judgePool, JudgeReplies(o, j)
      PROVE  JudgeInv' /\ \A x \in Observations : Fair(x)
  <2>1. \E ob : Becomes(o, ob)
    BY <1>6 DEF JudgeReplies, Becomes
  <2> QED BY <1>1, <1>6, <2>1, ReplyStep
<1>7. ASSUME HourPasses \/ UNCHANGED judgeVars
      PROVE  JudgeInv' /\ \A x \in Observations : Fair(x)
  <2>1. UNCHANGED <<judgePool, observation, verdictOf, oracleCache, said>> /\ hour' \in 0..LastHour
    <3>1. hour \in 0..LastHour /\ LastHour \in Nat
        BY JudgeAssumption DEF JudgeInv, JudgeTypeOK
    <3> QED BY <1>7, <3>1 DEF HourPasses, judgeVars
  <2>2. \A x \in Observations : Spoken(observation[x])' /\ IsObservation(observation[x])'
    BY <2>1 DEF JudgeInv, JudgeTypeOK, Spoken, IsObservation, IsJudging
  <2>3. JudgeTypeOK'
    BY <2>1, <2>2 DEF JudgeInv, JudgeTypeOK
  <2> QED BY <2>1, <2>2, <2>3 DEF JudgeInv, Remembered
<1>8. JudgeNext \/ UNCHANGED judgeVars
    OBVIOUS
<1> HIDE DEF Fair
<1>9. JudgeInv' /\ \A x \in Observations : Fair(x)
    BY <1>2, <1>3, <1>4, <1>5, <1>6, <1>7, <1>8 DEF JudgeNext
<1> QED BY <1>9 DEF Fair

\* So it is at every step, whatever the sizes of the panels.
LEMMA JudgeInductive == JudgeSpec => []JudgeInv
<1>1. JudgeInit => JudgeInv
    BY JudgeInitInv
<1>2. JudgeInv /\ [JudgeNext]_judgeVars => JudgeInv'
    BY JudgeStepInv
<1> QED BY <1>1, <1>2, PTL DEF JudgeSpec

\* A score is the verdict of enough judges who have really given it, for every
\* panel of which one may fail (judge_quality.py _majority_vote,
\* MIN_JUDGE_PANEL_SIZE).
THEOREM ScoreIsTheJudges == OneMayFail => (JudgeSpec => ScoreIsEarned)
<1> DEFINE A == \A o \in Observations :
                  observation[o].stage = "judging" /\ observation'[o].stage = "scored" => Earned(o)
<1> SUFFICES ASSUME OneMayFail PROVE JudgeSpec => ScoreIsEarned
    OBVIOUS
<1>1. JudgeInit => JudgeInv
    BY JudgeInitInv
<1>2. JudgeInv /\ [JudgeNext]_judgeVars => JudgeInv' /\ [A]_judgeVars
    BY JudgeStepInv
<1> QED BY <1>1, <1>2, PTL DEF JudgeSpec, ScoreIsEarned

-----------------------------------------------------------------------------
(* The parts together *)

\* A part that rests stays as it is, and the one that moves takes its own steps:
\* what is proved of each part holds of them all.
THEOREM EachPartIsItself ==
    Spec => /\ CostSpec /\ SacredSpec /\ CacheSpec /\ ReadySpec /\ HeadSpec /\ JudgeSpec
            /\ QuotaSpec
<1>1. Init => /\ CostInit /\ SacredInit /\ CacheInit /\ ReadyInit /\ HeadInit /\ JudgeInit
              /\ QuotaInit
    BY DEF Init
<1>2. [Next]_vars => /\ [CostNext]_costVars /\ [SacredNext]_sacredVars /\ [CacheNext]_cacheVars
                     /\ [ReadyNext]_readyVars /\ [HeadNext]_headVars /\ [JudgeNext]_judgeVars
                     /\ [QuotaNext]_quotaVars
    BY DEF Next, vars
<1> QED BY <1>1, <1>2, PTL DEF Spec, CostSpec, SacredSpec, CacheSpec, ReadySpec, HeadSpec, JudgeSpec,
           QuotaSpec

\* The part that moves stays the same.
LEMMA PartIsKept == Spec => [](part \in Parts)
<1>1. Init => part \in Parts
    BY DEF Init
<1>2. part \in Parts /\ [Next]_vars => (part \in Parts)'
    BY DEF Next, vars
<1> QED BY <1>1, <1>2, PTL DEF Spec

\* Whichever part moves, it keeps to its types.
THEOREM TypesAreKept == Spec => []StoresTypeOK
<1>1. ASSUME part \in Parts, CostTypeOK, SacredTypeOK, CacheInv, ReadyInv, HeadInv, JudgeInv,
             QuotaTypeOK
      PROVE  StoresTypeOK
  <2>1. CacheTypeOK /\ ReadyTypeOK /\ HeadTypeOK /\ JudgeTypeOK
    BY <1>1 DEF CacheInv, ReadyInv, HeadInv, JudgeInv
  <2>2. part \in {"cost", "sacred", "cache", "ready", "head", "judges", "quota"}
    BY <1>1, PartsAssumption
  <2> QED BY <1>1, <2>1, <2>2 DEF StoresTypeOK
<1> QED BY <1>1, EachPartIsItself, PartIsKept, CostTypeCorrect, SacredTypeCorrect, CacheInductive,
           ReadyInductive, HeadInductive, JudgeInductive, TypeCorrect, PTL

\* And it keeps its promises: the count follows the log and its cap is passed by
\* what is under way at most, no key spends more than its cap in the sacred
\* ledger, entries in memory live their time, ready is told of an answer, no outcome is lost
\* or learned by the weights alone, no score is made up, and the quota of an API
\* key holds.
THEOREM StoresKeepTheirWord ==
    Spec => /\ []CountFollowsLog /\ []CapOvershoot /\ []KeySpendHolds
            /\ []MemoryKeepsTTL /\ []LearnsInTurn /\ []WeightsHavePriors
            /\ ReadyReflects /\ (OneMayFail => ScoreIsEarned)
            /\ []MinuteHolds /\ []RedisOvershoot /\ []DailyHolds /\ RefusalsJustified
BY EachPartIsItself, CountIsTrue, OvershootIsBounded, KeySpendIsBounded, EntriesLiveTheirTTL, OutcomesAreKept,
   WeightsFollowPriors, ReadyIsEarned, ScoreIsTheJudges, MinuteIsKept, RedisIsBounded, DayIsKept,
   RefusalsAreJustified, PTL
=============================================================================

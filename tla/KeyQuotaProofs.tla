--------------------------- MODULE KeyQuotaProofs ---------------------------
(***************************************************************************)
(* The limits that hold for any number of processes, any limits and however *)
(* late a call reaches its store.                                          *)
(***************************************************************************)
EXTENDS KeyQuota, FiniteSetTheorems, TLAPS

\* A time stamp is not after the admission it belongs to, nor by more than
\* MaxLag before it; admissions are in order; what has been dropped is outdated.
LogOK(s) ==
    /\ rows[s] \subseteq DOMAIN log[s]
    /\ \A i \in DOMAIN log[s] :
         /\ log[s][i].ts <= log[s][i].at
         /\ log[s][i].at <= time
         /\ log[s][i].at - log[s][i].ts <= MaxLag
         /\ i \notin rows[s] => time - log[s][i].ts >= Window
    /\ \A i, j \in DOMAIN log[s] : i <= j => log[s][i].at <= log[s][j].at

CallOK(p) ==
    /\ stage[p] # "idle" => /\ now[p] <= time /\ time - now[p] <= MaxLag
                         /\ store[p] \in QuotaStores /\ tokens[p] \in Charges
    /\ stage[p] = "looked" => store[p] = "redis"
    /\ viewed[p] # NoTime => viewed[p] <= time /\ store[p] \in QuotaStores

IInv ==
    /\ QuotaTypeOK
    /\ \A s \in QuotaStores : LogOK(s)
    /\ \A p \in Procs : CallOK(p)

-----------------------------------------------------------------------------
(* Days *)

LEMMA TimesKeepsOrder ==
    ASSUME NEW c \in Nat, NEW a \in Nat, NEW b \in Nat, a <= b
    PROVE  c * a <= c * b
    OBVIOUS

LEMMA DayOfTime ==
    ASSUME NEW t \in 0..MaxTime PROVE Day(t) \in QuotaDays
<1> DEFINE d == DaySecs  q == t \div d  m == MaxTime \div d
<1>1. d \in Nat /\ d > 0 /\ MaxTime \in Nat /\ t \in Nat /\ t <= MaxTime
    BY KeyQuotaAssumption
<1>2. q \in Nat /\ m \in Nat /\ d * q <= t /\ MaxTime < d * (m + 1)
    BY <1>1, Z3
<1>3. q <= m
  <2>1. SUFFICES ASSUME m + 1 <= q PROVE FALSE
      BY <1>2
  <2>2. d * (m + 1) <= d * q
      BY <1>1, <1>2, <2>1, TimesKeepsOrder
  <2>3. d * (m + 1) \in Nat /\ d * q \in Nat
      BY <1>1, <1>2
  <2> QED BY <1>1, <1>2, <2>2, <2>3
<1> QED BY <1>2, <1>3 DEF Day, QuotaDays

-----------------------------------------------------------------------------
(* The parts of a step *)

LEMMA KeptAreRows ==
    ASSUME NEW s, NEW t PROVE KeptRows(s, t) \subseteq rows[s]
    BY DEF KeptRows

LEMMA RememberedType ==
    ASSUME QuotaTypeOK, NEW s \in QuotaStores, NEW d PROVE DayRemembered(s, d) \in [QuotaDays -> Nat]
    BY DEF DayRemembered, QuotaTypeOK

LEMMA BackendsAreStores ==
    ASSUME NEW p \in Procs PROVE Backends(p) \subseteq QuotaStores
    BY DEF Backends, QuotaStores, Shared

LEMMA ChoiceIsStore ==
    ASSUME QuotaTypeOK, NEW p \in Procs PROVE Choice(p) \subseteq QuotaStores
    BY BackendsAreStores DEF Choice, QuotaTypeOK

Entry == [ts : 0..MaxTime, at : 0..MaxTime]

LEMMA LogEntries ==
    ASSUME QuotaTypeOK, NEW s \in QuotaStores
    PROVE  /\ log[s] \in Seq(Entry) /\ Len(log[s]) \in Nat
           /\ DOMAIN log[s] = 1..Len(log[s])
           /\ \A i \in DOMAIN log[s] : log[s][i].ts \in Nat /\ log[s][i].at \in Nat
<1>1. log[s] \in Seq(Entry)
    BY DEF QuotaTypeOK, Entry
<1>2. \A i \in 1..Len(log[s]) : log[s][i] \in Entry
    BY <1>1
<1>3. \A e \in Entry : e.ts \in Nat /\ e.at \in Nat
    BY KeyQuotaAssumption DEF Entry
<1> QED BY <1>1, <1>2, <1>3

LEMMA Numbers ==
    ASSUME QuotaTypeOK
    PROVE  /\ time \in Nat /\ MaxTime \in Nat /\ Window \in Nat /\ MaxLag \in Nat
           /\ Rpm \in Nat /\ Rpm > 0
<1>1. /\ MaxTime \in Nat /\ Window \in Nat /\ MaxLag \in Nat /\ Rpm \in Nat \ {0}
      /\ time \in 0..MaxTime
    BY KeyQuotaAssumption DEF QuotaTypeOK
<1> QED BY <1>1

\* A call that ends leaves nothing of itself.
LEMMA EndsOK ==
    ASSUME QuotaTypeOK, NEW p \in Procs, QuotaEnds(p)
    PROVE  /\ stage' \in [Procs -> {"idle", "asked", "looked"}]
           /\ now' \in [Procs -> 0..MaxTime]
           /\ tokens' \in [Procs -> Charges \cup {0}]
           /\ stage'[p] = "idle"
           /\ \A q \in Procs \ {p} : stage'[q] = stage[q] /\ now'[q] = now[q] /\ tokens'[q] = tokens[q]
<1>1. 0 \in 0..MaxTime
    BY KeyQuotaAssumption
<1> QED BY <1>1 DEF QuotaEnds, QuotaTypeOK

\* Dropping outdated calls is harmless.
LEMMA PruneOK ==
    ASSUME QuotaTypeOK, NEW s \in QuotaStores, LogOK(s), NEW t \in 0..MaxTime, t <= time,
           UNCHANGED <<time, log>>, rows' = [rows EXCEPT ![s] = KeptRows(s, t)]
    PROVE  LogOK(s)' /\ rows' \in [QuotaStores -> SUBSET Nat]
<1>1. rows'[s] = KeptRows(s, t) /\ KeptRows(s, t) \subseteq rows[s] /\ rows[s] \subseteq Nat
    BY KeptAreRows DEF QuotaTypeOK
<1>2. ASSUME NEW i \in DOMAIN log[s], i \notin KeptRows(s, t)
      PROVE  time - log[s][i].ts >= Window
  <2>0. MaxTime \in Nat /\ Window \in Nat /\ time \in 0..MaxTime
      BY KeyQuotaAssumption DEF QuotaTypeOK
  <2>1. log[s][i].ts \in Nat /\ time \in Nat /\ t \in Nat /\ Window \in Nat
      BY <1>2, <2>0, LogEntries
  <2>2. CASE i \notin rows[s]
      BY <2>2 DEF LogOK
  <2>3. CASE Outdated(s, log[s][i].ts, t)
      BY <2>1, <2>3 DEF Outdated
  <2> QED BY <1>2, <2>2, <2>3 DEF KeptRows
<1> QED BY <1>1, <1>2 DEF LogOK, QuotaTypeOK

\* What entering a call does to the log of a store.
LEMMA EntersOK ==
    ASSUME IInv, NEW p \in Procs, stage[p] # "idle", NEW s \in QuotaStores, NEW kept,
           kept \subseteq rows[s],
           \A i \in DOMAIN log[s] : i \notin kept => time - log[s][i].ts >= Window,
           IsEntered(p, s, kept), UNCHANGED time
    PROVE  /\ LogOK(s)'
           /\ \A z \in QuotaStores \ {s} : log'[z] = log[z] /\ rows'[z] = rows[z]
           /\ log' \in [QuotaStores -> Seq([ts : 0..MaxTime, at : 0..MaxTime])]
           /\ rows' \in [QuotaStores -> SUBSET Nat]
           /\ used' \in [QuotaStores -> [QuotaDays -> Nat]]
           /\ granted' \in [QuotaStores -> [QuotaDays -> Nat]]
           /\ log'[s] = Append(log[s], [ts |-> now[p], at |-> time])
<1> DEFINE new == [ts |-> now[p], at |-> time]  n == Len(log[s])
<1>1. /\ now[p] \in 0..MaxTime /\ time \in 0..MaxTime /\ now[p] <= time
      /\ time - now[p] <= MaxLag /\ tokens[p] \in Nat /\ MaxLag \in Nat
    BY KeyQuotaAssumption DEF IInv, QuotaTypeOK, CallOK
<1>2. log[s] \in Seq(Entry) /\ n \in Nat /\ new \in Entry
    BY <1>1, LogEntries DEF IInv, Entry
<1>3. /\ log'[s] = Append(log[s], new)
      /\ rows'[s] = kept \cup {n + 1}
      /\ \A z \in QuotaStores \ {s} : log'[z] = log[z] /\ rows'[z] = rows[z]
    BY DEF IsEntered, IInv, QuotaTypeOK
<1>4. Append(log[s], new) \in Seq(Entry)
    BY <1>2
<1>5. log' \in [QuotaStores -> Seq([ts : 0..MaxTime, at : 0..MaxTime])]
    BY <1>4 DEF IsEntered, IInv, QuotaTypeOK, Entry
<1>6. kept \cup {n + 1} \in SUBSET Nat
  <2>1. rows[s] \subseteq Nat
      BY DEF IInv, QuotaTypeOK
  <2> QED BY <1>2, <2>1
<1>7. rows' \in [QuotaStores -> SUBSET Nat]
    BY <1>6 DEF IsEntered, IInv, QuotaTypeOK
<1>8. Day(now[p]) \in QuotaDays
    BY <1>1, DayOfTime
<1>9. used' \in [QuotaStores -> [QuotaDays -> Nat]]
  <2> DEFINE d == Day(now[p])  old == DayRemembered(s, d)
  <2>1. old \in [QuotaDays -> Nat]
      BY RememberedType DEF IInv
  <2>2. [old EXCEPT ![d] = @ + tokens[p]] \in [QuotaDays -> Nat]
      BY <1>1, <1>8, <2>1
  <2> QED BY <2>2 DEF IsEntered, IInv, QuotaTypeOK
<1>10. granted' \in [QuotaStores -> [QuotaDays -> Nat]]
  <2> DEFINE d == Day(now[p])  old == granted[s]
  <2>1. old \in [QuotaDays -> Nat]
      BY DEF IInv, QuotaTypeOK
  <2>2. [old EXCEPT ![d] = @ + tokens[p]] \in [QuotaDays -> Nat]
      BY <1>1, <1>8, <2>1
  <2>3. granted' = [granted EXCEPT ![s] = [old EXCEPT ![d] = @ + tokens[p]]]
      BY DEF IsEntered, IInv, QuotaTypeOK
  <2> QED BY <2>2, <2>3 DEF IInv, QuotaTypeOK
<1>11. /\ DOMAIN log[s] = 1..n /\ DOMAIN log'[s] = 1..(n + 1)
       /\ log'[s][n + 1] = new /\ \A i \in 1..n : log'[s][i] = log[s][i]
    BY <1>2, <1>3
<1>12. \A i \in 1..n : /\ log[s][i].ts \in Nat /\ log[s][i].at \in Nat
                       /\ log[s][i].at <= time
    BY <1>11, LogEntries DEF IInv, LogOK
<1>13. LogOK(s)'
  <2>1. rows'[s] \subseteq 1..(n + 1)
      BY <1>2, <1>3, <1>11 DEF IInv, LogOK
  <2>2. ASSUME NEW i \in 1..(n + 1)
        PROVE  /\ log'[s][i].ts <= log'[s][i].at
               /\ log'[s][i].at <= time
               /\ log'[s][i].at - log'[s][i].ts <= MaxLag
               /\ i \notin rows'[s] => time - log'[s][i].ts >= Window
    <3>1. CASE i = n + 1
        BY <1>1, <1>3, <1>11, <3>1
    <3>2. CASE i \in 1..n
      <4>1. i # n + 1 /\ log'[s][i] = log[s][i]
          BY <1>2, <1>11, <3>2
      <4>2. i \notin rows'[s] => time - log[s][i].ts >= Window
          BY <1>3, <1>11, <3>2
      <4> QED BY <1>11, <3>2, <4>1, <4>2 DEF IInv, LogOK
    <3> QED BY <1>2, <3>1, <3>2
  <2>3. ASSUME NEW i \in 1..(n + 1), NEW j \in 1..(n + 1), i <= j
        PROVE  log'[s][i].at <= log'[s][j].at
    <3>1. CASE j = n + 1 /\ i \in 1..n
      <4>1. log'[s][j].at = time
          BY <1>11, <3>1
      <4> QED BY <1>11, <1>12, <3>1, <4>1
    <3>2. CASE j = n + 1 /\ i = n + 1
      <4>1. log'[s][j].at = time /\ time \in Nat
          BY <1>1, <1>11, <3>2
      <4> QED BY <3>2, <4>1
    <3>3. CASE j \in 1..n
      <4>1. i \in 1..n
          BY <1>2, <2>3, <3>3
      <4>2. log[s][i].at <= log[s][j].at
          BY <1>11, <2>3, <3>3, <4>1 DEF IInv, LogOK
      <4> QED BY <1>11, <3>3, <4>1, <4>2
    <3>4. j = n + 1 \/ j \in 1..n
        BY <1>2
    <3> QED BY <1>2, <2>3, <3>1, <3>2, <3>3, <3>4
  <2> HIDE DEF n, new
  <2> QED BY <1>11, <2>1, <2>2, <2>3 DEF LogOK
<1> QED BY <1>3, <1>5, <1>7, <1>9, <1>10, <1>13

\* A step that touches no call of p and no store keeps what is known of them.
LEMMA CallFrame ==
    ASSUME NEW q \in Procs, CallOK(q), time' = time, store'[q] = store[q],
           stage'[q] = stage[q], now'[q] = now[q], tokens'[q] = tokens[q], viewed'[q] = viewed[q]
    PROVE  CallOK(q)'
    BY DEF CallOK

LEMMA LogFrame ==
    ASSUME NEW s \in QuotaStores, LogOK(s), time' = time, log'[s] = log[s], rows'[s] = rows[s]
    PROVE  LogOK(s)'
    BY DEF LogOK

-----------------------------------------------------------------------------
(* Each operation keeps the invariant *)

LEMMA InitHolds == QuotaInit => IInv
<1> SUFFICES ASSUME QuotaInit PROVE IInv
    OBVIOUS
<1>1. 0 \in 0..MaxTime
    BY KeyQuotaAssumption
<1>2. <<>> \in Seq([ts : 0..MaxTime, at : 0..MaxTime])
    OBVIOUS
<1>3. QuotaTypeOK
    BY <1>1, <1>2 DEF QuotaInit, QuotaTypeOK, NoTime
<1>4. ASSUME NEW s \in QuotaStores PROVE LogOK(s)
    BY DEF QuotaInit, LogOK
<1>5. ASSUME NEW p \in Procs PROVE CallOK(p)
    BY DEF QuotaInit, CallOK
<1> QED BY <1>3, <1>4, <1>5 DEF IInv

LEMMA AsksStep == ASSUME IInv, NEW p \in Procs, ReadsClock(p) PROVE IInv'
<1>1. PICK s \in Choice(p) : store' = [store EXCEPT ![p] = s]
    BY DEF ReadsClock
<1>2. s \in QuotaStores /\ store \in [Procs -> QuotaStores \cup {"none"}]
    BY ChoiceIsStore DEF IInv, QuotaTypeOK
<1>3. PICK tok \in Charges : tokens' = [tokens EXCEPT ![p] = tok]
    BY DEF ReadsClock
<1>4. QuotaTypeOK'
    BY <1>1, <1>2, <1>3 DEF ReadsClock, IInv, QuotaTypeOK
<1>5. ASSUME NEW z \in QuotaStores PROVE LogOK(z)'
    BY LogFrame DEF ReadsClock, IInv
<1>6. CallOK(p)'
  <2>1. time \in Nat /\ MaxLag \in Nat /\ viewed[p] \in Int
      BY KeyQuotaAssumption DEF IInv, QuotaTypeOK, NoTime
  <2>2. store'[p] = s /\ tokens'[p] = tok /\ stage'[p] = "asked" /\ now'[p] = time
        /\ time' = time /\ viewed'[p] = viewed[p]
      BY <1>1, <1>2, <1>3 DEF ReadsClock, IInv, QuotaTypeOK
  <2> QED BY <1>2, <2>1, <2>2 DEF IInv, CallOK
<1>7. ASSUME NEW q \in Procs \ {p} PROVE CallOK(q)'
    BY <1>1, <1>3, CallFrame DEF ReadsClock, IInv, QuotaTypeOK
<1> QED BY <1>4, <1>5, <1>6, <1>7 DEF IInv

\* A call that ends without having been entered.
LEMMA RefusesStep ==
    ASSUME IInv, NEW p \in Procs, Refuses(p), UNCHANGED <<time, outage, store, viewed>>,
           rows' \in [QuotaStores -> SUBSET Nat], \A s \in QuotaStores : LogOK(s)'
    PROVE  IInv'
<1>1. QuotaTypeOK'
    BY EndsOK DEF Refuses, IInv, QuotaTypeOK
<1>2. CallOK(p)'
    BY EndsOK DEF Refuses, IInv, CallOK
<1>3. ASSUME NEW q \in Procs \ {p} PROVE CallOK(q)'
    BY EndsOK, CallFrame DEF Refuses, IInv
<1> QED BY <1>1, <1>2, <1>3 DEF IInv

\* A call that ends with being entered.
LEMMA AdmitsStep ==
    ASSUME IInv, NEW p \in Procs, stage[p] # "idle", NEW s \in QuotaStores, NEW kept,
           kept \subseteq rows[s],
           \A i \in DOMAIN log[s] : i \notin kept => time - log[s][i].ts >= Window,
           IsEntered(p, s, kept), QuotaEnds(p), UNCHANGED <<time, outage, store, viewed>>
    PROVE  IInv'
<1>1. QuotaTypeOK'
    BY EndsOK, EntersOK DEF IInv, QuotaTypeOK
<1>2. ASSUME NEW z \in QuotaStores PROVE LogOK(z)'
    BY EntersOK, LogFrame DEF IInv
<1>3. CallOK(p)'
    BY EndsOK DEF IInv, CallOK
<1>4. ASSUME NEW q \in Procs \ {p} PROVE CallOK(q)'
    BY EndsOK, CallFrame DEF IInv
<1> QED BY <1>1, <1>2, <1>3, <1>4 DEF IInv

\* What a call does not keep is outdated now, since its time stamp is not
\* later than now.
LEMMA DroppedIsOld ==
    ASSUME IInv, NEW s \in QuotaStores, NEW t \in Nat, t <= time, NEW i \in DOMAIN log[s],
           i \notin KeptRows(s, t)
    PROVE  time - log[s][i].ts >= Window
<1>1. log[s][i].ts \in Nat /\ time \in Nat /\ Window \in Nat
  <2>1. MaxTime \in Nat /\ Window \in Nat /\ time \in 0..MaxTime
      BY KeyQuotaAssumption DEF IInv, QuotaTypeOK
  <2> QED BY <2>1, LogEntries DEF IInv
<1>2. CASE i \notin rows[s]
    BY <1>2 DEF IInv, LogOK
<1>3. CASE Outdated(s, log[s][i].ts, t)
    BY <1>1, <1>3 DEF Outdated
<1> QED BY <1>2, <1>3 DEF KeptRows

LEMMA CallFacts ==
    ASSUME IInv, NEW p \in Procs, stage[p] # "idle"
    PROVE  now[p] \in Nat /\ now[p] \in 0..MaxTime /\ now[p] <= time /\ store[p] \in QuotaStores
    BY KeyQuotaAssumption DEF IInv, QuotaTypeOK, CallOK

LEMMA DecidesStep == ASSUME IInv, NEW p \in Procs, Decides(p) PROVE IInv'
<1> DEFINE s == store[p]  kept == KeptRows(s, now[p])
<1>1. stage[p] # "idle" /\ UNCHANGED <<time, outage, store, viewed>>
    BY DEF Decides
<1>2. CASE Refuses(p) /\ UNCHANGED rows
  <2>1. \A z \in QuotaStores : LogOK(z)'
      BY <1>1, <1>2, LogFrame DEF IInv, Refuses
  <2>2. rows' \in [QuotaStores -> SUBSET Nat]
      BY <1>2 DEF IInv, QuotaTypeOK
  <2> QED BY <1>1, <1>2, <2>1, <2>2, RefusesStep
<1>3. CASE IsEntered(p, s, kept) /\ QuotaEnds(p)
  <2>1. s \in QuotaStores /\ now[p] \in Nat /\ now[p] <= time
      BY <1>1, CallFacts
  <2>2. \A i \in DOMAIN log[s] : i \notin kept => time - log[s][i].ts >= Window
      BY <2>1, DroppedIsOld
  <2>3. kept \subseteq rows[s]
      BY KeptAreRows
  <2> HIDE DEF s, kept
  <2> QED BY <1>1, <1>3, <2>1, <2>2, <2>3, AdmitsStep
<1> QED BY <1>2, <1>3 DEF Decides, OverRate

LEMMA LooksStep == ASSUME IInv, NEW p \in Procs, RedisLooks(p) PROVE IInv'
<1>1. /\ stage[p] = "asked" /\ store[p] = "redis" /\ UNCHANGED <<time, outage, store, viewed>>
      /\ rows' = [rows EXCEPT !["redis"] = KeptRows("redis", now[p])]
      /\ UNCHANGED log /\ UNCHANGED <<used, granted>>
    BY DEF RedisLooks, OverRate, Refuses, history
<1>2. "redis" \in QuotaStores /\ now[p] \in 0..MaxTime /\ now[p] <= time
    BY <1>1, CallFacts DEF QuotaStores, Shared
<1>3. LogOK("redis")' /\ rows' \in [QuotaStores -> SUBSET Nat]
    BY <1>1, <1>2, PruneOK DEF IInv
<1>4. \A z \in QuotaStores : LogOK(z)'
    BY <1>1, <1>3, LogFrame DEF IInv, QuotaTypeOK
<1>5. CASE Refuses(p)
    BY <1>1, <1>3, <1>4, <1>5, RefusesStep
<1>6. CASE stage' = [stage EXCEPT ![p] = "looked"] /\ UNCHANGED <<now, tokens>>
  <2>1. QuotaTypeOK'
      BY <1>1, <1>3, <1>6 DEF IInv, QuotaTypeOK
  <2>2. stage'[p] = "looked" /\ \A q \in Procs \ {p} : stage'[q] = stage[q]
      BY <1>6 DEF IInv, QuotaTypeOK
  <2>3. CallOK(p)'
      BY <1>1, <1>6, <2>2 DEF IInv, CallOK
  <2>4. ASSUME NEW q \in Procs \ {p} PROVE CallOK(q)'
      BY <1>1, <1>6, <2>2, CallFrame DEF IInv
  <2> QED BY <1>4, <2>1, <2>3, <2>4 DEF IInv
<1> QED BY <1>5, <1>6 DEF RedisLooks, OverRate

LEMMA LosesReplyStep == ASSUME IInv, NEW p \in Procs, RedisReplyLost(p) PROVE IInv'
<1>1. /\ stage[p] = "asked" /\ UNCHANGED <<time, outage, store, viewed>>
      /\ rows' = [rows EXCEPT !["redis"] = KeptRows("redis", now[p])]
      /\ Refuses(p) /\ UNCHANGED log
    BY DEF RedisReplyLost, Refuses
<1>2. "redis" \in QuotaStores /\ now[p] \in 0..MaxTime /\ now[p] <= time
    BY <1>1, CallFacts DEF QuotaStores, Shared
<1>3. LogOK("redis")' /\ rows' \in [QuotaStores -> SUBSET Nat]
    BY <1>1, <1>2, PruneOK DEF IInv
<1>4. \A z \in QuotaStores : LogOK(z)'
    BY <1>1, <1>3, LogFrame DEF IInv, QuotaTypeOK
<1> QED BY <1>1, <1>3, <1>4, RefusesStep

LEMMA AddsStep == ASSUME IInv, NEW p \in Procs, RedisAdds(p) PROVE IInv'
<1>1. /\ stage[p] # "idle" /\ UNCHANGED <<time, outage, store, viewed>>
      /\ IsEntered(p, "redis", rows["redis"]) /\ QuotaEnds(p) /\ "redis" \in QuotaStores
    BY DEF RedisAdds, QuotaStores, Shared
<1>2. \A i \in DOMAIN log["redis"] :
         i \notin rows["redis"] => time - log["redis"][i].ts >= Window
    BY <1>1 DEF IInv, LogOK
<1> QED BY <1>1, <1>2, AdmitsStep

LEMMA BreaksStep == ASSUME IInv, NEW p \in Procs, Breaks(p) PROVE IInv'
<1>1. Refuses(p) /\ UNCHANGED <<time, outage, store, viewed, rows, log>>
    BY DEF Breaks, Refuses
<1>2. \A z \in QuotaStores : LogOK(z)'
    BY <1>1, LogFrame DEF IInv
<1>3. rows' \in [QuotaStores -> SUBSET Nat]
    BY <1>1 DEF IInv, QuotaTypeOK
<1> QED BY <1>1, <1>2, <1>3, RefusesStep

LEMMA ViewAsksStep == ASSUME IInv, NEW p \in Procs, ViewAsks(p) PROVE IInv'
<1>1. PICK s \in Choice(p) : store' = [store EXCEPT ![p] = s]
    BY DEF ViewAsks
<1>2. s \in QuotaStores /\ store \in [Procs -> QuotaStores \cup {"none"}]
    BY ChoiceIsStore DEF IInv, QuotaTypeOK
<1>3. QuotaTypeOK'
    BY <1>1, <1>2 DEF ViewAsks, IInv, QuotaTypeOK, current, history
<1>4. ASSUME NEW z \in QuotaStores PROVE LogOK(z)'
    BY LogFrame DEF ViewAsks, IInv, history
<1>5. CallOK(p)'
  <2>1. store'[p] = s /\ viewed'[p] = time /\ time' = time /\ time <= time
        /\ stage' = stage /\ now' = now /\ tokens' = tokens
      BY <1>1, <1>2, KeyQuotaAssumption DEF ViewAsks, IInv, QuotaTypeOK, current
  <2>2. stage[p] = "looked" => s = "redis"
    <3>1. CASE store[p] = "none"
      <4>1. "redis" # "none"
          OBVIOUS
      <4> QED BY <3>1, <4>1 DEF IInv, CallOK
    <3>2. CASE store[p] # "none"
        BY <3>2 DEF IInv, CallOK, Choice
    <3> QED BY <3>1, <3>2
  <2> QED BY <1>2, <2>1, <2>2 DEF IInv, CallOK
<1>6. ASSUME NEW q \in Procs \ {p} PROVE CallOK(q)'
    BY <1>1, CallFrame DEF ViewAsks, IInv, QuotaTypeOK, current
<1> QED BY <1>3, <1>4, <1>5, <1>6 DEF IInv

LEMMA ViewsStep == ASSUME IInv, NEW p \in Procs, Views(p) PROVE IInv'
<1> DEFINE s == store[p]
<1>1. s \in QuotaStores /\ viewed[p] \in 0..MaxTime /\ viewed[p] <= time
    BY DEF Views, IInv, QuotaTypeOK, CallOK
<1>2. LogOK(s)' /\ rows' \in [QuotaStores -> SUBSET Nat]
    BY <1>1, PruneOK DEF Views, IInv, history
<1>3. ASSUME NEW z \in QuotaStores PROVE LogOK(z)'
    BY <1>2, LogFrame DEF Views, IInv, QuotaTypeOK, history
<1>4. used' \in [QuotaStores -> [QuotaDays -> Nat]]
    BY <1>1, RememberedType DEF Views, IInv, QuotaTypeOK
<1>5. QuotaTypeOK'
    BY <1>2, <1>4 DEF Views, IInv, QuotaTypeOK, current, history, NoTime
<1>6. ASSUME NEW q \in Procs PROVE CallOK(q)'
  <2>1. viewed'[q] = viewed[q] \/ viewed'[q] = NoTime
      BY DEF Views, IInv, QuotaTypeOK
  <2> QED BY <2>1 DEF Views, IInv, CallOK, current
<1> QED BY <1>3, <1>5, <1>6 DEF IInv

LEMMA ForgetsOK ==
    ASSUME IInv, NEW p \in Procs, Forgets(p), time' = time
    PROVE  /\ \A z \in QuotaStores : LogOK(z)'
           /\ log' \in [QuotaStores -> Seq([ts : 0..MaxTime, at : 0..MaxTime])]
           /\ rows' \in [QuotaStores -> SUBSET Nat]
           /\ used' \in [QuotaStores -> [QuotaDays -> Nat]]
           /\ granted' \in [QuotaStores -> [QuotaDays -> Nat]]
           /\ log'[p] = <<>>
           /\ \A z \in QuotaStores \ {p} : log'[z] = log[z] /\ granted'[z] = granted[z]
                                       /\ used'[z] = used[z]
<1>1. <<>> \in Seq([ts : 0..MaxTime, at : 0..MaxTime])
    OBVIOUS
<1>2. p \in QuotaStores
    BY DEF QuotaStores
<1>3. log' \in [QuotaStores -> Seq([ts : 0..MaxTime, at : 0..MaxTime])]
    BY <1>1 DEF Forgets, IInv, QuotaTypeOK
<1>4. LogOK(p)'
  <2>1. log'[p] = <<>> /\ rows'[p] = {}
      BY <1>2 DEF Forgets, IInv, QuotaTypeOK
  <2> QED BY <2>1 DEF LogOK
<1>5. ASSUME NEW z \in QuotaStores \ {p} PROVE LogOK(z)'
    BY LogFrame DEF Forgets, IInv, QuotaTypeOK
<1> QED BY <1>2, <1>3, <1>4, <1>5 DEF Forgets, IInv, QuotaTypeOK

LEMMA EvictsStep == ASSUME IInv, NEW p \in Procs, Evicts(p) PROVE IInv'
<1>1. QuotaTypeOK'
    BY ForgetsOK DEF Evicts, IInv, QuotaTypeOK, current
<1>2. ASSUME NEW q \in Procs PROVE CallOK(q)'
    BY CallFrame DEF Evicts, IInv, current
<1> QED BY <1>1, <1>2, ForgetsOK DEF Evicts, IInv

LEMMA RestartsStep == ASSUME IInv, NEW p \in Procs, Restarts(p) PROVE IInv'
<1>1. QuotaTypeOK'
    BY ForgetsOK, EndsOK DEF Restarts, IInv, QuotaTypeOK
<1>2. CallOK(p)'
    BY EndsOK DEF Restarts, IInv, QuotaTypeOK, CallOK
<1>3. ASSUME NEW q \in Procs \ {p} PROVE CallOK(q)'
    BY EndsOK, CallFrame DEF Restarts, IInv, QuotaTypeOK
<1> QED BY <1>1, <1>2, <1>3, ForgetsOK DEF Restarts, IInv

LEMMA TickStep == ASSUME IInv, QuotaTick PROVE IInv'
<1>1. time \in Nat /\ MaxTime \in Nat /\ Window \in Nat /\ MaxLag \in Nat
    BY KeyQuotaAssumption DEF IInv, QuotaTypeOK
<1>2. QuotaTypeOK'
  <2>1. time' \in 0..MaxTime
      BY <1>1 DEF QuotaTick
  <2>2. UNCHANGED <<outage, store, stage, now, tokens, viewed, rows, used, log, granted>>
      BY DEF QuotaTick, current, history
  <2> QED BY <2>1, <2>2 DEF IInv, QuotaTypeOK
<1>3. ASSUME NEW s \in QuotaStores PROVE LogOK(s)'
    BY <1>1, <1>3, LogEntries DEF QuotaTick, IInv, LogOK, history
<1>4. ASSUME NEW p \in Procs PROVE CallOK(p)'
  <2>1. now[p] \in Nat /\ viewed[p] \in Int
      BY KeyQuotaAssumption DEF IInv, QuotaTypeOK, NoTime
  <2> QED BY <1>1, <2>1 DEF QuotaTick, IInv, CallOK, current
<1> QED BY <1>2, <1>3, <1>4 DEF IInv

LEMMA InvStep == IInv /\ [QuotaNext]_quotaVars => IInv'
<1> SUFFICES ASSUME IInv, [QuotaNext]_quotaVars PROVE IInv'
    OBVIOUS
<1>1. CASE QuotaTick
    BY <1>1, TickStep
<1>2. ASSUME NEW p \in Procs,
             \/ ReadsClock(p) \/ Decides(p) \/ RedisLooks(p) \/ RedisReplyLost(p) \/ RedisAdds(p) \/ Breaks(p)
             \/ ViewAsks(p) \/ Views(p) \/ Evicts(p) \/ Restarts(p)
      PROVE  IInv'
    BY <1>2, AsksStep, DecidesStep, LooksStep, LosesReplyStep, AddsStep, BreaksStep, ViewAsksStep,
       ViewsStep, EvictsStep, RestartsStep
<1>3. CASE UNCHANGED quotaVars
    BY <1>3 DEF quotaVars, current, history, IInv, QuotaTypeOK, LogOK, CallOK
<1> QED BY <1>1, <1>2, <1>3 DEF QuotaNext

-----------------------------------------------------------------------------
(* The minute *)

LEMMA RecentIsInWindow ==
    ASSUME NEW c \in Nat, NEW first \in Nat, NEW at \in Nat, NEW ts \in Nat,
           NEW w \in Nat, NEW u \in Nat, c - first < w - u, first <= at, at - ts <= u
    PROVE  c - ts < w
    OBVIOUS

LEMMA LaterIsFresher ==
    ASSUME NEW c \in Nat, NEW first \in Nat, NEW at \in Nat,
           NEW w \in Nat, NEW u \in Nat, c - first < w - u, first <= at
    PROVE  c - at < w - u
    OBVIOUS

\* A store with fewer than Rpm calls left in its window has none of its last
\* Rpm admissions within the window less MaxLag: all of those are still kept.
LEMMA RoomMeansSpaced ==
    ASSUME IInv, NEW s \in QuotaStores, NEW t \in Nat, t <= time, time - t <= MaxLag,
           Cardinality(KeptRows(s, t)) < Rpm,
           NEW i \in DOMAIN log[s], i + Rpm = Len(log[s]) + 1
    PROVE  time - log[s][i].at >= Window - MaxLag
<1> DEFINE n == Len(log[s])
<1>1. /\ time \in Nat /\ Window \in Nat /\ MaxLag \in Nat /\ Rpm \in Nat
      /\ n \in Nat /\ DOMAIN log[s] = 1..n
      /\ \A j \in 1..n : log[s][j].ts \in Nat /\ log[s][j].at \in Nat
    BY Numbers, LogEntries DEF IInv
<1>0. i \in 1..n /\ i \in Nat /\ n - i + 1 = Rpm /\ i <= n
  <2>1. Rpm > 0 /\ i \in 1..n
      BY <1>1, Numbers DEF IInv
  <2> QED BY <1>1, <2>1
<1> HIDE DEF n
<1>2. SUFFICES ASSUME time - log[s][i].at < Window - MaxLag PROVE FALSE
    BY <1>1
<1>3. i..n \subseteq KeptRows(s, t)
  <2>1. SUFFICES ASSUME NEW j \in i..n PROVE j \in KeptRows(s, t)
      OBVIOUS
  <2>2. j \in 1..n /\ i \in 1..n /\ i <= j
      BY <1>0, <1>1
  <2>3. log[s][i].at <= log[s][j].at /\ log[s][j].at - log[s][j].ts <= MaxLag
      BY <1>1, <2>2 DEF IInv, LogOK
  <2>4. time - log[s][j].ts < Window
    <3>1. /\ log[s][i].at \in Nat /\ log[s][j].at \in Nat /\ log[s][j].ts \in Nat
          /\ time \in Nat /\ Window \in Nat /\ MaxLag \in Nat
        BY <1>1, <2>2
    <3> QED BY <1>2, <2>3, <3>1, RecentIsInWindow
  <2> QED BY <1>1, <2>2, <2>4, DroppedIsOld
<1>4. Cardinality(i..n) = Rpm /\ IsFiniteSet(i..n)
  <2>1. i \in Int /\ n \in Int /\ ~(i > n)
      BY <1>0, <1>1
  <2> QED BY <1>0, <2>1, FS_Interval
<1>5. IsFiniteSet(KeptRows(s, t))
  <2>1. KeptRows(s, t) \subseteq 1..n
      BY <1>1, KeptAreRows DEF IInv, LogOK
  <2>2. IsFiniteSet(1..n)
    <3>1. 1 \in Int /\ n \in Int
        BY <1>1
    <3> QED BY <3>1, FS_Interval
  <2> QED BY <2>1, <2>2, FS_Subset
<1>6. Cardinality(i..n) <= Cardinality(KeptRows(s, t)) /\ Cardinality(KeptRows(s, t)) \in Nat
    BY <1>3, <1>5, FS_Subset, FS_CardinalityType
<1> QED BY <1>1, <1>4, <1>6

LEMMA SpacedStep == IInv /\ MinuteHolds /\ [QuotaNext]_quotaVars => MinuteHolds'
<1> SUFFICES ASSUME IInv, MinuteHolds, [QuotaNext]_quotaVars, NEW s \in QuotaStores \ {"redis"}
             PROVE  Spaced(s, 0)'
    BY DEF MinuteHolds
<1> USE DEF history, current
<1>1. Spaced(s, 0)
    BY DEF MinuteHolds
<1>2. CASE log'[s] = log[s]
    BY <1>1, <1>2 DEF Spaced
<1>3. CASE log'[s] = <<>>
    BY <1>3 DEF Spaced
<1>4. ASSUME NEW p \in Procs, Decides(p), log'[s] # log[s] PROVE Spaced(s, 0)'
  <2> DEFINE n == Len(log[s])
  <2>1. stage[p] # "idle" /\ time' = time
      BY <1>4 DEF Decides
  <2>2. IsEntered(p, store[p], KeptRows(store[p], now[p])) /\ Cardinality(KeptRows(store[p], now[p])) < Rpm
      BY <1>4 DEF Decides, OverRate, Refuses
  <2>3. store[p] = s
      BY <1>4, <2>2 DEF IsEntered, IInv, QuotaTypeOK
  <2>4. log'[s] = Append(log[s], [ts |-> now[p], at |-> time])
      BY <2>2, <2>3 DEF IsEntered, IInv, QuotaTypeOK
  <2>5. now[p] \in Nat /\ now[p] <= time /\ time - now[p] <= MaxLag
      BY <2>1, CallFacts DEF IInv, CallOK
  <2>6. /\ n \in Nat /\ Rpm \in Nat \ {0} /\ log[s] \in Seq(Entry) /\ DOMAIN log[s] = 1..n
        /\ time \in Nat
      BY Numbers, LogEntries DEF IInv
  <2>7. /\ DOMAIN log'[s] = 1..(n + 1)
        /\ log'[s][n + 1].at = time
        /\ \A i \in 1..n : log'[s][i] = log[s][i]
      BY <2>4, <2>6
  <2>8. ASSUME NEW i \in 1..(n + 1), i + Rpm + 0 \in 1..(n + 1)
        PROVE  log'[s][i + Rpm + 0].at - log'[s][i].at >= Window - MaxLag
    <3>1. i \in 1..n /\ i + Rpm + 0 = i + Rpm
        BY <2>6, <2>8
    <3>2. CASE i + Rpm \in 1..n
        BY <1>1, <2>6, <2>7, <3>1, <3>2 DEF Spaced
    <3>3. CASE i + Rpm = n + 1
      <4>1. time - log[s][i].at >= Window - MaxLag
          BY <2>2, <2>3, <2>5, <2>6, <3>1, <3>3, RoomMeansSpaced
      <4> QED BY <2>7, <3>1, <3>3, <4>1
    <3> QED BY <2>6, <2>8, <3>1, <3>2, <3>3
  <2> HIDE DEF n
  <2> QED BY <2>7, <2>8 DEF Spaced
<1>5. ASSUME NEW p \in Procs, RedisLooks(p) \/ RedisReplyLost(p) \/ Breaks(p) PROVE log'[s] = log[s]
    BY <1>5 DEF RedisLooks, OverRate, RedisReplyLost, Breaks, Refuses
<1>6. ASSUME NEW p \in Procs, RedisAdds(p) PROVE log'[s] = log[s]
    BY <1>6 DEF RedisAdds, IsEntered, IInv, QuotaTypeOK
<1>7. ASSUME NEW p \in Procs, ReadsClock(p) \/ ViewAsks(p) \/ Views(p) PROVE log'[s] = log[s]
    BY <1>7 DEF ReadsClock, ViewAsks, Views
<1>8. ASSUME NEW p \in Procs, Evicts(p) \/ Restarts(p) PROVE log'[s] = log[s] \/ log'[s] = <<>>
    BY <1>8 DEF Evicts, Restarts, Forgets, IInv, QuotaTypeOK
<1>9. CASE QuotaTick \/ UNCHANGED quotaVars
    BY <1>2, <1>9 DEF QuotaTick, quotaVars
<1> QED BY <1>2, <1>3, <1>4, <1>5, <1>6, <1>7, <1>8, <1>9 DEF QuotaNext

-----------------------------------------------------------------------------
(* The day *)

\* SQLite counts what it grants, and stays within the quota.
DayInv ==
    /\ granted["sqlite"] = used["sqlite"]
    /\ DailyHolds

LEMMA QuotaDayStep == IInv /\ DayInv /\ [QuotaNext]_quotaVars => DayInv'
<1> SUFFICES ASSUME IInv, DayInv, [QuotaNext]_quotaVars PROVE DayInv'
    OBVIOUS
<1> USE DEF history, current
<1>1. "sqlite" \in QuotaStores /\ "sqlite" \in Shared /\ \A p \in Procs : p # "sqlite"
    BY KeyQuotaAssumption DEF QuotaStores, Shared
<1>2. CASE granted'["sqlite"] = granted["sqlite"] /\ used'["sqlite"] = used["sqlite"]
    BY <1>2 DEF DayInv, DailyHolds
<1>3. ASSUME NEW p \in Procs, Decides(p) PROVE DayInv'
  <2>1. CASE Refuses(p)
      BY <1>2, <2>1 DEF Refuses
  <2> DEFINE d == Day(now[p])
  <2>2. CASE IsEntered(p, store[p], KeptRows(store[p], now[p])) /\ ~OverDay(store[p], now[p], tokens[p])
    <3>1. CASE store[p] # "sqlite"
        BY <1>1, <1>2, <2>2, <3>1 DEF IsEntered, IInv, QuotaTypeOK
    <3>2. CASE store[p] = "sqlite"
      <4>1. d \in QuotaDays /\ tokens[p] \in Nat
        <5>1. stage[p] # "idle"
            BY <1>3 DEF Decides
        <5> QED BY <5>1, CallFacts, DayOfTime, KeyQuotaAssumption DEF IInv, CallOK
      <4>2. used["sqlite"] \in [QuotaDays -> Nat] /\ granted["sqlite"] \in [QuotaDays -> Nat]
          BY <1>1 DEF IInv, QuotaTypeOK
      <4>3. used'["sqlite"] = [used["sqlite"] EXCEPT ![d] = @ + tokens[p]]
          BY <1>1, <2>2, <3>2 DEF IsEntered, DayRemembered, IInv, QuotaTypeOK
      <4>4. granted'["sqlite"] = [granted["sqlite"] EXCEPT ![d] = @ + tokens[p]]
          BY <1>1, <2>2, <3>2 DEF IsEntered, IInv, QuotaTypeOK
      <4>5. Daily > 0 => used["sqlite"][d] + tokens[p] <= Daily
        <5>1. used["sqlite"][d] \in Nat /\ Daily \in Nat
            BY <4>1, <4>2, KeyQuotaAssumption
        <5> QED BY <2>2, <3>2, <4>1, <5>1 DEF OverDay
      <4>6. ASSUME Daily > 0, NEW x \in QuotaDays PROVE granted'["sqlite"][x] <= Daily
          BY <4>1, <4>2, <4>4, <4>5, <4>6 DEF DayInv, DailyHolds
      <4> QED BY <4>3, <4>4, <4>6 DEF DayInv, DailyHolds
    <3> QED BY <3>1, <3>2
  <2> QED BY <1>3, <2>1, <2>2 DEF Decides, OverRate
<1>4. ASSUME NEW p \in Procs, RedisLooks(p) \/ RedisReplyLost(p) \/ Breaks(p) PROVE DayInv'
    BY <1>2, <1>4 DEF RedisLooks, OverRate, RedisReplyLost, Breaks, Refuses
<1>5. ASSUME NEW p \in Procs, RedisAdds(p) PROVE DayInv'
    BY <1>1, <1>2, <1>5 DEF RedisAdds, IsEntered, IInv, QuotaTypeOK
<1>6. ASSUME NEW p \in Procs, ReadsClock(p) \/ ViewAsks(p) PROVE DayInv'
    BY <1>2, <1>6 DEF ReadsClock, ViewAsks
<1>7. ASSUME NEW p \in Procs, Views(p) PROVE DayInv'
    BY <1>1, <1>2, <1>7 DEF Views, DayRemembered, IInv, QuotaTypeOK
<1>8. ASSUME NEW p \in Procs, Evicts(p) \/ Restarts(p) PROVE DayInv'
    BY <1>1, <1>2, <1>8, ForgetsOK DEF Evicts, Restarts
<1>9. CASE QuotaTick \/ UNCHANGED quotaVars
    BY <1>2, <1>9 DEF QuotaTick, quotaVars
<1> QED BY <1>3, <1>4, <1>5, <1>6, <1>7, <1>8, <1>9 DEF QuotaNext

LEMMA InitLimits == QuotaInit => MinuteHolds /\ DayInv
<1> SUFFICES ASSUME QuotaInit PROVE MinuteHolds /\ DayInv
    OBVIOUS
<1>1. MinuteHolds
    BY DEF QuotaInit, MinuteHolds, Spaced
<1>2. DayInv
    BY KeyQuotaAssumption DEF QuotaInit, DayInv, DailyHolds, QuotaStores, Shared
<1> QED BY <1>1, <1>2

-----------------------------------------------------------------------------
(* Redis: look first, add later *)

\* The calls Redis has admitted within the window less MaxLag, and the processes
\* that have looked and are about to add.
Recent == {i \in DOMAIN log["redis"] : time - log["redis"][i].at < Window - MaxLag}
Looked == {p \in Procs : stage[p] = "looked"}

\* A process that looks finds room for one more; all the others may have found
\* the same room.
RoomInv == Cardinality(Recent) + Cardinality(Looked) <= Rpm + Cardinality(Procs) - 1

LEMMA LookedIsFinite ==
    /\ IsFiniteSet(Looked) /\ Cardinality(Looked) \in Nat
    /\ Cardinality(Looked) <= Cardinality(Procs) /\ Cardinality(Procs) \in Nat
<1>1. Looked \subseteq Procs /\ IsFiniteSet(Procs)
    BY KeyQuotaAssumption DEF Looked
<1> QED BY <1>1, FS_Subset, FS_CardinalityType

LEMMA RecentIsFinite ==
    ASSUME IInv
    PROVE  IsFiniteSet(Recent) /\ Cardinality(Recent) \in Nat /\ Recent \subseteq DOMAIN log["redis"]
<1>1. "redis" \in QuotaStores
    BY DEF QuotaStores, Shared
<1>2. DOMAIN log["redis"] = 1..Len(log["redis"]) /\ Len(log["redis"]) \in Nat
    BY <1>1, LogEntries DEF IInv
<1>3. IsFiniteSet(DOMAIN log["redis"])
    BY <1>2, FS_Interval
<1>4. Recent \subseteq DOMAIN log["redis"]
    BY DEF Recent
<1> QED BY <1>3, <1>4, FS_Subset, FS_CardinalityType

\* What a process leaves when it looks includes every fresh call.
LEMMA RecentIsKept ==
    ASSUME IInv, NEW t \in Nat, t <= time
    PROVE  Recent \subseteq KeptRows("redis", t)
<1>1. SUFFICES ASSUME NEW i \in Recent PROVE i \in KeptRows("redis", t)
    OBVIOUS
<1>2. "redis" \in QuotaStores
    BY DEF QuotaStores, Shared
<1>3. i \in DOMAIN log["redis"] /\ time - log["redis"][i].at < Window - MaxLag
    BY <1>1 DEF Recent
<1>4. /\ log["redis"][i].at \in Nat /\ log["redis"][i].ts \in Nat
      /\ time \in Nat /\ Window \in Nat /\ MaxLag \in Nat
    BY <1>2, <1>3, LogEntries, Numbers DEF IInv
<1>5. log["redis"][i].at - log["redis"][i].ts <= MaxLag
    BY <1>2, <1>3 DEF IInv, LogOK
<1>6. time - log["redis"][i].ts < Window
    BY <1>3, <1>4, <1>5
<1> QED BY <1>2, <1>3, <1>4, <1>6, DroppedIsOld

\* A set of calls is finite and no larger than the rows it is part of.
LEMMA KeptIsFinite ==
    ASSUME IInv, NEW s \in QuotaStores, NEW t
    PROVE  /\ IsFiniteSet(KeptRows(s, t)) /\ Cardinality(KeptRows(s, t)) \in Nat
           /\ KeptRows(s, t) \subseteq DOMAIN log[s] /\ IsFiniteSet(DOMAIN log[s])
<1>1. KeptRows(s, t) \subseteq DOMAIN log[s]
    BY KeptAreRows DEF IInv, LogOK
<1>2. DOMAIN log[s] = 1..Len(log[s]) /\ Len(log[s]) \in Nat
    BY LogEntries DEF IInv
<1>3. IsFiniteSet(DOMAIN log[s])
    BY <1>2, FS_Interval
<1> QED BY <1>1, <1>3, FS_Subset, FS_CardinalityType

\* No call is added, and nobody but perhaps the one who looks has looked.
LEMMA RoomShrinks ==
    ASSUME IInv, RoomInv, Recent' \subseteq Recent, Looked' \subseteq Looked
    PROVE  RoomInv'
<1>1. Cardinality(Recent') <= Cardinality(Recent) /\ Cardinality(Recent') \in Nat
    BY RecentIsFinite, FS_Subset, FS_CardinalityType
<1>2. Cardinality(Looked') <= Cardinality(Looked) /\ Cardinality(Looked') \in Nat
    BY LookedIsFinite, FS_Subset, FS_CardinalityType
<1>3. /\ Cardinality(Recent) \in Nat /\ Cardinality(Looked) \in Nat
      /\ Cardinality(Procs) \in Nat /\ Rpm \in Nat
    BY RecentIsFinite, LookedIsFinite, Numbers DEF IInv
<1> QED BY <1>1, <1>2, <1>3 DEF RoomInv

LEMMA RecentFrame ==
    ASSUME log'["redis"] = log["redis"], time' = time PROVE Recent' = Recent
    BY DEF Recent

LEMMA EndsLooksNoMore ==
    ASSUME QuotaTypeOK, NEW p \in Procs, QuotaEnds(p)
    PROVE  Looked' = Looked \ {p}
    BY DEF QuotaEnds, Looked, QuotaTypeOK

LEMMA RoomAdds == ASSUME IInv, RoomInv, NEW p \in Procs, RedisAdds(p) PROVE RoomInv'
<1> DEFINE n == Len(log["redis"])
<1>1. stage[p] = "looked" /\ IsEntered(p, "redis", rows["redis"]) /\ QuotaEnds(p) /\ time' = time
    BY DEF RedisAdds
<1>2. "redis" \in QuotaStores
    BY DEF QuotaStores, Shared
<1>3. /\ n \in Nat /\ log["redis"] \in Seq(Entry) /\ DOMAIN log["redis"] = 1..n
      /\ log'["redis"] = Append(log["redis"], [ts |-> now[p], at |-> time])
    BY <1>1, <1>2, LogEntries DEF IsEntered, IInv, QuotaTypeOK
<1>4. Recent' \subseteq Recent \cup {n + 1}
  <2>1. /\ DOMAIN log'["redis"] = 1..(n + 1)
        /\ \A i \in 1..n : log'["redis"][i] = log["redis"][i]
      BY <1>3
  <2> QED BY <1>1, <1>3, <2>1 DEF Recent
<1>5. /\ IsFiniteSet(Recent \cup {n + 1})
      /\ Cardinality(Recent \cup {n + 1}) <= Cardinality(Recent) + 1
  <2>1. IsFiniteSet(Recent) /\ Cardinality(Recent) \in Nat
      BY RecentIsFinite
  <2> HIDE DEF n
  <2>2. /\ IsFiniteSet(Recent \cup {n + 1})
        /\ \/ Cardinality(Recent \cup {n + 1}) = Cardinality(Recent)
           \/ Cardinality(Recent \cup {n + 1}) = Cardinality(Recent) + 1
      BY <2>1, FS_AddElement
  <2> QED BY <2>1, <2>2
<1>6. Cardinality(Recent') <= Cardinality(Recent) + 1 /\ Cardinality(Recent') \in Nat
  <2>1. /\ Cardinality(Recent') <= Cardinality(Recent \cup {n + 1})
        /\ Cardinality(Recent') \in Nat /\ Cardinality(Recent \cup {n + 1}) \in Nat
      BY <1>4, <1>5, FS_Subset, FS_CardinalityType
  <2> QED BY <1>5, <2>1, RecentIsFinite
<1>7. Looked' = Looked \ {p} /\ p \in Looked
    BY <1>1, EndsLooksNoMore DEF IInv, Looked
<1>8. Cardinality(Looked') = Cardinality(Looked) - 1
    BY <1>7, LookedIsFinite, FS_RemoveElement
<1>9. /\ Cardinality(Recent) \in Nat /\ Cardinality(Looked) \in Nat
      /\ Cardinality(Procs) \in Nat /\ Rpm \in Nat
    BY RecentIsFinite, LookedIsFinite, Numbers DEF IInv
<1> QED BY <1>6, <1>8, <1>9 DEF RoomInv

LEMMA RoomLooks == ASSUME IInv, RoomInv, NEW p \in Procs, RedisLooks(p) PROVE RoomInv'
<1>1. /\ stage[p] = "asked" /\ store[p] = "redis" /\ UNCHANGED <<time, log>>
      /\ Refuses(p) \/ Cardinality(KeptRows("redis", now[p])) < Rpm
    BY DEF RedisLooks, OverRate, Refuses, history
<1>2. Recent' = Recent
    BY <1>1, RecentFrame
<1>3. CASE Refuses(p)
    BY <1>2, <1>3, RoomShrinks, EndsLooksNoMore DEF Refuses, IInv
<1>4. CASE Cardinality(KeptRows("redis", now[p])) < Rpm
  <2>1. now[p] \in Nat /\ now[p] <= time /\ "redis" \in QuotaStores
      BY <1>1, CallFacts DEF QuotaStores, Shared
  <2>2. Cardinality(Recent) <= Cardinality(KeptRows("redis", now[p]))
      BY <2>1, RecentIsKept, KeptIsFinite, FS_Subset
  <2>3. Cardinality(Looked') <= Cardinality(Procs) /\ Cardinality(Looked') \in Nat
    <3>1. Looked' \subseteq Procs /\ IsFiniteSet(Procs)
        BY KeyQuotaAssumption DEF Looked
    <3> QED BY <3>1, FS_Subset, FS_CardinalityType
  <2>4. /\ Cardinality(Recent) \in Nat /\ Cardinality(KeptRows("redis", now[p])) \in Nat
        /\ Cardinality(Procs) \in Nat /\ Rpm \in Nat
      BY <2>1, RecentIsFinite, KeptIsFinite, LookedIsFinite, Numbers DEF IInv
  <2> QED BY <1>2, <1>4, <2>2, <2>3, <2>4 DEF RoomInv
<1> QED BY <1>1, <1>3, <1>4

LEMMA RoomTick == ASSUME IInv, RoomInv, QuotaTick PROVE RoomInv'
<1>1. time \in Nat /\ Window \in Nat /\ MaxLag \in Nat /\ "redis" \in QuotaStores
    BY Numbers DEF IInv, QuotaStores, Shared
<1>2. \A i \in DOMAIN log["redis"] : log["redis"][i].at \in Nat
    BY <1>1, LogEntries DEF IInv
<1>3. Recent' \subseteq Recent
    BY <1>1, <1>2 DEF QuotaTick, Recent, history
<1>4. Looked' = Looked
    BY DEF QuotaTick, Looked, current
<1> QED BY <1>3, <1>4, RoomShrinks

LEMMA RoomStep == IInv /\ RoomInv /\ [QuotaNext]_quotaVars => RoomInv'
<1> SUFFICES ASSUME IInv, RoomInv, [QuotaNext]_quotaVars PROVE RoomInv'
    OBVIOUS
<1> USE DEF history, current
<1>1. "redis" \in QuotaStores /\ \A p \in Procs : p # "redis"
    BY KeyQuotaAssumption DEF QuotaStores, Shared
<1>2. ASSUME log'["redis"] = log["redis"], time' = time, Looked' \subseteq Looked
      PROVE  RoomInv'
    BY <1>2, RecentFrame, RoomShrinks
<1>3. ASSUME NEW p \in Procs, ReadsClock(p) PROVE RoomInv'
  <2>1. Looked' \subseteq Looked
      BY <1>3 DEF ReadsClock, Looked, IInv, QuotaTypeOK
  <2> QED BY <1>2, <1>3, <2>1 DEF ReadsClock
<1>4. ASSUME NEW p \in Procs, Decides(p) PROVE RoomInv'
  <2>1. QuotaEnds(p) /\ time' = time /\ log'["redis"] = log["redis"]
      BY <1>1, <1>4 DEF Decides, OverRate, Refuses, IsEntered, IInv, QuotaTypeOK
  <2> QED BY <1>2, <2>1, EndsLooksNoMore DEF IInv
<1>5. ASSUME NEW p \in Procs, RedisReplyLost(p) \/ Breaks(p) PROVE RoomInv'
    BY <1>2, <1>5, EndsLooksNoMore DEF RedisReplyLost, Breaks, Refuses, IInv
<1>6. ASSUME NEW p \in Procs, ViewAsks(p) \/ Views(p) PROVE RoomInv'
    BY <1>2, <1>6 DEF ViewAsks, Views, Looked
<1>7. ASSUME NEW p \in Procs, Evicts(p) PROVE RoomInv'
    BY <1>1, <1>2, <1>7, ForgetsOK DEF Evicts, Looked
<1>8. ASSUME NEW p \in Procs, Restarts(p) PROVE RoomInv'
    BY <1>1, <1>2, <1>8, ForgetsOK, EndsLooksNoMore DEF Restarts, IInv
<1>9. CASE UNCHANGED quotaVars
    BY <1>2, <1>9 DEF quotaVars, Looked
<1> QED BY <1>3, <1>4, <1>5, <1>6, <1>7, <1>8, <1>9, RoomTick, RoomLooks, RoomAdds DEF QuotaNext

LEMMA RoomInit == QuotaInit => RoomInv
<1> SUFFICES ASSUME QuotaInit PROVE RoomInv
    OBVIOUS
<1>1. Recent = {} /\ Looked = {}
    BY DEF QuotaInit, Recent, Looked, QuotaStores, Shared
<1>2. Cardinality(Recent) = 0 /\ Cardinality(Looked) = 0
    BY <1>1, FS_EmptySet
<1>3. Rpm \in Nat \ {0} /\ Cardinality(Procs) \in Nat
    BY KeyQuotaAssumption, LookedIsFinite
<1> QED BY <1>2, <1>3 DEF RoomInv

\* A call is added when it leaves Rpm + Cardinality(Procs) - 2 fresh ones at
\* most, so the one that far back is not fresh any more.
LEMMA OvershootAdds ==
    ASSUME IInv, RoomInv, NEW p \in Procs, RedisAdds(p),
           NEW i \in DOMAIN log["redis"],
           i + Rpm + (Cardinality(Procs) - 1) = Len(log["redis"]) + 1
    PROVE  time - log["redis"][i].at >= Window - MaxLag
<1> DEFINE n == Len(log["redis"])
<1>1. "redis" \in QuotaStores
    BY DEF QuotaStores, Shared
<1>2. /\ time \in Nat /\ Window \in Nat /\ MaxLag \in Nat /\ Rpm \in Nat
      /\ Cardinality(Procs) \in Nat
      /\ n \in Nat /\ DOMAIN log["redis"] = 1..n
      /\ \A j \in 1..n : log["redis"][j].at \in Nat
    BY <1>1, Numbers, LogEntries, LookedIsFinite DEF IInv
<1>3. i \in 1..n /\ n - i + 1 = Rpm + Cardinality(Procs) - 1
    BY <1>2
<1> HIDE DEF n
<1>4. SUFFICES ASSUME time - log["redis"][i].at < Window - MaxLag PROVE FALSE
    BY <1>2, <1>3
<1>5. i..n \subseteq Recent
  <2>1. SUFFICES ASSUME NEW j \in i..n PROVE j \in Recent
      OBVIOUS
  <2>2. j \in 1..n /\ i <= j
      BY <1>2, <1>3
  <2>3. log["redis"][i].at <= log["redis"][j].at
      BY <1>1, <1>2, <1>3, <2>2 DEF IInv, LogOK
  <2>4. time - log["redis"][j].at < Window - MaxLag
    <3>1. /\ log["redis"][i].at \in Nat /\ log["redis"][j].at \in Nat
          /\ time \in Nat /\ Window \in Nat /\ MaxLag \in Nat
        BY <1>2, <1>3, <2>2
    <3> QED BY <1>4, <2>3, <3>1, LaterIsFresher
  <2> QED BY <1>2, <2>2, <2>4 DEF Recent
<1>6. Cardinality(i..n) = n - i + 1
  <2>1. i \in Int /\ n \in Int /\ ~(i > n)
      BY <1>2, <1>3
  <2> QED BY <2>1, FS_Interval
<1>7. Cardinality(i..n) <= Cardinality(Recent) /\ Cardinality(Recent) \in Nat
    BY <1>5, RecentIsFinite, FS_Subset
<1>8. Cardinality(Looked) \in Nat /\ Cardinality(Looked) # 0
  <2>1. p \in Looked
      BY DEF RedisAdds, Looked
  <2> QED BY <2>1, LookedIsFinite, FS_EmptySet
<1> QED BY <1>2, <1>3, <1>6, <1>7, <1>8 DEF RoomInv

LEMMA OvershootStep == IInv /\ RoomInv /\ RedisOvershoot /\ [QuotaNext]_quotaVars => RedisOvershoot'
<1> SUFFICES ASSUME IInv, RoomInv, RedisOvershoot, [QuotaNext]_quotaVars PROVE RedisOvershoot'
    OBVIOUS
<1> USE DEF history, current
<1>1. "redis" \in QuotaStores /\ \A p \in Procs : p # "redis"
    BY KeyQuotaAssumption DEF QuotaStores, Shared
<1>2. CASE log'["redis"] = log["redis"]
    BY <1>2 DEF RedisOvershoot, Spaced
<1>3. ASSUME NEW p \in Procs, RedisAdds(p) PROVE RedisOvershoot'
  <2> DEFINE n == Len(log["redis"])  m == Cardinality(Procs) - 1
  <2>1. /\ n \in Nat /\ log["redis"] \in Seq(Entry) /\ DOMAIN log["redis"] = 1..n
        /\ Rpm \in Nat \ {0} /\ Cardinality(Procs) \in Nat /\ m \in Int
      BY <1>1, Numbers, LogEntries, LookedIsFinite DEF IInv
  <2>2. Cardinality(Procs) # 0
      BY KeyQuotaAssumption, FS_EmptySet
  <2>3. log'["redis"] = Append(log["redis"], [ts |-> now[p], at |-> time])
      BY <1>1, <1>3 DEF RedisAdds, IsEntered, IInv, QuotaTypeOK
  <2>4. /\ DOMAIN log'["redis"] = 1..(n + 1)
        /\ log'["redis"][n + 1].at = time
        /\ \A i \in 1..n : log'["redis"][i] = log["redis"][i]
      BY <2>1, <2>3
  <2>5. ASSUME NEW i \in 1..(n + 1), i + Rpm + m \in 1..(n + 1)
        PROVE  log'["redis"][i + Rpm + m].at - log'["redis"][i].at >= Window - MaxLag
    <3>1. i \in 1..n
        BY <2>1, <2>2, <2>5
    <3>2. CASE i + Rpm + m \in 1..n
        BY <2>1, <2>4, <3>1, <3>2 DEF RedisOvershoot, Spaced
    <3>3. CASE i + Rpm + m = n + 1
      <4>1. time - log["redis"][i].at >= Window - MaxLag
          BY <1>3, <2>1, <3>1, <3>3, OvershootAdds
      <4> QED BY <2>4, <3>1, <3>3, <4>1
    <3> QED BY <2>1, <2>5, <3>2, <3>3
  <2> HIDE DEF n
  <2> QED BY <2>4, <2>5 DEF RedisOvershoot, Spaced
<1>4. ASSUME NEW p \in Procs, Decides(p) PROVE log'["redis"] = log["redis"]
    BY <1>1, <1>4 DEF Decides, OverRate, Refuses, IsEntered, IInv, QuotaTypeOK
<1>5. ASSUME NEW p \in Procs, RedisLooks(p) \/ RedisReplyLost(p) \/ Breaks(p)
      PROVE  log'["redis"] = log["redis"]
    BY <1>5 DEF RedisLooks, OverRate, RedisReplyLost, Breaks, Refuses
<1>6. ASSUME NEW p \in Procs, ReadsClock(p) \/ ViewAsks(p) \/ Views(p)
      PROVE  log'["redis"] = log["redis"]
    BY <1>6 DEF ReadsClock, ViewAsks, Views
<1>7. ASSUME NEW p \in Procs, Evicts(p) \/ Restarts(p) PROVE log'["redis"] = log["redis"]
    BY <1>1, <1>7, ForgetsOK DEF Evicts, Restarts
<1>8. CASE QuotaTick \/ UNCHANGED quotaVars
    BY <1>2, <1>8 DEF QuotaTick, quotaVars
<1> QED BY <1>2, <1>3, <1>4, <1>5, <1>6, <1>7, <1>8 DEF QuotaNext

LEMMA OvershootInit == QuotaInit => RedisOvershoot
    BY DEF QuotaInit, RedisOvershoot, Spaced, QuotaStores, Shared

-----------------------------------------------------------------------------
(* Refusals *)

\* The calls a store keeps were admitted within the window and the delay of
\* the call that counts them.
LEMMA KeptAreRecent ==
    ASSUME IInv, NEW p \in Procs, stage[p] # "idle"
    PROVE  KeptRows(store[p], now[p])
             \subseteq {i \in DOMAIN log[store[p]] :
                           time - log[store[p]][i].at <= Window + MaxLag}
<1> DEFINE s == store[p]
<1>1. s \in QuotaStores /\ now[p] \in Nat /\ time - now[p] <= MaxLag
    BY CallFacts DEF IInv, CallOK
<1> HIDE DEF s
<1>2. SUFFICES ASSUME NEW i \in KeptRows(s, now[p])
               PROVE  i \in DOMAIN log[s] /\ time - log[s][i].at <= Window + MaxLag
    BY DEF s
<1>3. i \in DOMAIN log[s] /\ ~Outdated(s, log[s][i].ts, now[p])
    BY <1>1, KeptIsFinite DEF KeptRows
<1>4. /\ log[s][i].at \in Nat /\ log[s][i].ts \in Nat
      /\ time \in Nat /\ Window \in Nat /\ MaxLag \in Nat
    BY <1>1, <1>3, LogEntries, Numbers DEF IInv
<1>5. now[p] - log[s][i].ts <= Window
    BY <1>1, <1>3, <1>4 DEF Outdated
<1>6. log[s][i].ts <= log[s][i].at
    BY <1>1, <1>3 DEF IInv, LogOK
<1> QED BY <1>1, <1>3, <1>4, <1>5, <1>6

LEMMA RefusalStep ==
    ASSUME IInv, NEW p \in Procs, stage[p] = "asked", OverRate(p)
    PROVE  Cardinality({i \in DOMAIN log[store[p]] :
                           time - log[store[p]][i].at <= Window + MaxLag}) >= Rpm
<1> DEFINE s == store[p]
           recent == {i \in DOMAIN log[s] : time - log[s][i].at <= Window + MaxLag}
<1>1. s \in QuotaStores
    BY CallFacts
<1>2. KeptRows(s, now[p]) \subseteq recent /\ recent \subseteq DOMAIN log[s]
    BY KeptAreRecent
<1>3. IsFiniteSet(recent) /\ Cardinality(recent) \in Nat
    BY <1>1, <1>2, KeptIsFinite, FS_Subset, FS_CardinalityType
<1>4. Cardinality(KeptRows(s, now[p])) <= Cardinality(recent) /\ Cardinality(KeptRows(s, now[p])) \in Nat
    BY <1>1, <1>2, <1>3, KeptIsFinite, FS_Subset
<1>5. Cardinality(KeptRows(s, now[p])) >= Rpm /\ Rpm \in Nat
    BY Numbers DEF OverRate, IInv
<1> QED BY <1>3, <1>4, <1>5

-----------------------------------------------------------------------------

LEMMA Inductive == QuotaSpec => []IInv
<1> QED BY InitHolds, InvStep, PTL DEF QuotaSpec

\* Every store, clock and counter keeps its type (key_quota.py).
THEOREM TypeCorrect == QuotaSpec => []QuotaTypeOK
<1>1. IInv => QuotaTypeOK
    BY DEF IInv
<1> QED BY <1>1, Inductive, PTL

\* SQLite and memory never admit more than Rpm calls of a key within the
\* window, less the time a call may lag behind its time stamp, whatever the
\* order calls and usage() reach them in (key_quota.py:48-77, 148-196).
THEOREM MinuteIsKept == QuotaSpec => []MinuteHolds
<1> QED BY InitLimits, SpacedStep, Inductive, PTL DEF QuotaSpec

\* No day's tokens pass the quota in SQLite (key_quota.py:170-190).
THEOREM DayIsKept == QuotaSpec => []DailyHolds
<1>1. DayInv => DailyHolds
    BY DEF DayInv
<1> QED BY <1>1, InitLimits, QuotaDayStep, Inductive, PTL DEF QuotaSpec

\* Redis goes past the limit by one call for each other process, no more,
\* however the looks and the additions of the processes interleave
\* (key_quota.py:251-270).
THEOREM RedisIsBounded == QuotaSpec => []RedisOvershoot
<1>1. QuotaInit => RoomInv /\ RedisOvershoot
    BY RoomInit, OvershootInit
<1>2. IInv /\ RoomInv /\ RedisOvershoot /\ [QuotaNext]_quotaVars => RoomInv' /\ RedisOvershoot'
    BY RoomStep, OvershootStep
<1> QED BY <1>1, <1>2, Inductive, PTL DEF QuotaSpec

\* "rate limit exceeded" is told only when the store has admitted Rpm calls
\* within the window and the delay of the refused call (key_quota.py:56-58,
\* 159-168, 256-257).
THEOREM RefusalsAreJustified == QuotaSpec => RefusalsJustified
<1>1. IInv /\ [QuotaNext]_quotaVars =>
        [\A p \in Procs :
           stage[p] = "asked" /\ OverRate(p) =>
              Cardinality({i \in DOMAIN log[store[p]] :
                             time - log[store[p]][i].at <= Window + MaxLag}) >= Rpm]_quotaVars
    BY RefusalStep
<1> QED BY <1>1, Inductive, PTL DEF QuotaSpec, RefusalsJustified
=============================================================================

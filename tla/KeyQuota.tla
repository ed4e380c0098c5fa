------------------------------ MODULE KeyQuota ------------------------------
(***************************************************************************)
(* The quotas of one API key (key_quota.py): so many calls a minute and so  *)
(* many tokens a UTC day, kept in Redis, in SQLite or in the memory of a    *)
(* server process.  Every process picks its store at its first call and     *)
(* keeps it; one that cannot reach Redis falls back to SQLite, then to its  *)
(* memory.  A call reads the clock before it gets to the store, so calls    *)
(* reach a store in another order than that of their time stamps.           *)
(*                                                                         *)
(* Requests are charged in the event loop, which the call blocks: a process *)
(* has one at a time (an image request is charged twice, one after the      *)
(* other).  GET /v1/keys/me runs in a thread beside it.                     *)
(***************************************************************************)
EXTENDS Integers, Sequences, FiniteSets

CONSTANTS
    Procs,        \* server processes
    Configured,   \* the kind the environment asks for
    Outages,      \* bound: the sets of stores that may be out of reach
    Rpm, Daily,   \* the limits of the key; Daily = 0 is none
    Window,       \* 60 s
    MaxLag,       \* bound: seconds between a call's reading of the clock and its end
    DaySecs,      \* bound: seconds in a day
    MaxTime,      \* bound: when the clock stops
    Charges       \* token estimates of requests

Shared == {"redis", "sqlite"}
QuotaStores == Shared \cup Procs      \* a process names its own memory
QuotaDays == 0..(MaxTime \div DaySecs)

ASSUME KeyQuotaAssumption ==
    /\ IsFiniteSet(Procs) /\ Procs # {}
    /\ Procs \cap (Shared \cup {"none"}) = {}
    /\ Configured \in {"redis", "sqlite", "memory"}
    /\ {Rpm, Window, DaySecs} \subseteq Nat \ {0}
    /\ {Daily, MaxLag, MaxTime} \subseteq Nat
    /\ Charges \subseteq Nat \ {0}
    /\ Outages \subseteq SUBSET QuotaStores

VARIABLES
    time,
    outage,   \* the stores that are out of reach all the time
    store,    \* _backend of each process, "none" before its first call
    stage,    \* "idle", "asked" (has read the clock), "looked" (Redis only)
    now, tokens,          \* of the call in progress
    viewed,   \* `now` of a usage() in progress, or none
    log,      \* history: the calls entered in each store, in that order
    rows,     \* key_rpm, the sorted set, "window": which of them are kept
    used,     \* tokens of each day, in each store
    granted   \* history: tokens admitted, by the day of the call

current == <<stage, now, tokens>>
history == <<log, granted>>
quotaVars == <<time, outage, store, current, viewed, rows, used, history>>

NoTime == -1
Day(t) == t \div DaySecs

QuotaTypeOK ==
    /\ time \in 0..MaxTime
    /\ outage \in Outages
    /\ store \in [Procs -> QuotaStores \cup {"none"}]
    /\ stage \in [Procs -> {"idle", "asked", "looked"}]
    /\ now \in [Procs -> 0..MaxTime]
    /\ tokens \in [Procs -> Charges \cup {0}]
    /\ viewed \in [Procs -> 0..MaxTime \cup {NoTime}]
    /\ log \in [QuotaStores -> Seq([ts : 0..MaxTime, at : 0..MaxTime])]
    /\ rows \in [QuotaStores -> SUBSET Nat]
    /\ used \in [QuotaStores -> [QuotaDays -> Nat]]
    /\ granted \in [QuotaStores -> [QuotaDays -> Nat]]

QuotaInit ==
    /\ time = 0
    /\ outage \in Outages
    /\ store = [p \in Procs |-> "none"]
    /\ stage = [p \in Procs |-> "idle"]
    /\ now = [p \in Procs |-> 0]
    /\ tokens = [p \in Procs |-> 0]
    /\ viewed = [p \in Procs |-> NoTime]
    /\ log = [s \in QuotaStores |-> <<>>]
    /\ rows = [s \in QuotaStores |-> {}]
    /\ used = [s \in QuotaStores |-> [d \in QuotaDays |-> 0]]
    /\ granted = [s \in QuotaStores |-> [d \in QuotaDays |-> 0]]

-----------------------------------------------------------------------------
(* The stores *)

\* Where get_backend() may end up in process p.
Backends(p) ==
    CASE Configured = "redis" -> Shared \cup {p}
      [] Configured = "sqlite" -> {"sqlite", p}
      [] OTHER -> {p}

Choice(p) == IF store[p] = "none" THEN Backends(p) \ outage ELSE {store[p]}

\* SQLite keeps a call that is exactly a window old.
Outdated(s, ts, t) == IF s = "sqlite" THEN t - ts > Window ELSE t - ts >= Window

\* Fault: nothing ever leaves the window.
KeptRowsForever(s, t) == rows[s]

\* Fault: a call leaves the window a second early.
KeptRowsEarly(s, t) == {i \in rows[s] : ~Outdated(s, log[s][i].ts, t + 1)}

\* What is left of a store's calls at t.
KeptRows(s, t) == {i \in rows[s] : ~Outdated(s, log[s][i].ts, t)}

\* A process remembers a single day.
DayRemembered(s, d) ==
    IF s \in Shared THEN used[s] ELSE [x \in QuotaDays |-> IF x = d THEN used[s][x] ELSE 0]

OverDay(s, t, tok) == Daily > 0 /\ used[s][Day(t)] + tok > Daily

\* Fault: the tokens go to the day on which the store is reached.
IsEnteredToday(p, s, kept) ==
    /\ log' = [log EXCEPT ![s] = Append(@, [ts |-> now[p], at |-> time])]
    /\ rows' = [rows EXCEPT ![s] = kept \cup {Len(log[s]) + 1}]
    /\ used' = [used EXCEPT ![s] = [DayRemembered(s, Day(time)) EXCEPT ![Day(time)] = @ + tokens[p]]]
    /\ granted' = [granted EXCEPT ![s][Day(now[p])] = @ + tokens[p]]

\* The call of p is entered in store s, of which `kept` is left.
IsEntered(p, s, kept) ==
    LET d == Day(now[p]) IN
    /\ log' = [log EXCEPT ![s] = Append(@, [ts |-> now[p], at |-> time])]
    /\ rows' = [rows EXCEPT ![s] = kept \cup {Len(log[s]) + 1}]
    /\ used' = [used EXCEPT ![s] = [DayRemembered(s, d) EXCEPT ![d] = @ + tokens[p]]]
    /\ granted' = [granted EXCEPT ![s][d] = @ + tokens[p]]

QuotaEnds(p) ==
    /\ stage' = [stage EXCEPT ![p] = "idle"]
    /\ now' = [now EXCEPT ![p] = 0]
    /\ tokens' = [tokens EXCEPT ![p] = 0]

Refuses(p) == QuotaEnds(p) /\ UNCHANGED <<log, granted, used>>

\* "rate limit exceeded"
OverRate(p) == Cardinality(KeptRows(store[p], now[p])) >= Rpm /\ Refuses(p)

-----------------------------------------------------------------------------
(* check_and_consume() *)

\* The store is chosen if need be, and the clock is read.
ReadsClock(p) ==
    /\ stage[p] = "idle"
    /\ \E s \in Choice(p) : store' = [store EXCEPT ![p] = s]
    /\ \E tok \in Charges : tokens' = [tokens EXCEPT ![p] = tok]
    /\ stage' = [stage EXCEPT ![p] = "asked"]
    /\ now' = [now EXCEPT ![p] = time]
    /\ UNCHANGED <<time, outage, viewed, rows, used, log, granted>>

\* Memory under its lock, SQLite in a transaction: a refusal changes nothing
\* (memory drops its pruned list, SQLite rolls the deletion back).
Decides(p) ==
    LET s == store[p] kept == KeptRows(s, now[p]) IN
    /\ stage[p] = "asked" /\ s # "redis"
    /\ \/ OverRate(p) /\ UNCHANGED rows
       \/ /\ Cardinality(kept) < Rpm /\ OverDay(s, now[p], tokens[p])
          /\ Refuses(p)
          /\ UNCHANGED rows
       \/ /\ Cardinality(kept) < Rpm /\ ~OverDay(s, now[p], tokens[p])
          /\ IsEntered(p, s, kept) /\ QuotaEnds(p)
    /\ UNCHANGED <<time, outage, store, viewed>>

\* Fault: a window is full when it holds one more.
RedisLooksLate(p) ==
    LET kept == KeptRows("redis", now[p]) IN
    /\ stage[p] = "asked" /\ store[p] = "redis" /\ Cardinality(kept) <= Rpm
    /\ rows' = [rows EXCEPT !["redis"] = kept]
    /\ stage' = [stage EXCEPT ![p] = "looked"]
    /\ UNCHANGED <<time, outage, store, now, tokens, viewed, used, history>>

\* Redis, the first pipeline: prune and look.
RedisLooks(p) ==
    LET kept == KeptRows("redis", now[p]) IN
    /\ stage[p] = "asked" /\ store[p] = "redis"
    /\ rows' = [rows EXCEPT !["redis"] = kept]
    /\ \/ OverRate(p)
       \/ /\ Cardinality(kept) < Rpm /\ OverDay("redis", now[p], tokens[p])
          /\ Refuses(p)
       \/ /\ Cardinality(kept) < Rpm /\ ~OverDay("redis", now[p], tokens[p])
          /\ stage' = [stage EXCEPT ![p] = "looked"]
          /\ UNCHANGED <<now, tokens, used, history>>
    /\ UNCHANGED <<time, outage, store, viewed>>

\* Redis has pruned, and the reply that says so is lost: the request fails.
RedisReplyLost(p) ==
    /\ stage[p] = "asked" /\ store[p] = "redis"
    /\ rows' = [rows EXCEPT !["redis"] = KeptRows("redis", now[p])]
    /\ Refuses(p)
    /\ UNCHANGED <<time, outage, store, viewed>>

\* Redis, the second: add, whatever has been added meanwhile.  If this reply is
\* lost the request fails, but its call is entered and counts like any other.
RedisAdds(p) ==
    /\ stage[p] = "looked"
    /\ IsEntered(p, "redis", rows["redis"]) /\ QuotaEnds(p)
    /\ UNCHANGED <<time, outage, store, viewed>>

\* The store cannot be reached in time, nothing is changed there, and the
\* request fails.
Breaks(p) ==
    /\ stage[p] # "idle" /\ store[p] \in Shared
    /\ Refuses(p)
    /\ UNCHANGED <<time, outage, store, viewed, rows>>

-----------------------------------------------------------------------------
(* usage() *)

ViewAsks(p) ==
    /\ viewed[p] = NoTime
    /\ \E s \in Choice(p) : store' = [store EXCEPT ![p] = s]
    /\ viewed' = [viewed EXCEPT ![p] = time]
    /\ UNCHANGED <<time, outage, current, rows, used, history>>

\* The outdated calls are dropped, and from memory the other day's tokens.
Views(p) ==
    LET s == store[p] IN
    /\ viewed[p] # NoTime
    /\ rows' = [rows EXCEPT ![s] = KeptRows(s, viewed[p])]
    /\ used' = [used EXCEPT ![s] = DayRemembered(s, Day(viewed[p]))]
    /\ viewed' = [viewed EXCEPT ![p] = NoTime]
    /\ UNCHANGED <<time, outage, store, current, history>>

-----------------------------------------------------------------------------

\* What the memory of p knows of the key is gone, and it starts anew.
Forgets(p) ==
    /\ log' = [log EXCEPT ![p] = <<>>]
    /\ rows' = [rows EXCEPT ![p] = {}]
    /\ used' = [used EXCEPT ![p] = [d \in QuotaDays |-> 0]]
    /\ granted' = [granted EXCEPT ![p] = [d \in QuotaDays |-> 0]]

\* Calls with other keys push this one out of memory.
Evicts(p) ==
    /\ store[p] = p
    /\ Forgets(p)
    /\ UNCHANGED <<time, outage, store, current, viewed>>

\* A process dies, with its memory, and is started again.
Restarts(p) ==
    /\ store[p] # "none"
    /\ store' = [store EXCEPT ![p] = "none"]
    /\ QuotaEnds(p)
    /\ viewed' = [viewed EXCEPT ![p] = NoTime]
    /\ Forgets(p)
    /\ UNCHANGED <<time, outage>>

\* A second passes; no call is in progress for more than MaxLag of them.
QuotaTick ==
    /\ time < MaxTime
    /\ \A p \in Procs :
         /\ stage[p] # "idle" => time - now[p] < MaxLag
         /\ viewed[p] # NoTime => time - viewed[p] < MaxLag
    /\ time' = time + 1
    /\ UNCHANGED <<outage, store, current, viewed, rows, used, history>>

QuotaNext ==
    \/ QuotaTick
    \/ \E p \in Procs :
         \/ ReadsClock(p) \/ Decides(p) \/ RedisLooks(p) \/ RedisReplyLost(p) \/ RedisAdds(p) \/ Breaks(p)
         \/ ViewAsks(p) \/ Views(p) \/ Evicts(p) \/ Restarts(p)

QuotaSpec == QuotaInit /\ [][QuotaNext]_quotaVars

-----------------------------------------------------------------------------
(* Properties *)

\* Of any Rpm + slack + 1 calls in a row that s admits the last comes at least
\* this much later than the first: the window, less what the time stamp of the
\* first may lag behind its admission.
Spaced(s, slack) ==
    \A i \in DOMAIN log[s] :
        i + Rpm + slack \in DOMAIN log[s]
            => log[s][i + Rpm + slack].at - log[s][i].at >= Window - MaxLag

\* A store that decides in one step never admits more than Rpm calls within
\* the window, less that lag, although calls come with time stamps out of order
\* and every call and every usage() prunes by its own (key_quota.py:48-77,
\* 148-196).
MinuteHolds == \A s \in QuotaStores \ {"redis"} : Spaced(s, 0)

\* Redis is looked at before it is added to: each other process may have
\* looked before the limit was reached and add a call past it, no more
\* (key_quota.py:251-270).
RedisOvershoot == Spaced("redis", Cardinality(Procs) - 1)

\* No day's tokens pass the quota in SQLite, whatever processes were killed and
\* whichever side of midnight a call's clock was on.
DailyHolds ==
    Daily > 0 => \A d \in QuotaDays : granted["sqlite"][d] <= Daily

\* A caller is told "rate limit exceeded" only when the store has really
\* admitted Rpm calls within the window before, plus the call's own delay.
RefusalsJustified ==
    [][\A p \in Procs :
         stage[p] = "asked" /\ OverRate(p) =>
            Cardinality({i \in DOMAIN log[store[p]] :
                           time - log[store[p]][i].at <= Window + MaxLag}) >= Rpm]_quotaVars
=============================================================================

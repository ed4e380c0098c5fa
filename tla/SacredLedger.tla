---------------------------- MODULE SacredLedger ----------------------------
(***************************************************************************)
(* What each client has spent on the sacred workers (sacred_guard.py), in   *)
(* Redis, in SQLite or in the memory of a server process.  A process picks  *)
(* its store when it first needs one and keeps it; one that cannot have the *)
(* store it was told to use takes the next.  Before a sacred call the       *)
(* bucket of the client is compared with the hard cap, after it the price   *)
(* is added.  Nothing but an administrator empties a bucket.                *)
(***************************************************************************)
EXTENDS Integers, FiniteSets, Functions

CONSTANTS
    Hosts,          \* server processes
    Callers,        \* requests in flight at most, in all processes
    Keys,           \* API keys
    Sessions,       \* the session ids that clients send
    Nobody,         \* no key, or no session id
    SacredKinds,    \* values of ANCHOR_SACRED_BACKEND
    SacredOutages,  \* bound: the sets of stores that cannot be had
    SacredCap,      \* HARD_CAP_YUAN
    SacredPrice,    \* what a sacred call costs at most
    SacredLastDay,  \* bound
    SpendLimit      \* bound: yuan recorded in all

SharedStores == {"redis", "sqlite"}
SacredStores == SharedStores \cup Hosts
Buckets == Keys \cup Sessions \cup {"anon"}
SacredDays == 0..SacredLastDay

ASSUME SacredAssumption ==
    /\ IsFiniteSet(Hosts) /\ IsFiniteSet(Callers) /\ IsFiniteSet(Keys) /\ IsFiniteSet(Sessions)
    /\ Hosts \cap (SharedStores \cup {"none"}) = {}
    /\ Nobody \notin Keys \cup Sessions /\ Keys \cap Sessions = {}
    /\ "anon" \notin Keys \cup Sessions
    /\ SacredKinds \subseteq {"redis", "sqlite", "memory"}
    /\ SacredOutages \subseteq SUBSET SharedStores
    /\ SacredCap \in Nat \ {0}
    /\ {SacredPrice, SacredLastDay, SpendLimit} \subseteq Nat

VARIABLES
    kind, absent,   \* what the environment asks for, and what it cannot have
    date,
    backend,        \* _store of each process
    spend, daily,   \* of each store: by bucket, and by day
    caller,         \* the requests: between check and record, or away
    keySpend        \* history: what each key has spent in each store since its reset

sacredVars == <<kind, absent, date, backend, spend, daily, caller, keySpend>>

Away == [host |-> Nobody, key |-> Nobody, bucket |-> "anon"]

SacredTypeOK ==
    /\ kind \in SacredKinds /\ absent \in SacredOutages /\ date \in SacredDays
    /\ backend \in [Hosts -> SacredStores \cup {"none"}]
    /\ spend \in [SacredStores -> [Buckets -> Nat]]
    /\ daily \in [SacredStores -> [SacredDays -> Nat]]
    /\ caller \in [Callers -> [host : Hosts \cup {Nobody}, key : Keys \cup {Nobody}, bucket : Buckets]]
    /\ keySpend \in [SacredStores -> [Keys -> Nat]]

SacredInit ==
    /\ kind \in SacredKinds /\ absent \in SacredOutages
    /\ date = 0
    /\ backend = [h \in Hosts |-> "none"]
    /\ spend = [s \in SacredStores |-> [b \in Buckets |-> 0]]
    /\ daily = [s \in SacredStores |-> [d \in SacredDays |-> 0]]
    /\ caller = [c \in Callers |-> Away]
    /\ keySpend = [s \in SacredStores |-> [k \in Keys |-> 0]]

\* Fault: the session id names the bucket.
BucketOfSession(key, session) ==
    IF session # Nobody THEN session ELSE IF key # Nobody THEN key ELSE "anon"

\* resolve_sacred_bucket(): a session id counts only where there is no key.
Bucket(key, session) ==
    IF key # Nobody THEN key ELSE IF session # Nobody THEN session ELSE "anon"

\* get_store(): the first that can be had of the kind asked for and the kinds
\* after it; memory always can.
StoreOf(h) ==
    IF backend[h] # "none" THEN backend[h]
    ELSE IF kind = "redis" /\ "redis" \notin absent THEN "redis"
    ELSE IF kind \in {"redis", "sqlite"} /\ "sqlite" \notin absent THEN "sqlite"
    ELSE h

\* add(), get() and reset() of a store.
Adds(s, bucket, yuan) ==
    /\ spend' = [spend EXCEPT ![s][bucket] = @ + yuan]
    /\ daily' = [daily EXCEPT ![s][date] = @ + yuan]
Total(s, bucket) == spend[s][bucket]
Empties(s, bucket) == spend' = [spend EXCEPT ![s][bucket] = 0]

\* check_sacred_guard(): past the cap another worker is called, which is no
\* longer this ledger's business.
Checks(c) == \E h \in Hosts, key \in Keys \cup {Nobody}, session \in Sessions \cup {Nobody} :
    /\ caller[c] = Away
    /\ backend' = [backend EXCEPT ![h] = StoreOf(h)]
    /\ caller' = IF Total(StoreOf(h), Bucket(key, session)) >= SacredCap THEN caller
                 ELSE [caller EXCEPT ![c] = [host |-> h, key |-> key, bucket |-> Bucket(key, session)]]
    /\ UNCHANGED <<kind, absent, date, spend, daily, keySpend>>

Recorded == FoldFunction(LAMBDA days, sum : FoldFunction(+, 0, days) + sum, 0, daily)

\* record_sacred_spend(): the text has come.
Records(c) == \E yuan \in 1..SacredPrice :
    LET who == caller[c]
        s == StoreOf(who.host)
    IN  /\ who # Away
        /\ Recorded + yuan <= SpendLimit
        /\ Adds(s, who.bucket, yuan)
        /\ keySpend' = IF who.key = Nobody THEN keySpend
                       ELSE [keySpend EXCEPT ![s][who.key] = @ + yuan]
        /\ caller' = [caller EXCEPT ![c] = Away]
        /\ UNCHANGED <<kind, absent, date, backend>>

\* The call brought no text: nothing is recorded.
CallFails(c) ==
    /\ caller[c] # Away
    /\ caller' = [caller EXCEPT ![c] = Away]
    /\ UNCHANGED <<kind, absent, date, backend, spend, daily, keySpend>>

\* reset_session(), by an administrator, in the store of the process asked.
Resets(h, bucket) ==
    LET s == StoreOf(h)
    IN  /\ Total(s, bucket) > 0
        /\ backend' = [backend EXCEPT ![h] = s]
        /\ Empties(s, bucket)
        /\ keySpend' = IF bucket \in Keys THEN [keySpend EXCEPT ![s][bucket] = 0] ELSE keySpend
        /\ UNCHANGED <<kind, absent, date, daily, caller>>

\* A process ends, with its requests and its memory; the next one asks for its
\* store again, and an outage may have come or gone.
SacredRestarts(h) ==
    /\ backend' = [backend EXCEPT ![h] = "none"]
    /\ absent' \in SacredOutages
    /\ spend' = [spend EXCEPT ![h] = [b \in Buckets |-> 0]]
    /\ daily' = [daily EXCEPT ![h] = [d \in SacredDays |-> 0]]
    /\ keySpend' = [keySpend EXCEPT ![h] = [k \in Keys |-> 0]]
    /\ caller' = [c \in Callers |-> IF caller[c].host = h THEN Away ELSE caller[c]]
    /\ UNCHANGED <<kind, date>>

SacredMidnight ==
    /\ date < SacredLastDay
    /\ date' = date + 1
    /\ UNCHANGED <<kind, absent, backend, spend, daily, caller, keySpend>>

SacredNext ==
    \/ \E c \in Callers : Checks(c) \/ Records(c) \/ CallFails(c)
    \/ \E h \in Hosts : SacredRestarts(h) \/ \E b \in Buckets : Resets(h, b)
    \/ SacredMidnight

SacredSpec == SacredInit /\ [][SacredNext]_sacredVars

-----------------------------------------------------------------------------
\* sacred_guard.py:44, "so clients cannot rotate X-Session-ID to bypass the hard
\* cap": whatever session ids are sent with a key, through whatever processes
\* and restarts, the key spends in one store no more than the cap and a call of
\* each request in flight.  The price is known after the call, so the cap alone
\* is not the limit.
KeySpendHolds ==
    \A s \in SacredStores, k \in Keys :
        keySpend[s][k] <= SacredCap - 1 + SacredPrice * Cardinality(Callers)
=============================================================================

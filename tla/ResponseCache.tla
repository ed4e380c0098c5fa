--------------------------- MODULE ResponseCache ---------------------------
(***************************************************************************)
(* The cache of whole answers (semantic_cache.py).  A request that is not   *)
(* streamed looks for the answer to the same text under the same salt and,  *)
(* failing that, waits for the embedding of its text and takes the nearest  *)
(* answer there is; after its call it waits for the embedding again and     *)
(* stores what it got.  The entries are in memory, or in a table.           *)
(*                                                                         *)
(* One connection serves the table.  A SELECT opens a transaction that only *)
(* the next INSERT commits, and NOW() is the time a transaction began: the  *)
(* table's clock stands still from the first look-up to the next store.     *)
(***************************************************************************)
EXTENDS Integers, FiniteSetsExt

CONSTANTS
    Askers,             \* requests in flight at most
    Salts,              \* who asks: a session, a request or the name of a key
    Texts,              \* system text, user text and tools
    Similar(_, _),      \* of two texts, 0 and up
    Threshold,
    TTL,
    PruneEvery,
    AnswerKinds,        \* of {"memory", "table"}
    LastTick,           \* bound
    MaxEntries          \* bound

ASSUME CacheAssumption ==
    /\ Threshold \in Nat \ {0} /\ TTL \in Nat /\ PruneEvery \in Nat \ {0}
    /\ LastTick \in Nat /\ MaxEntries \in Nat
    /\ \A t, u \in Texts : Similar(t, u) \in Nat

VARIABLES
    where,      \* "memory" or "table"
    clock,
    entries,    \* each with the place in which it was stored
    exact,      \* in memory: the entry of each key
    began,      \* of the table: when the open transaction began, or -1
    asker,      \* what each request waits for
    served,     \* history: what the last step took from the cache
    stored      \* history: when each key was last stored by this process

cacheVars == <<where, clock, entries, exact, began, asker, served, stored>>

Asks == Salts \X Texts
NoEntry == [ask |-> <<>>, ts |-> -1, no |-> 0]
Entries == [ask : Asks, ts : 0..LastTick, no : Nat \ {0}]
Idle == [stage |-> "away", ask |-> <<>>]
NotServed == [ask |-> <<>>, entry |-> NoEntry, at |-> 0]

CacheTypeOK ==
    /\ where \in AnswerKinds /\ clock \in 0..LastTick
    /\ entries \subseteq Entries /\ IsFiniteSet(entries) /\ Cardinality(entries) <= MaxEntries
    /\ exact \in [Asks -> Entries \cup {NoEntry}]
    /\ began \in -1..clock
    /\ asker \in [Askers -> [stage : {"looking", "calling", "storing"}, ask : Asks] \cup {Idle}]
    /\ served \in [ask : Asks, entry : Entries, at : 0..clock] \cup {NotServed}
    /\ stored \in [Asks -> -1..clock]

CacheInit ==
    /\ where \in AnswerKinds
    /\ clock = 0
    /\ entries = {}
    /\ exact = [a \in Asks |-> NoEntry]
    /\ began = -1
    /\ asker = [r \in Askers |-> Idle]
    /\ served = NotServed
    /\ stored = [a \in Asks |-> -1]

\* The time entries are measured by: time.time(), or NOW() of the transaction
\* that is open or that this statement opens.
Began == IF where = "table" /\ began = -1 THEN clock ELSE began
Now == IF where = "table" THEN Began ELSE clock
Fresh(entry) == IF where = "table" THEN entry.ts > Now - TTL ELSE Now - entry.ts <= TTL

\* exact_lookup()
Exact(ask) ==
    {e \in IF where = "memory" THEN {exact[ask]} \ {NoEntry} ELSE entries : e.ask = ask /\ Fresh(e)}

\* search(): the nearest, whoever it was for; in memory the first of equals.
Nearest(text) ==
    LET score(e) == Similar(text, e.ask[2])
        fresh == {e \in entries : Fresh(e)}
        near == {e \in fresh : score(e) >= Threshold /\ \A f \in fresh : score(f) <= score(e)}
    IN  {e \in near : where = "memory" => \A f \in near : e.no <= f.no}

Serves(r, ask, entry) ==
    /\ served' = [ask |-> ask, entry |-> entry, at |-> clock]
    /\ asker' = [asker EXCEPT ![r] = Idle]
Goes(r, stage, ask) ==
    /\ asker' = [asker EXCEPT ![r] = [stage |-> stage, ask |-> ask]]
    /\ served' = NotServed

Ends(r) ==
    /\ asker' = [asker EXCEPT ![r] = Idle]
    /\ served' = NotServed

\* lookup(), up to the wait for the embedding.
Looks(r) == \E ask \in Asks :
    /\ asker[r] = Idle
    /\ IF Exact(ask) # {} THEN \E entry \in Exact(ask) : Serves(r, ask, entry)
       ELSE Goes(r, "looking", ask)
    /\ began' = Began
    /\ UNCHANGED <<where, clock, entries, exact, stored>>

\* The embedding has come, or has failed, which is a miss.
Searches(r) ==
    LET ask == asker[r].ask
    IN  /\ asker[r].stage = "looking"
        /\ \/ /\ IF Nearest(ask[2]) # {}
                 THEN \E entry \in Nearest(ask[2]) : Serves(r, ask, entry)
                 ELSE Goes(r, "calling", ask)
              /\ began' = Began
           \/ Goes(r, "calling", ask) /\ UNCHANGED began
        /\ UNCHANGED <<where, clock, entries, exact, stored>>

\* The worker answers; an empty answer, an error and a placeholder are not
\* stored, nor one with calls of tools.
WorkerAnswers(r) ==
    /\ asker[r].stage = "calling"
    /\ Goes(r, "storing", asker[r].ask) \/ Ends(r)
    /\ UNCHANGED <<where, clock, entries, exact, began, stored>>

\* Fault: pruning takes the oldest entry for an expired one.
PrunedShort(list) ==
    IF Cardinality(list) % PruneEvery = 0
    THEN {e \in list : Fresh(e) /\ \E f \in list : f.no < e.no} ELSE list

\* _prune(), at every PruneEvery entries.
Pruned(list) == IF Cardinality(list) % PruneEvery = 0 THEN {e \in list : Fresh(e)} ELSE list
PrunedExact(list, byKey) ==
    IF Cardinality(list) % PruneEvery = 0
    THEN [a \in Asks |-> IF byKey[a] # NoEntry /\ Fresh(byKey[a]) THEN byKey[a] ELSE NoEntry]
    ELSE byKey

StoresInMemory(entry) ==
    LET list == entries \cup {entry}
    IN  /\ entries' = Pruned(list)
        /\ exact' = PrunedExact(list, [exact EXCEPT ![entry.ask] = entry])
        /\ stored' = [stored EXCEPT ![entry.ask] = clock]
        /\ UNCHANGED began
\* ON CONFLICT DO NOTHING: the row of a key is never replaced.
StoresInTable(entry) ==
    /\ entries' = IF \E e \in entries : e.ask = entry.ask THEN entries ELSE entries \cup {entry}
    /\ began' = -1
    /\ UNCHANGED <<exact, stored>>

\* The place behind all there are.
LastPlace == 1 + Max({0} \cup {e.no : e \in entries})

\* store(), after the wait for the embedding, which may fail.
Stores(r) ==
    LET entry == [ask |-> asker[r].ask, ts |-> Now, no |-> LastPlace]
    IN  /\ asker[r].stage = "storing"
        /\ \/ /\ Cardinality(entries) < MaxEntries
              /\ IF where = "memory" THEN StoresInMemory(entry) ELSE StoresInTable(entry)
           \/ UNCHANGED <<entries, exact, began, stored>>
        /\ Ends(r)
        /\ UNCHANGED <<where, clock>>

\* Another process: get_cache() makes a new store.
CacheRestarts ==
    /\ entries' = IF where = "memory" THEN {} ELSE entries
    /\ exact' = [a \in Asks |-> NoEntry]
    /\ began' = -1
    /\ asker' = [r \in Askers |-> Idle]
    /\ stored' = [a \in Asks |-> -1]
    /\ served' = NotServed
    /\ UNCHANGED <<where, clock>>

CacheTicks ==
    /\ clock < LastTick
    /\ clock' = clock + 1
    /\ served' = NotServed
    /\ UNCHANGED <<where, entries, exact, began, asker, stored>>

CacheNext ==
    \/ \E r \in Askers : Looks(r) \/ Searches(r) \/ WorkerAnswers(r) \/ Stores(r)
    \/ CacheRestarts \/ CacheTicks

CacheSpec == CacheInit /\ [][CacheNext]_cacheVars

-----------------------------------------------------------------------------
\* What is served was stored for what is asked, or for a text near it; and from
\* memory, within the TTL of being stored.
ServedFresh ==
    served # NotServed =>
        /\ \/ served.entry.ask = served.ask
           \/ Similar(served.ask[2], served.entry.ask[2]) >= Threshold
        /\ where = "memory" => served.at - served.entry.ts <= TTL

\* In memory, what was stored is found under its key until its TTL is over,
\* through every pruning and whatever else is stored; and is still what
\* search() considers.
StoredIsFound ==
    where = "memory" =>
        \A a \in Asks : stored[a] # -1 /\ clock - stored[a] <= TTL =>
            \E e \in entries : e.ask = a /\ e.ts = stored[a] /\ Exact(a) = {e}

\* An entry in memory is served within its TTL, in all of it, and not after it
\* (semantic_cache.py:90, "Entries expire after TTL").  Of the table neither is
\* so: its clock stands still while a transaction is open, and a row that is out
\* of date is never replaced.
MemoryKeepsTTL == ServedFresh /\ StoredIsFound
=============================================================================

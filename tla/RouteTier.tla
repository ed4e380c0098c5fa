----------------------------- MODULE RouteTier -----------------------------
(***************************************************************************)
(* One request through _route_tier() (routing_core.py): the chain of        *)
(* overrides that ends in a primary worker, the vendor call, the retry on   *)
(* the same worker, the back-off and the walk over the fallback ladder with *)
(* its judge.  Requests share the cooldowns, the quarantine, the sacred     *)
(* spend of their API key and the BaosiAPI slots, and any of these may      *)
(* change while a request awaits a vendor.                                  *)
(*                                                                         *)
(* There is no await between the entry of _route_tier() and its first       *)
(* vendor call, so the selection is one step; so is everything between two  *)
(* awaits of the walk.  A BaosiAPI call takes its slot inside the task that *)
(* wait_for() starts, a step later than the selection that counted slots.   *)
(* The opt-in Grok race is left out, and so is the override for chat-only   *)
(* workers: config.py declares none.                                        *)
(***************************************************************************)
EXTENDS Integers, Sequences, FiniteSets

CONSTANTS
    Requests, Workers, NoWorker,
    Pool,          \* TIER_POOL_ORDER["auto"], in cost order
    Ladder,        \* _FALLBACK_FAST_PATH["auto"], best quality first
    Enabled,       \* workers config.py enables
    Flash, Kilo,   \* deepseek-v4-flash, kilo-auto-free
    ImageWorker,   \* minimax-m3, forced for a request with an image
    Vision,        \* _VISION_CAPABLE
    Baosi,         \* workers on a baosiapi channel
    Sacred,        \* workers.SACRED
    Cost,          \* worker_cost(): the estimate of a call
    Budget,        \* cost_budget_cny_per_query
    Rules,         \* workers a hard rule, an alias or Pareto may force
    ShuntAt,       \* should_shunt()'s threshold
    Gate,          \* BAOSIAPI_MAX_CONCURRENCY
    HardCap,       \* HARD_CAP_YUAN of a sacred bucket
    SacredCost,    \* what a sacred call really costs, at most
    MaxAttempts,   \* _max_fallback_attempts()
    Suspects       \* bound: the workers the SLA sweep may condemn

Members(s) == {s[i] : i \in DOMAIN s}

ASSUME RouteTierAssumption ==
    /\ NoWorker \notin Workers
    /\ Pool \in Seq(Workers) /\ Ladder \in Seq(Workers)
    /\ Members(Pool) \subseteq Enabled /\ Members(Pool) # {}
    /\ Enabled \subseteq Workers /\ Rules \subseteq Workers
    /\ {Flash, Kilo, ImageWorker} \subseteq Workers
    /\ Cost \in [Workers -> Nat] /\ Budget \in Nat
    /\ \E w \in Enabled \ Sacred : \A v \in Enabled \ Sacred : Cost[w] <= Cost[v]
    /\ \A w \in Sacred \cap Workers, v \in Enabled \ Sacred : Cost[v] <= Cost[w]
    /\ {ShuntAt, Gate, HardCap, SacredCost, MaxAttempts} \subseteq Nat
    /\ HardCap > 0 /\ Gate > 0
    /\ Suspects \subseteq Workers
    /\ IsFiniteSet(Requests)

VARIABLES
    cooling,       \* workers is_cooling() answers for
    quarantined,   \* workers is_quarantined() answers for
    spent,         \* the sacred spend recorded for the API key
    slots,         \* requests that hold a BaosiAPI slot
    pc,            \* where a request awaits: a vendor, a sleep, the judge
    image,         \* vision_only
    chosen, primary, from,  \* chosen, primary_worker, fallback_from
    answer,        \* the answer kept so far: who gave it and what it is
    trying,        \* the fallback worker asked last
    tierPool,      \* _tier_pool, as it was when the worker was selected
    todo,          \* what is left of _fallback_walk
    attempts

shared == <<cooling, quarantined, spent, slots>>
walk == <<image, tierPool, trying, todo, attempts>>
locals == <<chosen, primary, from, answer, walk>>
vars == <<shared, pc, locals>>

\* What _call_worker() returns: a text, tool calls without a text, or one of
\* the ways to be bad.  AllKeysRateLimited after timeouts is classified as a
\* timeout, so it is one here before the retry and a 429 ("limited") after it.
Good == {"text", "tools"}
Kinds == Good \cup {"timeout", "limited", "failed", "empty", "placeholder"}

\* What is kept of an answer.
Kept(w, kind) == [by |-> w, kind |-> IF kind \in Good \cup {"empty"} THEN kind ELSE "bad"]
NoAnswer == [by |-> NoWorker, kind |-> "none"]
Answers == [by : Workers, kind : Good \cup {"empty", "bad"}] \cup {NoAnswer}

AtVendor == {"calling", "retrying", "trying"}
Waiting == AtVendor \cup {"sleeping", "judging"}

TypeOK ==
    /\ cooling \subseteq Workers
    /\ quarantined \subseteq Workers
    /\ spent \in Nat
    /\ slots \subseteq Requests
    /\ pc \in [Requests -> {"idle", "done"} \cup Waiting]
    /\ image \in [Requests -> BOOLEAN]
    /\ chosen \in [Requests -> Workers \cup {NoWorker}]
    /\ primary \in [Requests -> Workers \cup {NoWorker}]
    /\ from \in [Requests -> Workers \cup {NoWorker}]
    /\ answer \in [Requests -> Answers]
    /\ trying \in [Requests -> Workers \cup {NoWorker}]
    /\ todo \in [Requests -> SUBSET Workers]
    /\ attempts \in [Requests -> 0..MaxAttempts]
    /\ tierPool \in [Requests -> SUBSET Workers]

Init ==
    /\ cooling = {}
    /\ quarantined = {}
    /\ spent = 0
    /\ slots = {}
    /\ pc = [r \in Requests |-> "idle"]
    /\ image = [r \in Requests |-> FALSE]
    /\ chosen = [r \in Requests |-> NoWorker]
    /\ primary = [r \in Requests |-> NoWorker]
    /\ from = [r \in Requests |-> NoWorker]
    /\ answer = [r \in Requests |-> NoAnswer]
    /\ trying = [r \in Requests |-> NoWorker]
    /\ todo = [r \in Requests |-> {}]
    /\ attempts = [r \in Requests |-> 0]
    /\ tierPool = [r \in Requests |-> {}]

-----------------------------------------------------------------------------
(* Selection *)

Position(s, w) == CHOOSE i \in DOMAIN s : s[i] = w

\* The member of S that comes first in the pool.
FirstInPool(S) == CHOOSE w \in S : \A v \in S : Position(Pool, w) <= Position(Pool, v)

\* c, unless it has to go and the pool offers another.
Otherwise(c, mustGo, offers) == IF mustGo /\ offers # {} THEN FirstInPool(offers) ELSE c

TierPool ==
    IF Members(Pool) \subseteq quarantined THEN Members(Pool) ELSE Members(Pool) \ quarantined

Unquarantined(c) == Otherwise(c, c \in quarantined, TierPool \ quarantined)

\* Fault: the threshold itself is still below the threshold.
ShouldShuntLate == Cardinality(slots) > ShuntAt

\* should_shunt()
ShouldShunt == Cardinality(slots) >= ShuntAt

Shunted(c) == Otherwise(c, c \in Baosi /\ ShouldShunt, (TierPool \cap Enabled) \ Baosi)

Warm(c) == Otherwise(c, c \in cooling \cup quarantined, TierPool \ (cooling \cup {c}))

\* _cheapest_non_sacred_enabled()
Cheapest ==
    CHOOSE w \in Enabled \ Sacred : \A v \in Enabled \ Sacred : Cost[w] <= Cost[v]

\* Fault: the cap is only warned about.
SacredWarned(c) == c

SacredGuarded(c) == IF c \in Sacred /\ spent >= HardCap THEN Cheapest ELSE c

Budgeted(c) ==
    Otherwise(c, Budget > 0 /\ Cost[c] > Budget, {w \in Members(Pool) \ {c} : Cost[w] <= Budget})

Usable(c) == Otherwise(c, c \notin Enabled, TierPool \cap Enabled)

\* A forced worker that is disabled or quarantined is as good as none.
Forces(f) == f \in Enabled \ quarantined

Selected(f, predicted) ==
    IF Forces(f)
    THEN Usable(SacredGuarded(f))
    ELSE Usable(Budgeted(SacredGuarded(Warm(Shunted(Unquarantined(predicted))))))

\* The pool as config.py fills it: the workers of BaosiAPI come last, since
\* they cost most, and one of the others is the cheapest of all.
BaosiLast ==
    /\ \A v \in Members(Pool) \ Baosi, w \in Members(Pool) \cap Baosi :
         Position(Pool, v) < Position(Pool, w) /\ Cost[v] <= Cost[w]
    /\ \A w \in Enabled \ Sacred :
         (\A v \in Enabled \ Sacred : Cost[w] <= Cost[v]) => w \notin Baosi

-----------------------------------------------------------------------------
(* The fallback walk *)

\* _fallback_candidates() when c has failed.
Peers(r, c) ==
    {w \in (Members(Ladder) \cup tierPool[r]) \ {c} : image[r] => w \in Vision}

\* _maybe_kilo(): Kilo joins at the end when it is not there, whatever failed.
Candidates(r, c) == Peers(r, c) \cup {Kilo}

\* When w's turn comes: the better peers of c upwards, then the worse ones
\* downwards, then the rest of the pool, then a Kilo that joined.
Turn(r, c, w) ==
    IF w \notin Peers(r, c)
    THEN Len(Ladder) + Len(Pool) + 1
    ELSE IF w \in Members(Ladder)
    THEN IF c \in Members(Ladder) /\ Position(Ladder, w) < Position(Ladder, c)
         THEN Position(Ladder, c) - Position(Ladder, w)
         ELSE Position(Ladder, w)
    ELSE Len(Ladder) + Position(Pool, w)

Finish(r) ==
    /\ pc' = [pc EXCEPT ![r] = "done"]
    /\ trying' = [trying EXCEPT ![r] = NoWorker]
    /\ todo' = [todo EXCEPT ![r] = {}]
    /\ attempts' = [attempts EXCEPT ![r] = 0]
    /\ tierPool' = [tierPool EXCEPT ![r] = {}]
    /\ image' = [image EXCEPT ![r] = FALSE]

\* w is asked, as the n-th attempt; `left` is what remains of the walk.
Asks(r, w, left, n) ==
    /\ trying' = [trying EXCEPT ![r] = w]
    /\ todo' = [todo EXCEPT ![r] = left]
    /\ attempts' = [attempts EXCEPT ![r] = n]
    /\ pc' = [pc EXCEPT ![r] = "trying"]
    /\ UNCHANGED <<image, tierPool>>

Open(list, cool) == list \ (cool \cup quarantined)

\* Fault: the walk starts over when a fallback fails, and counts nothing.
TryNextAnew(r, list, cool) ==
    IF Open(list, cool) # {}
    THEN \E w \in Open(list, cool) : Asks(r, w, list, attempts[r])
    ELSE Finish(r)

\* The next worker of `list` that neither cools nor is quarantined is asked;
\* those before it are not looked at again.
TryNext(r, list, cool) ==
    LET turn(w) == Turn(r, chosen[r], w) IN
    IF attempts[r] < MaxAttempts /\ Open(list, cool) # {}
    THEN \E w \in Open(list, cool) :
           /\ \A v \in Open(list, cool) : turn(w) <= turn(v)
           /\ Asks(r, w, {v \in list : turn(v) > turn(w)}, attempts[r] + 1)
    ELSE Finish(r)

\* A bad answer that names a Retry-After is slept on before the walk begins.
StartWalk(r, kind, cool) ==
    \/ /\ kind \in {"limited", "failed"}
       /\ pc' = [pc EXCEPT ![r] = "sleeping"]
       /\ UNCHANGED walk
    \/ TryNext(r, Candidates(r, chosen[r]), cool)

\* _call_worker() cools a worker that timed out, was limited or answered with
\* a vendor placeholder.
Cooled(w, kind) ==
    IF kind \in {"timeout", "limited", "placeholder"} THEN cooling \cup {w} ELSE cooling

-----------------------------------------------------------------------------
(* A request *)

\* The request is classified and a worker selected; a request with an image
\* is forced to ImageWorker.
Arrive(r) ==
    /\ pc[r] = "idle"
    /\ \E pic \in BOOLEAN : \E f \in IF pic THEN {ImageWorker} ELSE Rules \cup {NoWorker} :
       \E predicted \in Members(Pool) :
         /\ image' = [image EXCEPT ![r] = pic]
         /\ chosen' = [chosen EXCEPT ![r] = Selected(f, predicted)]
         /\ primary' = [primary EXCEPT ![r] = Selected(f, predicted)]
    /\ tierPool' = [tierPool EXCEPT ![r] = TierPool]
    /\ pc' = [pc EXCEPT ![r] = "calling"]
    /\ UNCHANGED <<shared, from, answer, trying, todo, attempts>>

\* The worker a request awaits.
Asked(r) == IF pc[r] = "trying" THEN trying[r] ELSE chosen[r]

\* slot(): a BaosiAPI call holds one until it answers or is cancelled.  The
\* semaphore with its queue and its cancellations is in BaosiSlots.tla.
TakesSlot(r) ==
    /\ pc[r] \in AtVendor /\ Asked(r) \in Baosi /\ r \notin slots
    /\ Cardinality(slots) < Gate
    /\ slots' = slots \cup {r}
    /\ UNCHANGED <<cooling, quarantined, spent, pc, locals>>

\* The end of slot() does not suspend, so the slot is back when the router
\* hears of the answer or the time-out.
LeavesSlot(r) == slots' = slots \ {r}

\* A call still waiting for its slot can only time out.
Heard(r, w) == IF w \in Baosi /\ r \notin slots THEN {"timeout"} ELSE Kinds

\* record_sacred_spend(): only a text of the primary call is recorded.
Recorded(r, kind) ==
    IF chosen[r] \in Sacred /\ kind \in {"text", "placeholder"}
    THEN {spent + cost : cost \in 0..SacredCost}
    ELSE {spent}

\* timeouts and connection errors are retried on the worker itself, free flash
\* excepted
RetriesSame(r, kind) ==
    kind = "timeout" /\ MaxAttempts > 0 /\ chosen[r] # Flash

\* The primary answers.  An empty answer of flash may be one too many, and
\* trip_empty_rate() cools it.
PrimaryAnswers(r) ==
    /\ pc[r] = "calling"
    /\ \E kind \in Heard(r, chosen[r]) :
         /\ answer' = [answer EXCEPT ![r] = Kept(chosen[r], kind)]
         /\ spent' \in Recorded(r, kind)
         /\ \/ cooling' = Cooled(chosen[r], kind)
            \/ /\ kind = "empty" /\ chosen[r] = Flash
               /\ cooling' = cooling \cup {Flash}
         /\ \/ kind \in Good /\ Finish(r)
            \/ /\ RetriesSame(r, kind)
               /\ pc' = [pc EXCEPT ![r] = "retrying"]
               /\ attempts' = [attempts EXCEPT ![r] = 1]
               /\ UNCHANGED <<image, tierPool, trying, todo>>
            \/ /\ kind \notin Good
               /\ ~RetriesSame(r, kind)
               /\ StartWalk(r, kind, cooling')
    /\ LeavesSlot(r)
    /\ UNCHANGED <<quarantined, chosen, primary, from>>

RetryAnswers(r) ==
    /\ pc[r] = "retrying"
    /\ \E kind \in Heard(r, chosen[r]) :
         /\ answer' = [answer EXCEPT ![r] = Kept(chosen[r], kind)]
         /\ cooling' = Cooled(chosen[r], kind)
         /\ IF kind \in Good THEN Finish(r) ELSE StartWalk(r, kind, cooling')
    /\ LeavesSlot(r)
    /\ UNCHANGED <<quarantined, spent, chosen, primary, from>>

\* The back-off is over; the candidates are looked up only now.
Wakes(r) ==
    /\ pc[r] = "sleeping"
    /\ TryNext(r, Candidates(r, chosen[r]), cooling)
    /\ UNCHANGED <<shared, chosen, primary, from, answer>>

\* Fault: the reply names the worker that failed.
AcceptAnonymously(r, given) ==
    /\ from' = [from EXCEPT ![r] = primary[r]]
    /\ answer' = [answer EXCEPT ![r] = given]
    /\ Finish(r)
    /\ UNCHANGED chosen

\* The fallback's answer becomes the request's.
Accept(r, given) ==
    /\ chosen' = [chosen EXCEPT ![r] = given.by]
    /\ from' = [from EXCEPT ![r] = IF @ = NoWorker /\ given.by # primary[r] THEN primary[r] ELSE @]
    /\ answer' = [answer EXCEPT ![r] = given]
    /\ Finish(r)

\* A text is shown to the judge when there is a first answer to compare with.
Comparable(r, kind) == kind = "text" /\ answer[r].kind # "empty"

FallbackAnswers(r) ==
    /\ pc[r] = "trying"
    /\ \E kind \in Heard(r, trying[r]) :
         /\ cooling' = Cooled(trying[r], kind)
         /\ \/ /\ kind \notin Good
               /\ TryNext(r, todo[r], cooling')
               /\ UNCHANGED <<chosen, from, answer>>
            \/ /\ Comparable(r, kind)
               /\ pc' = [pc EXCEPT ![r] = "judging"]
               /\ UNCHANGED <<chosen, from, answer, walk>>
            \/ /\ kind \in Good /\ ~Comparable(r, kind)
               /\ Accept(r, Kept(trying[r], kind))
    /\ LeavesSlot(r)
    /\ UNCHANGED <<quarantined, spent, primary>>

\* The judge prefers the fallback (B), prefers the failed answer (A), or
\* fails or cannot tell ("none"): the fallback is taken in every case.
JudgeAnswers(r) ==
    /\ pc[r] = "judging"
    /\ Accept(r, Kept(trying[r], "text"))
    /\ UNCHANGED <<shared, primary>>

\* The reply is sent, and the slot takes another request.
Again(r) ==
    /\ pc[r] = "done"
    /\ pc' = [pc EXCEPT ![r] = "idle"]
    /\ chosen' = [chosen EXCEPT ![r] = NoWorker]
    /\ primary' = [primary EXCEPT ![r] = NoWorker]
    /\ from' = [from EXCEPT ![r] = NoWorker]
    /\ answer' = [answer EXCEPT ![r] = NoAnswer]
    /\ UNCHANGED <<shared, walk>>

-----------------------------------------------------------------------------
(* What happens to the workers meanwhile *)

\* A cooldown runs out, or the recovery loop clears it.
WarmsUp(w) ==
    /\ w \in cooling
    /\ cooling' = cooling \ {w}
    /\ UNCHANGED <<quarantined, spent, slots, pc, locals>>

\* The sweep condemns a worker, or the recheck loop lets it back in.
Condemned(w) ==
    /\ quarantined' = (quarantined \cup {w}) \ (quarantined \cap {w})
    /\ UNCHANGED <<cooling, spent, slots, pc, locals>>

VendorAnswers(r) == PrimaryAnswers(r) \/ RetryAnswers(r) \/ FallbackAnswers(r) \/ JudgeAnswers(r)

Next ==
    \/ \E r \in Requests : Arrive(r) \/ TakesSlot(r) \/ VendorAnswers(r) \/ Wakes(r) \/ Again(r)
    \/ \E w \in Workers : WarmsUp(w)
    \/ \E w \in Suspects : Condemned(w)

\* Vendors and the judge answer or are timed out, and sleeps end.
Fairness == \A r \in Requests : WF_vars(VendorAnswers(r) \/ Wakes(r))

Spec == Init /\ [][Next]_vars
FairSpec == Spec /\ Fairness

-----------------------------------------------------------------------------
(* Properties *)

\* The reply names the worker whose answer it carries, and says "fallback from
\* the primary" exactly when that worker is not the primary (metrics, billing
\* and the SLA sweep read these fields).
ReplyHonest ==
    \A r \in Requests : pc[r] = "done" =>
        /\ answer[r].by = chosen[r]
        /\ from[r] = IF chosen[r] = primary[r] THEN NoWorker ELSE primary[r]

\* Requests that were let through to a sacred primary before the hard cap was
\* reached may carry the ledger past it, each by one call: the cap is checked
\* at selection (599) and the spend recorded after the vendor's answer (834).
SacredOvershoot ==
    spent + SacredCost * Cardinality({r \in Requests : pc[r] = "calling" /\ chosen[r] \in Sacred})
        <= HardCap - 1 + SacredCost * Cardinality(Requests)

\* While the BaosiAPI slots are near their limit a request no rule forces goes
\* to BaosiAPI only when every other worker of the pool cools or is in
\* quarantine: neither the cooldown override nor the budget override brings it
\* back.
ShuntHolds ==
    [][\A r \in Requests :
         /\ pc[r] = "idle" /\ pc'[r] = "calling"
         /\ Cardinality(slots) >= ShuntAt
         /\ primary'[r] \in Baosi \ (Rules \cup {ImageWorker})
         => (TierPool \cap Enabled) \ Baosi \subseteq cooling \cup quarantined]_vars

\* Doc (sacred_guard.py:4): past the hard cap no call goes to a sacred worker.
SacredCapHolds ==
    [][\A r \in Requests :
         /\ pc'[r] \in {"calling", "trying"} /\ pc'[r] # pc[r]
         /\ spent >= HardCap
         => Asked(r)' \notin Sacred]_vars

\* Every request that reaches a worker is replied to.
RequestsEnd == \A r \in Requests : pc[r] = "calling" ~> pc[r] = "done"
=============================================================================

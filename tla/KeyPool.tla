------------------------------ MODULE KeyPool ------------------------------
(***************************************************************************)
(* The multi-key pool of one worker (clients/key_pool.py).  build_client()  *)
(* makes a pool for each call (clients/factory.py:27-40), so a pool serves  *)
(* one chat() with the streams of its empty replies, or one stream(): its   *)
(* cursor and the back-off of its keys begin anew with every request.  The   *)
(* window a pool arms when all keys have failed (key_pool.py:515) nobody     *)
(* reads, as no other call has that pool; the trip of the worker, which      *)
(* requests do share, is in Cooldown.                                       *)
(*                                                                         *)
(* A coroutine gives up the loop only while a vendor call is in flight      *)
(* (nobody else has the pool's lock); everything between two vendor calls   *)
(* is one step here.  The ways out of chat() and stream() for a window that *)
(* is still hot (365-374, 546-551) and of chat() for a pool without a key   *)
(* (379-385) are left out: they read a pool that has just been made.        *)
(*                                                                         *)
(* Keys are their positions in self.keys.  A deadline is kept as the whole  *)
(* seconds that remain until it: 0 means it has passed.                     *)
(***************************************************************************)
EXTENDS Integers, FiniteSets

CONSTANTS
    NKeys,              \* len(self.keys)
    Chats, Streams,     \* slots: each runs one chat() / stream() after the other
    Failover,           \* key_strategy = "failover" (else "round-robin")
    EmptyRetry,         \* "deepseek" in model: an empty reply is retried as a stream
    PerKeySecs,         \* _PER_KEY_COOLDOWN_SECS, 30
    AuthSecs,           \* 60
    All429Secs,         \* _ALL_429_COOLDOWN_SECS, 90
    MaxRetryAfter,      \* MAX_RETRY_AFTER_S
    VendorRetryAfters   \* Retry-After values a vendor may send, unclamped

Keys == 1..NKeys
Requests == Chats \cup Streams

ASSUME KeyPoolAssumption ==
    /\ NKeys \in Nat \ {0}
    /\ Chats \cap Streams = {}
    /\ Failover \in BOOLEAN
    /\ EmptyRetry \in BOOLEAN
    /\ {PerKeySecs, AuthSecs, All429Secs, MaxRetryAfter} \subseteq Nat \ {0}
    /\ VendorRetryAfters \subseteq Int

VARIABLES
    idx,          \* self.idx, the rotation cursor of each request's pool
    keyLeft,      \* self._key_until, as seconds left
    pc,           \* where each request is suspended
    key, todo,    \* chat(): the key in flight and the ones after it in `ordered`
    skey, stodo,  \* stream(): the same for the current pass
    tried,        \* stream(): _tried_keys
    maxRA,        \* chat(): max_retry_after
    reply,        \* how the request ended
    asked         \* history: how often the request has asked the vendor with a key

pool == <<idx, keyLeft>>
locals == <<key, todo, skey, stodo, tried, maxRA>>
poolVars == <<pool, pc, locals, reply, asked>>

NoReply == [kind |-> "none", retry |-> 0]
Replies == [kind : {"none", "ok", "raised", "denied", "stillborn", "limited"}, retry : Nat]

PoolTypeOK ==
    /\ idx \in [Requests -> 0..(NKeys - 1)]
    /\ keyLeft \in [Requests -> [Keys -> Nat]]
    /\ pc \in [Requests -> {"idle", "calling", "opening", "streaming", "done"}]
    /\ key \in [Requests -> Keys]
    /\ todo \in [Requests -> SUBSET Keys]
    /\ skey \in [Requests -> Keys]
    /\ stodo \in [Requests -> SUBSET Keys]
    /\ tried \in [Requests -> SUBSET Keys]
    /\ maxRA \in [Requests -> Nat]
    /\ reply \in [Requests -> Replies]
    /\ asked \in [Requests -> [Keys -> Nat]]

\* self._key_until of a new pool.
Fresh == [k \in Keys |-> 0]
NextIdx(i) == (i + 1) % NKeys

PoolInit ==
    /\ idx = [r \in Requests |-> 0]
    /\ keyLeft = [r \in Requests |-> Fresh]
    /\ pc = [r \in Requests |-> "idle"]
    /\ key = [r \in Requests |-> 1]
    /\ todo = [r \in Requests |-> {}]
    /\ skey = [r \in Requests |-> 1]
    /\ stodo = [r \in Requests |-> {}]
    /\ tried = [r \in Requests |-> {}]
    /\ maxRA = [r \in Requests |-> 0]
    /\ reply = [r \in Requests |-> NoReply]
    /\ asked = [r \in Requests |-> Fresh]

-----------------------------------------------------------------------------
(* Key selection *)

Larger(a, b) == IF a >= b THEN a ELSE b

Clamp(raw) == IF raw < 1 THEN 1 ELSE IF raw > MaxRetryAfter THEN MaxRetryAfter ELSE raw

\* What one key's failure costs: how long the key is backed off and the
\* vendor's own window (0 when it named none).
ChatFailures ==
    {[secs |-> AuthSecs, window |-> 0], [secs |-> PerKeySecs, window |-> 0]}
        \cup {[secs |-> Clamp(v), window |-> Clamp(v)] : v \in VendorRetryAfters}
StreamFailures == {f.secs : f \in ChatFailures}

AvailKeys(left) == {k \in Keys : left[k] = 0}

Cooled(left, k, secs) == [left EXCEPT ![k] = Larger(@, secs)]

\* How far j is after k in the cyclic order of self.keys.
Dist(k, j) == (j - k + NKeys) % NKeys

\* k is the first member of S met from position s on, wrapping around.
FirstFrom(s, k, S) == k \in S /\ \A j \in S : Dist(s, k) <= Dist(s, j)

\* s is where `ordered` starts when the cursor reads i: avail[i % len(avail)],
\* or the primary key under failover when it is available.
StartsAt(avail, i, s) ==
    IF Failover /\ 1 \in avail
    THEN s = 1
    ELSE s \in avail /\ Cardinality({j \in avail : j < s}) = i % Cardinality(avail)

\* What a client is told when every key is backed off: the shortest wait.
IsShortestWait(n, left) == \A k \in Keys : n <= left[k]

\* stream() inside chat() is over, and its frame with it.
LeaveStream(r) ==
    /\ skey' = [skey EXCEPT ![r] = 1]
    /\ stodo' = [stodo EXCEPT ![r] = {}]
    /\ tried' = [tried EXCEPT ![r] = {}]

Finish(r, outcome) ==
    /\ pc' = [pc EXCEPT ![r] = "done"]
    /\ reply' = [reply EXCEPT ![r] = outcome]
    /\ key' = [key EXCEPT ![r] = 1]
    /\ todo' = [todo EXCEPT ![r] = {}]
    /\ maxRA' = [maxRA EXCEPT ![r] = 0]
    /\ LeaveStream(r)
    /\ UNCHANGED asked

Ended(kind) == [kind |-> kind, retry |-> 0]
Limited(secs) == [kind |-> "limited", retry |-> Larger(1, secs)]

-----------------------------------------------------------------------------
(* chat() *)

\* build_client(), in the step that starts a request.
NewPool(r) ==
    /\ pc[r] \in {"idle", "done"}
    /\ idx' = [idx EXCEPT ![r] = NextIdx(0)]
    /\ keyLeft' = [keyLeft EXCEPT ![r] = Fresh]
    /\ reply' = [reply EXCEPT ![r] = NoReply]

ChatBegin(r) ==
    /\ NewPool(r)
    /\ \E k \in Keys :
         /\ StartsAt(Keys, 0, k)
         /\ key' = [key EXCEPT ![r] = k]
         /\ todo' = [todo EXCEPT ![r] = Keys \ {k}]
         /\ asked' = [asked EXCEPT ![r] = [Fresh EXCEPT ![k] = 1]]
    /\ pc' = [pc EXCEPT ![r] = "calling"]
    /\ UNCHANGED <<skey, stodo, tried, maxRA>>

ChatSucceeds(r) ==
    /\ pc[r] = "calling"
    /\ Finish(r, Ended("ok"))
    /\ UNCHANGED pool

\* A 4xx other than 401, 403 and 429: the request is at fault, not the key.
ChatRejected(r) ==
    /\ pc[r] = "calling"
    /\ Finish(r, Ended("raised"))
    /\ UNCHANGED pool

\* Fault: the first failure of a key is taken for the last one.
ChatGivesUpAtOnce(r, window) ==
    /\ Finish(r, Limited(Larger(All429Secs, window)))

\* `ordered` is through, and the client is told how long to wait.
ChatGivesUp(r, window) ==
    /\ todo[r] = {}
    /\ Finish(r, Limited(Larger(All429Secs, window)))

ChatRotates(r, window) ==
    /\ \E k \in todo[r] :
         /\ FirstFrom(key[r], k, todo[r])
         /\ key' = [key EXCEPT ![r] = k]
         /\ todo' = [todo EXCEPT ![r] = @ \ {k}]
         /\ asked' = [asked EXCEPT ![r][k] = @ + 1]
    /\ maxRA' = [maxRA EXCEPT ![r] = window]
    /\ pc' = [pc EXCEPT ![r] = "calling"]
    /\ LeaveStream(r)
    /\ UNCHANGED reply

\* The key in flight failed; `left` is keyLeft[r] as the step has it so far.
KeyFails(r, left, failure) ==
    LET window == Larger(maxRA[r], failure.window) IN
    /\ keyLeft' = [keyLeft EXCEPT ![r] = Cooled(left, key[r], failure.secs)]
    /\ ChatRotates(r, window) \/ ChatGivesUp(r, window)

ChatKeyFails(r) ==
    /\ pc[r] = "calling"
    /\ \E f \in ChatFailures : KeyFails(r, keyLeft[r], f)
    /\ UNCHANGED idx

-----------------------------------------------------------------------------
(* stream(), on its own or inside a chat() whose deepseek reply was empty *)

\* One pass of the `while True` loop finds a key not tried yet.  A pass over
\* no available key runs over all of them, cooling or not.
PassKeys(left) == IF AvailKeys(left) = {} THEN Keys ELSE AvailKeys(left)

\* Fault: _tried_keys is not consulted.
StreamPassForgetful(r, left, at, seen) ==
    \E s \in Keys : \E k \in PassKeys(left) :
        /\ StartsAt(PassKeys(left), at, s)
        /\ FirstFrom(s, k, PassKeys(left))
        /\ skey' = [skey EXCEPT ![r] = k]
        /\ stodo' = [stodo EXCEPT ![r] = PassKeys(left) \ {k}]
        /\ tried' = [tried EXCEPT ![r] = seen \cup {k}]
        /\ pc' = [pc EXCEPT ![r] = "opening"]

\* `at` is the cursor.
StreamPass(r, left, at, seen) ==
    \E s \in Keys : \E k \in PassKeys(left) \ seen :
        /\ StartsAt(PassKeys(left), at, s)
        /\ FirstFrom(s, k, PassKeys(left) \ seen)
        /\ skey' = [skey EXCEPT ![r] = k]
        /\ stodo' = [stodo EXCEPT ![r] = (PassKeys(left) \ seen) \ {k}]
        /\ tried' = [tried EXCEPT ![r] = seen \cup {k}]
        /\ pc' = [pc EXCEPT ![r] = "opening"]

\* The key of the step is asked, once more.
Asks(r) == asked' = [asked EXCEPT ![r][skey'[r]] = @ + 1]

\* stream() raised: to the client, or into the chat() around it, which takes
\* it for an empty answer of its own key.
StreamRaises(r, left, outcome) ==
    \/ /\ r \in Chats
       /\ KeyFails(r, left, [secs |-> PerKeySecs, window |-> 0])
    \/ /\ r \in Streams
       /\ keyLeft' = [keyLeft EXCEPT ![r] = left]
       /\ Finish(r, outcome)

StreamBegin(r) ==
    /\ NewPool(r)
    /\ StreamPass(r, Fresh, 0, {})
    /\ asked' = [asked EXCEPT ![r] = [Fresh EXCEPT ![skey'[r]] = 1]]
    /\ UNCHANGED <<key, todo, maxRA>>

\* An empty reply of a deepseek model is asked for again as a stream of the
\* same pool, some of whose keys may be backed off by now.
ChatEmptyReply(r) ==
    /\ EmptyRetry
    /\ pc[r] = "calling"
    /\ StreamPass(r, keyLeft[r], idx[r], {})
    /\ idx' = [idx EXCEPT ![r] = NextIdx(@)]
    /\ Asks(r)
    /\ UNCHANGED <<keyLeft, key, todo, maxRA, reply>>

\* Fault: a pass that picked no key is followed by another.
StreamGoesRound(r, left) ==
    /\ stodo[r] = {}
    /\ PassKeys(left) \subseteq tried[r]
    /\ idx' = [idx EXCEPT ![r] = NextIdx(@)]
    /\ keyLeft' = [keyLeft EXCEPT ![r] = left]
    /\ UNCHANGED <<pc, locals, reply, asked>>

\* A pass picked no key.
StreamGivesUp(r, left) ==
    /\ stodo[r] = {}
    /\ PassKeys(left) \subseteq tried[r]
    /\ idx' = [idx EXCEPT ![r] = NextIdx(@)]
    /\ \E n \in {left[k] : k \in Keys} :
         IsShortestWait(n, left) /\ StreamRaises(r, left, Limited(n))

\* 429, timeout, connection error, 401 or 5xx from create(): the key is backed
\* off and the rest of the pass, then one more pass, is tried.
StreamOpenFails(r) ==
    /\ pc[r] = "opening"
    /\ \E secs \in StreamFailures :
         LET left == Cooled(keyLeft[r], skey[r], secs) IN
         \/ \E k \in stodo[r] :
              /\ FirstFrom(skey[r], k, stodo[r])
              /\ skey' = [skey EXCEPT ![r] = k]
              /\ stodo' = [stodo EXCEPT ![r] = @ \ {k}]
              /\ tried' = [tried EXCEPT ![r] = @ \cup {k}]
              /\ keyLeft' = [keyLeft EXCEPT ![r] = left]
              /\ Asks(r)
              /\ UNCHANGED <<idx, pc, key, todo, maxRA, reply>>
         \/ /\ stodo[r] = {}
            /\ StreamPass(r, left, idx[r], tried[r])
            /\ idx' = [idx EXCEPT ![r] = NextIdx(@)]
            /\ keyLeft' = [keyLeft EXCEPT ![r] = left]
            /\ Asks(r)
            /\ UNCHANGED <<key, todo, maxRA, reply>>
         \/ StreamGivesUp(r, left)

\* 403 is not among the errors stream() rotates on; nor is any other 4xx.
StreamDenied(r) ==
    /\ pc[r] = "opening"
    /\ \E kind \in {"denied", "raised"} : StreamRaises(r, keyLeft[r], Ended(kind))
    /\ UNCHANGED idx

StreamOpens(r) ==
    /\ pc[r] = "opening"
    /\ pc' = [pc EXCEPT ![r] = "streaming"]
    /\ UNCHANGED <<pool, locals, reply, asked>>

StreamCompletes(r) ==
    /\ pc[r] = "streaming"
    /\ \/ Finish(r, Ended("ok")) /\ UNCHANGED pool
       \/ /\ r \in Chats    \* collected nothing, or a placeholder
          /\ KeyFails(r, keyLeft[r], [secs |-> PerKeySecs, window |-> 0])
          /\ UNCHANGED idx

\* The open stream fails, after some chunks or before the first: iterating it
\* is outside the try, so either way the error is raised.
StreamBreaks(r) ==
    /\ pc[r] = "streaming"
    /\ \E kind \in {"raised", "stillborn"} : StreamRaises(r, keyLeft[r], Ended(kind))
    /\ UNCHANGED idx

-----------------------------------------------------------------------------
(* The caller and the clock *)

\* wait_for's timeout or a client that hung up cancels the coroutine.
Cancel(r) ==
    /\ pc[r] \in {"calling", "opening", "streaming"}
    /\ Finish(r, Ended("raised"))
    /\ UNCHANGED pool

OneSecondLess(n) == IF n > 0 THEN n - 1 ELSE 0

PoolTick ==
    /\ keyLeft' = [r \in Requests |-> [k \in Keys |-> OneSecondLess(keyLeft[r][k])]]
    /\ UNCHANGED <<idx, pc, locals, reply, asked>>

ChatStep(r) ==
    \/ ChatBegin(r)
    \/ ChatSucceeds(r) \/ ChatRejected(r) \/ ChatKeyFails(r) \/ ChatEmptyReply(r)

\* What a vendor's answer (or its absence, a timeout) makes of an open stream.
StreamAnswered(r) ==
    \/ StreamOpenFails(r) \/ StreamDenied(r) \/ StreamOpens(r)
    \/ StreamCompletes(r) \/ StreamBreaks(r)

PoolNext ==
    \/ \E r \in Chats : ChatStep(r)
    \/ \E r \in Streams : StreamBegin(r)
    \/ \E r \in Requests : StreamAnswered(r) \/ Cancel(r)
    \/ PoolTick

\* Time passes, and no vendor call hangs for ever: the SDK's own timeout and
\* the router's wait_for end it.
PoolFairness ==
    /\ WF_poolVars(PoolTick)
    /\ \A r \in Chats : WF_poolVars(ChatSucceeds(r) \/ ChatRejected(r) \/ ChatKeyFails(r))
    /\ \A r \in Requests : WF_poolVars(StreamAnswered(r))

PoolSpec == PoolInit /\ [][PoolNext]_poolVars

-----------------------------------------------------------------------------
(* Properties *)

InFlight(r) == pc[r] \in {"calling", "opening", "streaming"}

\* A dead key, an empty reply or a stream that raises inside a chat costs a chat its
\* turn with one key and never ends it (key_pool.py:429-434, 484-486), and nobody is
\* told that all keys are rate-limited who has not asked with each of them.
EveryKeyAsked ==
    \A r \in Requests :
        /\ reply[r].kind = "limited" => \A k \in Keys : asked[r][k] > 0
        /\ r \in Chats => reply[r].kind \notin {"denied", "stillborn"}

\* And no key is asked without end, although the list of keys is made anew when
\* all of it has failed and back-offs expire meanwhile: a stream asks with each
\* key once, a chat once and once more in the stream of each empty reply.
NoKeyHammered ==
    \A r \in Requests : \A k \in Keys :
        asked[r][k] <= IF r \in Chats /\ EmptyRetry THEN 1 + NKeys ELSE 1

\* Every request that reached a vendor comes back, through every rotation and
\* the stream inside a chat.
RequestsReturn == \A r \in Requests : InFlight(r) ~> pc[r] = "done"
=============================================================================

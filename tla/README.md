# A formal model of Anchor

Anchor is an OpenAI-compatible gateway (FastAPI, one event loop, Python under
`src/src/anchor/`). Every query goes to one of some fifteen *workers* (vendor
models); when a worker fails, the gateway cools it, retries, and walks a
ladder of other workers. Most of what can go wrong is state shared by requests
that interleave at their `await`s, and by background loops and a cron process
that edit the same state.

This directory holds TLA+ models of that core, TLC runs, and proofs checked by
TLAPS. `PROJECT.json` maps every definition to the lines it models.
Line references below are to `src/src/anchor/`.

## 1. Inventory

### How a request runs

    server.py  --- body limit, auth.py, key_quota.py (admission)
       |           semantic_cache (whole answers), cost.guard (month's cap)
       |           routing_decompose (cheap try, judge, planner, parts)
       |           fusion_modes / pareto / head (which worker)
       v
    routing_core._route_tier ---- sacred_guard (spend ledger per API key)
       |    |       \------------ release/circuit_breaker (is_quarantined)
       |    \-------------------- cooldown (is_cooling)
       v
    _call_worker -- baosi_concurrency.slot -- clients/key_pool -- vendor
       |                                          |
       \---- cooldown.trip()                      \---- cooldown.trip()
       v
    server.py  --- JSON reply, or a generator of server-sent events that walks
                   a chain of workers by itself; cost.append_log

    lifespan.py: recovery loop (clears cooldowns), quarantine sweep and
                 recheck loop (edit circuit_breaker.json), head save loop
    cron.py:     health-probe in its own process (edits circuit_breaker.json)
    POST /feedback: threads that teach the head beside the event loop

### Components

| Component | State it keeps | Operations | What is hard | What makes it correct |
|---|---|---|---|---|
| Multi-key pool `clients/key_pool.py` | of each call: rotation cursor, back-off deadline per key | `chat`, `stream`, cancellation | a call rotates over a list of keys computed before a vendor call and used after it; an empty reply starts a stream, with a rotation of its own, inside a chat | nobody is refused who has not asked with every key; no key is asked without end; every request returns |
| Worker cooldowns `cooldown.py`, `lifespan.py:20-64` | deadline per worker | `trip`, `is_cooling`, `clear`; the recovery loop's probe | three layers trip the same worker for one failure, each with a deadline of its own; the loop clears after an await | a long cooldown runs on (not when its probe was sent for a short one: a finding); workers come back |
| Quarantine `release/circuit_breaker.py`, `lifespan.py:66-136`, `cron.py` | `data/circuit_breaker.json` | sweep, recheck (by the loop and by an administrator), admin setters, cron's check | read-modify-write of one file by two processes that may die at any system call | never torn; a save changes one verdict (with cron neither: a finding and section 5); a healthy worker is let back in |
| Routing `routing_core.py`, `routing_fallback.py` | per request: chosen, primary, answer, walk | select, call, retry, back off, walk, judge | each override may undo the one before; up to three answers replace one another; the shared state moves during every await | the reply names who gave it; limits hold as far as the code can hold them; every request ends |
| BaosiAPI slots `baosi_concurrency.py`, `clients/base.py` | a semaphore with its queue, a counter | `slot`, `should_shunt` | counted at selection, taken later in another task; a waiter is timed out as it is handed a slot; a stream keeps its slot at its `yield` and its consumer may never come back | no slot is lost or made up; nobody sleeps beside a free one; who waits gets in; a shunt is not undone |
| Gateway `server.py` | progress of one reply | chat, responses, images; JSON or a stream | a stream that dies half-way goes on with other workers in the same message; three generators write frames by hand; the charge comes after the last frame; the client may hang up at any frame | the text is shown whole and once; the frames keep to one protocol; charged once and only for an answer; every reply ends |
| Decomposition `routing_decompose.py` | parts of a query | cheap try, judge, plan, answer parts | parts fail one by one, are answered by a second worker, and are kept under names a model chose | each part at its place |
| API-key quotas `auth.py`, `key_quota.py` | sliding window of calls, tokens per day (three stores) | `check`, `usage` | the clock is read before the lock; Redis looks before it adds | no minute admits more than its limit; nobody is refused without cause |
| Sacred ledger `sacred_guard.py` | spend per client (memory, SQLite or Redis) | check, record, reset | read before the call, written after it; stores come and go | a key overshoots by its calls in flight only |
| Money `cost.py` | daily logs, one old file, two counters | `guard`, `append_log` | crash between the writes; midnight between the write and the count; the cap is read before the call | the counters follow the log but for what restarts forget; so does the cap, and by the calls in flight |
| Response cache `semantic_cache.py` | entries in memory or in a table | look-up, search, store, prune | awaits between look-up, call and store; a transaction in which time stands still | an entry is served within its time to live, in all of it, and not after (of the table it is not so: section 5) |
| Readiness `readyz_probe.py` | the last probe's result | `GET /readyz` | probes overlap and end in any order | "ready" is true of a recent moment |
| Learned head `head.py`, `feedback.py` | priors, weights, a snapshot file | learn, predict, save, load | threads learn while the loop reads and saves without the lock | nothing learned is lost; weights never know more than the priors |
| Judging `judge.py`, `judge_quality.py`, `judge_calibration.py` | table of verdicts, the oracle's answer | panel, verdicts, score | judges fail, overlap, and share rows of a table | a score rests on what enough judges really said |
| Routing rules `fusion_modes.py`, `classifier.py` | none | type, difficulty, worker and length for a text | some twenty lists of words and a dozen thresholds that overlap | hard work is not given to the free worker; more never counts less, but for a question that goes on and asks no more |
| Price and quality `pareto.py`, `quality_feedback.py`, `cp.py` | overlay of observed quality, its file, intervals | choose, observe, save, load | floors, doubt and costs pull in different directions; the file is not written atomically | better quality never costs a worker the pick; observations survive a restart |
| Tool protocol `tool_protocol.py` | none | repair of a conversation | ids missing, repeated, late or foreign | strict for the vendor, and all that was taken over from the client is there |
| Administration, logs, CLI, offline training, single-key clients | files | reports and setters | little | — |

The full list, with source files and status, is `components` in
`PROJECT.json`; the hazards, each at the line where it bites, are `hazards`.

## 2. Modules

| Module | Models | Composes |
|---|---|---|
| `KeyPool` | the multi-key pools of one worker, one for each call | — |
| `Cooldown` | the cooldown table, routed calls that trip it, the recovery loop | — |
| `BreakerStore` | abstract: a register of verdicts and the kill switch, changed one decision at a time | — |
| `CircuitBreaker` | the file behind it: open, write, replace; server and cron; crashes | implements `BreakerStore` |
| `KeyQuota` | the calls a minute and tokens a day of one API key, in Redis, SQLite or memory | — |
| `BaosiSlots` | the gate of BaosiAPI: its semaphore, the chats and the streams that hold it | — |
| `RouteTier` | requests through `_route_tier()` | uses the cooldowns, the quarantine, the slots and the ledger as shared sets |
| `EventStream` | abstract: what the client of a streamed reply may rely on | — |
| `Decompose` | `_maybe_decompose()`: cheap try, judge, planner, parts | — |
| `ChatReply` | one HTTP request from its body to the last frame of its reply | EXTENDS `Decompose`, implements `EventStream` |
| `CostLedger` | `cost.py`: logs, counters, cap, through crashes and midnights | — |
| `SacredLedger` | `sacred_guard.py`: buckets in three stores, through restarts and outages | — |
| `ResponseCache` | `semantic_cache.py`: in memory and in its table | — |
| `ReadyProbe` | `GET /readyz` with overlapping probes | — |
| `HeadLearning` | what threads learn, predict, save and load | — |
| `Judges` | the panel, the table of verdicts, the score | — |
| `RuleLadder` | type, difficulty, worker and length of a text | — |
| `ToolProtocol` | the repair of a conversation with tools | — |
| `Pareto` | the choice by price and quality, its overlay and file | — |
| `Limits` | what a call meets on its way to a vendor: cooldown, gate, keys; one moving at a time | EXTENDS `KeyPool`, `Cooldown`, `BaosiSlots` |
| `Stores` | several parts that keep a state and share none, one moving at a time | EXTENDS `CostLedger`, `SacredLedger`, `ResponseCache`, `ReadyProbe`, `HeadLearning`, `Judges`, `KeyQuota` |
| `Rules` | the parts that compute, one going on at a time | EXTENDS `RuleLadder`, `ToolProtocol`, `Pareto` |
| `*Proofs` | theorems of the module they are named for; those of `Stores` and `Rules` are of their parts, and of the parts together | EXTENDS it and TLAPS |
| `MC*` | small instances for TLC | EXTENDS one module |

Definitions whose comment begins with "Fault:" are plausible bugs of the
operator that follows them. No specification uses them; each property is
tried against one of them (`mutants`), to see that it can fail.

### How state and actions correspond to the code

**KeyPool.** A coroutine gives up the loop only while a vendor call is in
flight, because the asyncio lock guards bodies without an await. So a step is
the code from one vendor answer to the next vendor call. `pc` says which await
a request is suspended at; `key`/`todo` are the key in flight and the rest of
`ordered`, `skey`/`stodo`/`tried` the same for `stream()`. The deadlines of
`_key_until` are kept as whole seconds left, counted down by `PoolTick`. `Cancel` is a client
that hangs up. Both key strategies are modelled; the runs use round-robin. `build_client()`
(`clients/factory.py:30`) makes a pool for each call, so the cursor and the deadlines are a
request's own and start anew with it (`NewPool`). The window armed when all keys have failed
(`key_pool.py:515`) is one of that pool too, and nobody reads it: it and the early returns for a hot
one (365-374, 546-551) are left out. That the worker is tripped as well is in `Cooldown`.

**Cooldown.** `left[w]` is the time to `_until[w]`. `CallFails` makes all
the trips one failed call makes, in their order: the pool's, with the vendor's
window, then `_call_worker`'s with the default of the worker's name, then (for a
primary) `_route_tier`'s. A trip writes its deadline over whatever is there. The recovery loop takes a snapshot, probes one worker
after another, and clears. The statistics behind `trip_empty_rate` are a free choice.

**CircuitBreaker.** `live` and `tmp` are what the two path names hold,
`fd[p]` the file a process has open: `os.replace` moves the temporary file under
the hands of whoever has it open. `SaveStep` is one system call. The lock of
the module serializes the server's own updates, so they take effect one at a
time; cron's process does not hold it. `Rechecks` are the loop and, one at a time, an
administrator's `POST` that does the same (`admin.py:354-369`): `probe`, `due` and `clearing`
are kept for each, and `saver` says whose save is in progress, since a save that fails ends
that recheck and no other. Which worker the statistics condemn is a free choice.

**KeyQuota.** A call reads the clock (`ReadsClock`) and is decided later: in one step
by memory, under its lock, and by SQLite, in its transaction (`Decides`); in two
by Redis (`RedisLooks`, `RedisAdds`), whose pipelines are atomic each. A store may be out of reach
(`Breaks`, nothing is changed); Redis may also have done what it was told when its reply is lost
(`RedisReplyLost` after the first pipeline; after the second the request fails and its call is
entered all the same, which is `RedisAdds`). `usage()` runs
in a thread beside the event loop (`ViewAsks`, `Views`) and prunes too.
`log[s]` is the history of what was entered in a store, `rows[s]` says which of it
the store still has: the rows of `key_rpm`, the sorted set, or `window`. A process
picks its store at its first call and keeps it; memory is lost with the process
(`Restarts`) or with its entry (`Evicts`).

**RouteTier.** There is no await between the entry of `_route_tier()` and
its first vendor call, so `Arrive` is one step: `Selected` composes the
overrides in the code's order (quarantine, BaosiAPI shunt, cooldown, sacred cap,
budget, enabled). `PrimaryAnswers`, `RetryAnswers`, `Wakes`, `FallbackAnswers` and
`JudgeAnswers` are the code from one await to the next. `TakesSlot` is separate,
because the semaphore is taken in the task `wait_for()` starts. `Turn` is the
order of `_fallback_candidates()`: better workers upwards, then worse ones
downwards, then the rest, then Kilo. Predictions, rules, prices' effects and the
judge's verdict are free choices; the registry's tables are constants.

**BaosiSlots.** `value`, `waiters` and `woken` are `asyncio.Semaphore`'s; the module of the standard
library is external. `Passes`, `Queues`, `GetsIn` and `GivesUp` are `acquire()` on its four ways,
a time-out of one that was just handed a slot among them; `Leaves` is the `finally` of
`slot()`, which `Finishes` reaches. A stream yields with its slot in hand (`Yields`); a consumer that is cancelled or
breaks out of its loop only drops the generator (`Abandons`), which the event loop closes
later (`IsFinalized`). `RouteTier` needs of all this the number of slots in use.

**ChatReply, Decompose, EventStream.** `pc` is the await or the yield the handler
is suspended at; `wire` is the list of frames sent, each with the workers whose
tokens it carries. `Admits` enters `Decompose`, whose `stage` is its await;
`DecomposeStep` is one of its steps and, at the last, what the handler makes of the
result. `Selects` and `Routed` stand for `_route_tier()`. A script is the
list of frames a generator writes without an await in between that could change
them (`Says1`, one frame a step, as each `yield` is a place to be cancelled);
`Delta`, `StreamFails`, `FallsBack`, ... are the loop of `_gen()`. `Shows` is its
treatment of `<think>` and of a bare `<`, one letter of a text being a whole
delta or tag. `EventStream` has seven transitions of a client's view; the
refinement mapping reads the view off the last frame (`PhaseOf`). An answer of kind
"badtools" has a tool call whose function is no object. A Responses stream meets it in the middle:
its `except` branch (`server.py:1989-1993`) writes `error` and then `response.completed` of the status
failed, after the frames already sent (`ResponsesEnd`), which `EventStream` has as `Breaks` and
`Fails`. A chat stream with tools meets it after its first frame, and nothing catches it (`Torn`). A planner whose
JSON is an object, or a list of other things than objects, raises outside the `try`
(`routing_decompose.py:122-123`) and ends the request in a 500 (path "raised").

**CostLedger.** `append_log()` is three steps (`Logs`, `Mirrors`, `Bumps`), with
only a crash or midnight between them, as it never gives up the loop. `dated` are
the daily logs and `legacy` the one old file, both as sums by day and month;
`counters` are `_month_total` and its companions, loaded from the old file. `hasLegacy` says
whether that file is there; `forgotten` is the history of what the restarts of each month lost:
with the file, the entry a crash left out of it; without, all that was logged before.

**SacredLedger.** `Checks`, `Records` and `Resets` are the calls of
`routing_core.py` and of the administrator; `StoreOf` is `get_store()`. A restart
ends the requests of its process and may meet another outage.

**ResponseCache.** `Looks`, `Searches`, `WorkerAnswers` and `Stores` are the code
between the awaits for the embedding and for the worker. `began` is when the
table's open transaction began, which is what its `NOW()` returns.

**ReadyProbe.** `Visits` begins a probe or answers from the last one; `Pings` is
one worker's answer. `Keeps` leaves the result under the time the request came.

**HeadLearning.** `Enters`, `MovesPrior` and `MovesWeights` are `update()` under its
lock; `Predicts`, `Features` and `Predicted` read beside it; `Saves`, `Copies`,
`Truncates` and `Fills` are the snapshot, one read or system call at a time. A prior
carries the number of its moves and `weights` the number of outcomes, so that
"lost" can be said; the numbers themselves are not modelled, but for the floors.

**Judges.** `Panel` is the choice of judges, `JudgesLook` their look-ups, which all
happen before any call returns, `JudgeReplies` a call's end with its row of the
table, `Tallies` the score.

**RuleLadder.** A text is the set of the words it has, a length, a question mark;
`TextType`, `Signals`, `Difficulty` and one operator per branch of
`_difficulty_aware_route()`. A step adds a word, length or the question mark; as `is_question`
is `endswith("?")`, a text that goes on keeps its question mark or loses it, by free choice.

**ToolProtocol.** A step adds a message. `Turn` is the loop's body of
`normalize_tool_protocol()`, folded over the conversation by `Normalized`; `Raw`
is the conversion of the Responses API's items: one with a role is a message and takes its calls
along, one without a role and without text is dropped (`server.py:604-622`).

**Pareto.** `Select` is `select_pareto()` over a pool; `Resolves` calls it, `Judged`
and `Persisted` are an observation and its file, `ParetoRestarts` a new process.

**Limits, Stores, Rules.** One `part` moves and the others rest in one state, so the
states of the parts add up. None reads another's state in the code either (that a pool out of
keys trips its worker is `CallExhausted` of `Cooldown`, for any window); of `Stores` and `Rules`, that a behaviour of them all is one of each is a theorem (`EachPartIsItself`).

Where the order of a list does not matter, or is the order of other data, the list
is a set: the entries of the cache carry their number (`no`), a panel of judges is
the judges of the first seats (`Seat`), and a pool of workers is a set whose order is
that of the pool it was filtered from (`Before`).

## 3. Runs

| Run | Question | What it shows |
|---|---|---|
| `Limits` | keys: a chat, whose empty replies become streams, and a stream, on keys that fail, back off and recover meanwhile: is a key left out, or asked for ever? Cooldowns: does every worker come back? BaosiAPI: two chats and two streams at a gate of two, timed out, cancelled and abandoned at every await | nobody is refused unasked and no key asked for ever (`EveryKeyAsked`, `NoKeyHammered`), every request returns (`RequestsReturn`); workers come back once vendors stop failing (`PoolHeals`); no slot is lost or made up, the count is that of the slots in use, nobody sleeps beside a free one (`SlotsConserved`), who waits gets in or is timed out (`WaitersGetIn`) |
| `CooldownProbe` | does a cooldown that is long when its probe comes back run on? | no, the recovery loop clears it (finding: `LongCooldownsRunOn` fails) |
| `BreakerServer` | the server alone, dying anywhere | `NeverTorn`; one verdict per save: it implements `BreakerStore` (`ImplementsStore`) |
| `BreakerCron` | with cron, does a verdict just saved stand? | no, cron saves an older one over it (finding: `VerdictsStand` fails) |
| `BreakerLive` | with cron, and whatever torn file was left, and administrators who recheck, clear and switch: does a healthy worker return? | yes (`HealthyWorkersReturn`) |
| `RouteTierShared` | two requests share cooldowns, quarantine, slots and the ledger | overshoot bounded by a call of each (`SacredOvershoot`); the shunt is undone only where everybody else of the pool cools or is in quarantine (`ShuntHolds`) |
| `RouteTierWalk` | one request and the whole ladder | the reply is honest (`ReplyHonest`), and comes (`RequestsEnd`) |
| `RouteTierCap` | does the hard cap keep a key from sacred workers? | no: the fallback walk never looks (finding: `SacredCapHolds` fails) |
| `GatewayReplies` | one request of each kind of each entry, through every failure of vendors, judge and planner, with a client that may hang up | text shown whole and once across a fallback (`TextIsWhole`), merged answers whole (`MergedWhole`), charged once and only if a worker answered (`ChargedOnce`), one protocol on every path, those that break off in the middle of an answer included (`ImplementsEventStream`), an end (`RepliesEnd`) |
| `Stores` | each part with a state of its own, through crashes, midnights and overlapping requests | the counters follow the log, and the caps are overshot by calls in flight only, but for what restarts forget (`CountFollowsLog`, `CapOvershoot`); a key's spend is bounded (`KeySpendHolds`); answers cached in memory live exactly their time (`MemoryKeepsTTL`); nothing learned is lost (`LearnsInTurn`, `WeightsHavePriors`); "ready" is recent (`ReadyReflects`); scores are earned (`ScoreIsEarned`); late and stale calls, restarts and a midnight break no limit of a key (`MinuteHolds`, `DailyHolds`), but for Redis, by a call of each other process (`RedisOvershoot`), and nobody is refused without cause (`RefusalsJustified`) |
| `HeadTorn` | does a prediction read the moment it locked for? | no: it goes on reading the live table (finding: `PredictsFromOneMoment` fails) |
| `Rules` | every text of two words and any length, in nine environments; every conversation of four messages, over both APIs; choices by price and quality under tables, judgments, doubts, quarantines and restarts | the named worker may be named (`NamedAllowed`); more never counts less, unless a question goes on and asks no more (`MoreNeverCountsLess`); a repaired conversation is strict (`Strict`), would be repaired to itself (`Idempotent`), says all that was taken over and nothing twice (`NothingLost`), each result after the turn that called it (`AnswersItsCall`); quality never counts against a worker (`BetterKeepsThePick`), observations survive a restart (`OverlayKept`) |

Every detailed module has a type invariant, and each is proved (section 4; that of
`CircuitBreaker` without cron, and but for that of `BaosiSlots`, which `SlotsConserved` contains but
for the shape of the queue). TLC checks `TypeOK` of `ChatReply` only, whose sequences and counters are the least obvious;
the others are left to the prover, which says more. `MCRouteTier` and `MCStores` also have TLC evaluate the
hypotheses of two theorems, `BaosiLast` and `OneMayFail`.

### Bounds, and why they are enough

- *KeyPool*: two keys, one chat slot, one stream slot, each used again and
  again, on a new pool each time. Two keys are where rotation, "all failed" and the two moduli
  (`len(avail)`, `len(keys)`) first differ; the chat's nested stream makes three
  code paths over the same keys. Durations keep the order 30 < 60 < hours
  in 1 to 3 seconds, short enough for a key to come back within a rotation. The theorems cover any number of keys and requests.
- *Cooldown*: two workers (one behind a pool), two calls in flight. Seconds keep
  15..30 < probe limit < 90 < 120..300 < the 600 of an empty-rate cooldown.
- *CircuitBreaker*: two workers for the server alone (a save about one must
  leave the other be), one with cron, where the interleaving is about the file
  and not about workers. One administrator rechecks at a time. In `BreakerLive` administrators
  only switch the kill switch off (`Switches`), which keeps its liveness within minutes; a
  switch is one more save, which is there.
- *KeyQuota*: two processes, two calls a window of 3 s, a delay of one second
  (SQLite waits 5 s for a lock, of a window of 60), a day of five seconds. `OneStoreEach` has all
  processes on one store, or one process on its memory: stores do not
  influence each other, and the theorems have any mixture.
- *RouteTier*: `RouteTierShared` has two requests and three workers, one of
  which stands for the free worker and for the image worker; `RouteTierWalk` has
  one request, five workers and three attempts. `SacredCost` = `HardCap` = 1 and
  `Gate` = `ShuntAt` = 1 put every limit within reach of one call. The budget of `RouteTierShared`
  allows every worker, because one that bites takes the sacred worker out of selection; the
  override is exercised by `RouteTierWalk`, whose budget is lower, and `ShuntIsKept` has any budget. `Suspects`
  bounds whom the sweep may condemn; with all of them the whole pool may be in
  quarantine, where the shunt has nobody to turn to. The two requests are alike, so one of
  each two mirrored states is looked at (`SYMMETRY Alike`; the run has no liveness). Two
  requests over the long ladder are out of reach; what two requests can do to each other goes through the
  shared sets, which `RouteTierShared` has.
- *BaosiSlots*: two chats and two streams at a gate of two: a slot held by a stream and one by a
  chat, and two calls to wait in front of which either may be timed out as it is handed a slot.
- *ChatReply*: one request, since replies share nothing that the module has. Two
  deltas an attempt let a tag open in one and close in the next, and a failure
  come between; a chain of one worker and one of three have a first, a middle and a
  last. Two subtasks with two ids may have the same name. One byte of body is within
  the limit, one is not. The theorems have any lengths.
- *Stores*: two processes, two requests in flight (which may be in one process or in
  two), three days that make two months, entries that live one tick of two,
  prices and caps within reach of one call. `TurnLimit` and `OutcomeLimit` bound the
  head. Pools of judges have four, two and too few families. Larger instances
  were run once by hand, with the same result: the ledgers and the cache with bounds raised
  by one (618,000 states), the head with more outcomes and turns (1.3 million), the
  judges with two workers sampled (1.1 million).
- *Rules*: of each list of words there are one or two, so that each list and each
  overlap of lists that share a word is there; two words a text (three were
  tried once by hand, 617,000 states, with the same result). The lengths stand on either side
  of every threshold. `MCEnvironments` are the configuration of config.py
  and those in which one ladder's rung is missing, cooling, or calibrated
  differently. Four messages are an assistant's turn of up to two calls with two results
  and something in between or after.

### Fairness

- `Limits` is fair to each of its parts; a part that rests has no call under way and no
  second to run down, so that none of its fair actions is enabled.
- *KeyPool*: time passes; every vendor call ends (the SDK's time-out and
  `wait_for` see to it). Nothing obliges a client to call or to hang up.
- *Cooldown*: time passes, calls and probes end (`wait_for`, 30 s), the loop
  starts the next probe of its snapshot.
- *CircuitBreaker*: weak for a save in progress and the sweep's judgement; strong
  for the recheck loop's steps, which compete for the lock with administrators
  and the sweep and are interrupted by crashes: a server that is restarted goes
  through its loop again. A clear that follows a good probe comes (weak). Nothing is assumed of
  whether administrators act, of cron, or of what the statistics say.
- *BaosiSlots*: a woken task runs (weak); a call's vendor answers or is timed out, strong for
  a stream, which yields and resumes, because a stream has finitely many chunks; a
  client reads its frames or leaves (weak); a generator nobody holds is closed by the event loop
  (weak).
- *RouteTier*: each vendor or judge call answers or times out, and each
  sleep ends. Nothing is assumed of slots: a call that never gets one times
  out.
- *ChatReply*: weak for the handler's own progress as a whole: vendors' calls and
  the wait for the next delta have time-outs. Nothing is assumed of the client,
  neither that it hangs up nor that it ends its body.

## 4. Proofs

Each theorem holds for all values of the constants that satisfy the module's
named assumption.

| Theorem | Statement | Argument |
|---|---|---|
| `KeyPoolProofs!TypeCorrect` | `Spec => []TypeOK` | part of the invariant of the next two; the facts about a chat's and a stream's step are lemmas |
| `KeyPoolProofs!NobodyIsRefusedUnasked`, `KeysAreNotHammered` | `[]EveryKeyAsked`, `[]NoKeyHammered` | `Inv(r)`: the key in flight, the keys still to come in the list and those tried have been asked as often as `Spent` says, which counts the turns that are over by the length of what is left of the list; a stream's tried keys and its list are all of the keys whenever the list is made anew, so that a pass can only end with every key tried |
| `CooldownProofs!TypeCorrect`, `KeyQuotaProofs!TypeCorrect` | `Spec => []TypeOK` | inductive, the second with facts about the call in progress |
| `CircuitBreakerProofs!TypeCorrect`, `NoTornFile`, `OnlyJudgedChange`, `FileIsStore` | `~Cron => ...` | one invariant: the file a save has open is the temporary one, empty before its write and complete after it, and the state about to be saved differs from the live one by one decision (`OneEdit`). Without that clause the refinement fails at `Replaces`, which would map to a jump |
| `KeyQuotaProofs!MinuteIsKept` | `[]MinuteHolds` | `IInv`: admissions are logged in order, a time stamp lags by at most `MaxLag`, and what has been dropped is outdated *now*, whoever dropped it. So if the last `Rpm` admissions were too close, all of them would still be kept, and the store would have refused (`RoomMeansSpaced`) |
| `KeyQuotaProofs!DayIsKept` | `[]DailyHolds` | SQLite's counter equals what it granted (`DayInv`) |
| `RouteTierProofs!TypeCorrect`, `RepliesAreHonest` | `[]TypeOK`, `[]ReplyHonest` | `IInv`: types, and `Phase(r)`: until the reply the worker *is* the primary, and from its first answer on the answer kept is its own. `ReplyHonest` alone is not inductive: it says nothing before "done". That selection always names a worker rests on `LeastExists` (a finite set of positions has a least member), proved by well-founded descent |
| `RouteTierProofs!OvershootIsBounded` | `[]SacredOvershoot` | the invariant counts what sacred primaries in flight may still spend: a selection adds one only below the cap (`SelectedProperly`), an answer turns one into money |
| `ChatReplyProofs!RepliesFollowProtocol` | `ImplementsEventStream` | `Leads(p, frames, q)`: these frames may follow phase p and leave q; it composes under concatenation (`MoreFrames`), so that each script is led from "idle" to "closed", or to "failed" where a tool call cannot be told, once, for any chunks and items. The invariant: the rest of the script may follow what was told, and a stream of text in progress stands at "message" |
| `ChatReplyProofs!BilledOnce` | `[]ChargedOnce` | `Charge` says at each wait who has been charged: nobody before the answer, the router's worker before the first frame, nobody while a stream of text runs |
| `ChatReplyProofs!MergedAnswersWhole` | `[]MergedWhole` | `Parts`: the subtasks before the one in flight have their own answers; an answer kept under a name of its own disturbs none of them |
| `ChatReplyProofs!StreamedTextsWhole` | `[]TextIsWhole` | `Texts`: the counters `emitted` and `femitted` are the lengths of what is shown of either text, the fallbacks' text is empty until the first worker has failed, and the script after a stream has no text. A delta adds one token to what is shown or none (`ViewGrows`, `ShowsType`), so that what is pending completes it (`PendingIs`); the text of frames grows with each (`FlattenGrows`). What a loop over a text computes is got hold of by the smallest number of rounds at which it could differ (`LoopRuns`, `LoopsAgree`), as no induction theorem can be used |
| `ChatReplyProofs!TypesAreKept` | `[]TypeOK` | the invariants above, `Chosen` (a stream has a chain, and stands at a worker of it) and `Rest`; that `emitted` is within the text is `VisibleType` |
| `KeyQuotaProofs!RedisIsBounded` | `[]RedisOvershoot` | `RoomInv`: the calls admitted within the window less a delay, and the processes that have looked and not yet added, are together at most `Rpm + Procs - 1`. A process that looks finds room for its own call, and all others may have found the same room; an addition only moves one from the second count to the first |
| `KeyQuotaProofs!RefusalsAreJustified` | `RefusalsJustified` | what counted against the call are rows still kept and not outdated by its own time stamp; each is in the log, admitted no earlier than its time stamp says, and the call's stamp lags by `MaxLag` at most |
| `RouteTierProofs!ShuntIsKept` | `BaosiLast => (Spec => ShuntHolds)` | by cases over where the shunted request goes: each later override keeps a worker that is not BaosiAPI's, or takes the first by place or the cheapest, and by `BaosiLast` both are not BaosiAPI's while another of the pool is free (`BudgetStaysFree`, `CheapestIsFree`) |
| `StoresProofs!CountIsTrue` | `[]CountFollowsLog` | an invariant relates the logs, the old file, the counters and the entry in progress: the old file is short of the log by what is being copied and what was torn, and never ahead of it; a loaded counter is short of the log by what is being counted and what was torn, and ahead of it by one price at most, and only without a cap |
| `StoresProofs!OvershootIsBounded` | `[]CapOvershoot` | each request that has passed the guard has its price set aside (`Reserved`): it was below the cap when it passed, by a count that is short of the log by `forgotten`. On a fresh install `forgotten` is all that was spent before the last restart, so there the bound is one of the process's life (section 5) |
| `StoresProofs!KeySpendIsBounded` | `[]KeySpendHolds` | the bucket of a key holds what the key spent, because a session id never names the bucket of a request that has a key; calls in flight have their price set aside |
| `StoresProofs!EntriesLiveTheirTTL` | `[]MemoryKeepsTTL` | with `KeysKept`: in memory, what was stored within its time is under its key and in the list, as the entry that was stored. A pruning keeps this because what it drops is outdated at that moment, and a later entry of the key replaces both. What was served is judged at the moment it was served. Nothing of this is so of the table (section 5) |
| `StoresProofs!ReadyIsEarned` | `ReadyReflects` | `ReadyInv`: a success that is kept is of a probed worker that has answered at the time it is kept under or after it (`AnsweredSince`); a worker that is up could answer this second |
| `StoresProofs!OutcomesAreKept`, `WeightsFollowPriors` | `[]LearnsInTurn`, `[]WeightsHavePriors` | `HeadInv`: one thread at most is inside the lock, and the priors' moves and the weights are what was learned since the start but for that thread's share (`Held`); the weights of a snapshot in progress are covered by the cells it has copied and those still to be copied as they are now (`Covered`). The sum of the moves over the cells is a fold; that it grows with each cell, and by one with one move, is shown by the smallest set of cells for which it would not |
| `StoresProofs!ScoreIsTheJudges` | `OneMayFail => (JudgeSpec => ScoreIsEarned)` | `JudgeInv`: each ballot of a panel (`Spoken`) and each verdict of the table (`Remembered`) is its judge's own, said of that reference. A panel with at most one vote missing has a ballot with as many votes as "MISSING", and at a tie the letters A and B come first or the two others have two |
| `RulesProofs!NormalizedIsStrict`, `SentIsStrict` | `IsStrict(Normalized(messages))`, `[]Strict` | the loop's invariant `Good`: what is out, followed by a stand-in result for each call of the active turn, is strict, and every id out is in use. A flush replaces the stand-ins by results of the same ids (`Answered`); an orphan and a turn bring ids that nobody has (`FreshIsNew`). The fold over the list is a function on sets of places, found by the smallest set that has none (`FoldOverListExists`); so the loop's states are a run (`NormalizedRun`), to be followed to its end (`ToTheEnd`) |
| `RulesProofs!NothingIsLost` | `[]NothingLost` | `Carries`: the bodies that are out, waiting in the active turn or unnamed are those of the messages read so far, each once (`Once`, `Whole`) and in order (`InOrder`), and an open turn has a call more than it has results (`Room`). A flush gives its unnamed results to the unanswered calls by rank; `Room` says that each finds one (`RanksGrow`, `RanksAreAll`) |
| `RulesProofs!RepairIsIdempotent` | `[]Idempotent` | what comes out is `Settled`: each turn has its results behind it, each id named once. `Repeats`: a second pass over it has copied the list so far, or stands in a turn with the results it has read |
| `RulesProofs!ResultsFindTheirCalls` | `[]AnswersItsCall` | `Open`: while results of a turn are still to come the turn is open, an answered call was named by one that came, and the calls without a result are, but for the unnamed, as many as are to come; so the turn is not flushed early. What stands behind its call is moved by no later message (`StepPlaces`) |
| `RulesProofs!NamedIsAllowed` | `[]NamedAllowed` | `RouteAllowed`: each branch of the ladder names a worker that its own conditions allow (`BranchesAllowed`), given what the pickers return where nobody is enabled, healthy or calibrated (`Pickers`, `CalibratedType`) |
| `RulesProofs!MoreIsNoEasier` | `MoreNeverCountsLess` | each signal is at least as strong for a larger text that asks when the smaller did (`SignalsGrow`); so is the strongest and the bonus for the others. With the same words the type stays (`TypeStays`) and each threshold of the ladder is passed by the longer text where the shorter passed it (`ClimbsHigher`, `SacredGrows`) |
| `RulesProofs!BetterIsNoWorse` | `[]BetterKeepsThePick` | each of the three choices is the first by keys that order a pool (`FirstExists`), so the pick of `select_pareto()` is the one worker that is ahead of all others. A better score leaves it in every list it was in, joins it to no worse one, changes nobody else's (`OthersKeepTheirScore`), and lowers what its failures cost (`CostsFall`), so it is still ahead (`PickStays`) |
| `RulesProofs!ObservationsSurvive` | `OverlayKept` | `Mirrored`: while nothing is being written the file holds the overlay |
| `RulesProofs!RuleTypeCorrect`, `ToolTypeCorrect`, `TypesAreKept` | `[]RuleTypeOK`, `[]ToolTypeOK`, `Spec => []RulesTypeOK` | the invariants above; means, quantiles and intervals stay percentages (`IntervalType`), as a sum of n of them is at most 100 n |
| `StoresProofs!TypesAreKept` | `Spec => []StoresTypeOK` | the invariants of the parts, and that the moving part stays the same |
| `StoresProofs!StoresKeepTheirWord`, `RulesProofs!RulesKeepTheirWord` | all of it, of the parts together | `EachPartIsItself`: a step of one part is a stutter of each other |

`RouteTierAssumption` says that the registry has an enabled worker that is not
sacred, and that a sacred worker costs at least as much as each of those;
config.py's prices do. The second is needed: the budget override runs after the
sacred cap and could otherwise choose a sacred worker again.
`SacredAssumption` has a positive cap: at 0 no sacred call would pass, and the
constant of the code is 10.

`BaosiLast` says that BaosiAPI's workers stand behind the others of the pool, by
place and by price, and that the cheapest enabled worker is not one of them, as in
the pool that config.py builds (834-848). It is a hypothesis and no assumption,
because a configuration may differ; without it the override for a cooling worker may
go to BaosiAPI although another is free. `OneMayFail` says that a panel may lack
one judge at most for its score to count: with the defaults, two of three (config.py:673,
676), it holds; where `ANCHOR_MIN_JUDGE_PANEL_SIZE` is 1 it does not, and a score may rest on
a failure taken for a vote (section 5).

`ParetoAssumption` has natural prices, percentages for qualities and floors, and a hard
floor no higher than the floor; `RuleAssumption` has at least one worker enabled (the
gateway does not start without), a length for every word, and a pick by price and quality
that is an enabled worker or none.

The breaker theorems assume that cron is not installed; with it they are
false (`BreakerCron`, and section 5).

*Model-checked only*:

- liveness (`RequestsReturn`, `PoolHeals`, `HealthyWorkersReturn`, `RequestsEnd`, `WaitersGetIn`,
  `RepliesEnd`), which is out of the prover's reach;
- `SlotsConserved` and the types of `BaosiSlots`. Two places are where a hand-over and a
  cancellation meet; its proof is left (section 7).

## 5. Findings

Four runs end in a violation of what a comment or docstring says; `findings`
quotes the lines. The recovery loop clears a long cooldown that was armed during its probe
(`CooldownProbe`). Cron's check saves an older verdict over a newer one (`BreakerCron`). The sacred
hard cap does not bind the fallback walk (`RouteTierCap`). A prediction reads priors newer than
the weights it took with them under the lock (`HeadTorn`).

Other disagreements met while modelling, without a run of their own. "Against" names
the line that says otherwise.

*Keys and cooldowns*

- The window a pool arms when all keys have failed turns nobody away, as no other call has that
  pool (`factory.py:30`, against `key_pool.py:503-505`, "so the *next* caller within ~90s
  short-circuits").
- `trip()` writes its deadline whatever is armed (`cooldown.py:47`): a call of flash that was in
  flight and times out leaves 30 seconds of the 600 of an empty-rate cooldown (against 134-136,
  "so subsequent requests skip flash entirely").
- As a pool lives for one call, all callers start on key 0 (against `key_pool.py:386-387`).
- A vendor's Retry-After is overwritten by the next layer's default
  (`routing_core.py:352`, against `cooldown.py:29-31`).
- A stream that fails at its first chunk is not tried with another key:
  `async for` (`key_pool.py:644`) is outside the `try`, although "Failover only fires
  when the upstream `create(...)` or the first `__anext__` raises" (542-543).
- The window is armed whenever no key is available (`key_pool.py:515`), not only
  when all of them were refused (92-93). `stream()` gives up on a 403, `chat()`
  rotates (641, 523). A Retry-After met inside the nested stream is lost (497, 376-377).
- The recovery loop's failed probe trips a worker behind a pool (`lifespan.py:41`, against 54).
  `trip_empty_rate` extends a running cooldown
  (`cooldown.py:241`, against 224).

*Quarantine*

- The temporary file has one name (`circuit_breaker.py:125`): cron opens it, and so empties it,
  between the server's write and its `os.replace()`, and an empty file is renamed into place, which a
  reader takes for the default state, without any quarantine (against 124, "a crash
  mid-write never leaves a torn file").
- `NeverTorn`, `VerdictsStand` and `ImplementsStore` hold of the server alone, as their theorems say;
  cron.py tells the operator to install cron beside it (`cron.py:20-21`). Where two processes save
  at once, one may also find no temporary file to rename (`ServerSaveFails`).

*Routing*

- The judge's verdict in the fallback walk changes nothing: the answer is
  taken in every case (`routing_core.py:1012`, against 982-983). `_vp_flag` of a failed primary stays
  set when the fallback was good (1024-1046, against 1036-1037).
- `_maybe_kilo` appends a worker without vision after the vision filter
  (958-960, `routing_fallback.py:87-88`), and asks Kilo again when it was Kilo that
  failed.
- The sacred and budget overrides can choose a cooling or quarantined worker
  (594-658), although both were filtered before (492). A sacred answer of tool calls
  without text is not recorded (835).
- `server.py:797` imports a function of `multiturn` that is not there; the
  error is swallowed, and the escalation's probability is 0 on that path.

*Replies*

- The object that stands for a decomposed answer has neither `fallback_chain`
  nor `primary_worker` (`server.py:938`): a streamed request whose cheap answer is
  kept ends in a 500 (1371, against `routing_decompose.py:266`).
- When a stream breaks after part of its text was sent, the next worker's text is
  spliced to it; a bare `<` hides everything after it; all fallbacks of a stream
  share one text, and the charge goes to the worker first chosen, whoever answered
  (1499-1534, 1604). The walk does not look at cooldowns again.
- A stream is charged after its last frame, so one whose client leaves before that
  is never charged.
- The error events of a Responses stream have no `sequence_number`. A tool call that cannot be
  told ends such a stream in `error` and `response.completed` (`server.py:1989-1993`), cuts a chat stream off
  in the middle (`_gen_tools_sse()` has no `except`), and is charged in every case.
- A failure of `append_log()` is swallowed, and a reply whose estimated cost is zero is not
  logged; `ChargedOnce` counts the attempts to charge.
- `except ValueError` around `call_next` (`_enforce_max_body`) can run a handler twice.
- `_cheap_try()`'s "[cheap_try_err" is never seen, as `_call_worker()` does not
  raise; an empty plan is answered with a fixed phrase; subtasks of one name
  overwrite one another; a failed part's error text is sent inside a 200.

*Quotas and money*

- `reserve_budget` and `commit_budget` have no caller (`cost.py:242-262`).
- The old log file has no creator: `append_log()` copies to it only where it is there
  (`cost.py:127`), and the counters are read from it alone (49). So a fresh install forgets at
  each restart what the month has cost, and the cap bounds what one process spends in its life
  (against `cost.py:1`, "hard cap"; `CapOvershoot` has `forgotten` in its bound); cron's daily throttle reads 0
  on a fresh install, and "undercount is not" (163) holds of one process's life. Without a cap the
  first charge after a start counts twice. What decomposition spends is not logged.
- `budget_tracker.get_daily_cost` has the arguments of `strftime` swapped in its
  SQL and always returns 0.
- Sacred buckets never expire; an administrator's reset names a raw id, buckets are
  called "key:..." and "sess:..."; only the primary's spend is recorded;
  `maybe_autopromote` has no caller and `toggle_autopromote` writes a file nobody
  reads (`admin.py:924-955`).
- `key_quota.py`: a limit of 0 calls raises IndexError in SQLite (165) and refuses
  in memory (67). The wait a refused caller is told is rounded down (67, 166), so a punctual
  one is refused again. `usage()` creates entries that are never evicted (85, against 54-57),
  and around midnight it can wipe the new day's tokens from memory (91), which is why
  `DailyHolds` is about SQLite.

*Caches and health*

- The search for a similar answer ignores the salt (against
  `semantic_cache.py:46-49` and `server.py:762-763`), and the key has only the last user
  and system text. An X-Request-ID as salt defeats every exact hit.
- Look-ups in the table open a transaction that nothing ends, and `NOW()` is the time of its begin
  until a `store()` commits (`semantic_cache.py:223`, 251): rows older than the TTL are served
  (against 11, "ANCHOR_SEMANTIC_CACHE_TTL=3600         # seconds").
- In the table an expired row blocks its key for ever (ON CONFLICT DO NOTHING), so what is
  stored after it is not found; `MemoryKeepsTTL` is about memory. A statement that fails leaves the connection unusable until a restart.
- An older probe of `/readyz` overwrites a newer one's result, and only the first three
  workers are probed. `clear_oracle_cache` lacks its `global`.

*Judging*

- `judge_cache` has one row for a query and its answers (`db.py:59`) while
  look-ups ask for the judge's own (`judge.py:256-260`): of a panel only the last is
  remembered.
- `judge_batch` reports a failed judge as "MISSING", which `judge_ensemble` counts
  as a vote (against `judge_calibration.py`, "majority_vote is None if no judge
  succeeded") and `_win_rate`, `pareto_curve` and `pair_acc` as a loss. With two
  judges of three at least, as configured, no score comes of it (`ScoreIsEarned`);
  with one it would.
- A three-way split goes to "A". `maybe_judge_and_record` has no live caller.

*Rules*

- `is_question` is `endswith("?")` (`fusion_modes.py:177, 215`): a question that goes on after its
  question mark loses the signal, and is easier than before. The rung of a longer text is no
  lower only for texts that reach the ladder and with Opus enabled (`OnLadder`); a calibrated pool
  may send a longer text from Sol to a worker of a lower rung.
- A chat of less than 30 letters goes to the free worker before its difficulty is
  looked at, so "explain paxos" does (against `server.py:892`). Chinese always goes to M3,
  before the sacred words, which list Chinese ones. "CRDT" and "CQRS" are never
  found in text that is in lower case.
- `_pick_mid_upper`'s last loop does nothing where Sol is disabled, and callers then name M3
  even if that is disabled. The design branch of `pick_worker_by_tier`
  (773-798) and "architecture" in the agent branch are never reached. Without Opus `_pick_hard`
  skips Grok, so that a longer text may fall to M3. A calibrated pool may name Sol though it
  is opted out.

*Price and quality*

- The live handler (`server.py:810`) passes no pool, so that workers in quarantine or without
  tools are not filtered out; the wrapper that does has no caller.
- The last resort takes the cheapest even below the hard floor (against
  `pareto.py:103-108`); `_get_fallback` ignores what is enabled; the emergency path
  ignores the doubt; `_load_table`'s cache never hits.
- The first observation replaces the file's score (against
  `quality_feedback.py:8-12`). The intervals are computed once and then kept
  (`_cell_lock_dirty`, against `cp.py:175`). The overlay is not written atomically:
  a crash loses all of it. `record_outcome_with_judge_feedback` has no caller.

*Learning*

- The snapshot of the head is written without the lock and not at shutdown, and with
  several processes is the last writer's. `record_outcome` learns before its row is
  inserted (`feedback.py:31`), so that a retry after a failed insert is learned twice.
- The bandit's file leaves out `b`; nothing calls its load and save.
- `upsert_session`'s "running mean" divides by all turns and never leaves NULL (`db.py`).

*Tools*

- An item of type "tool_use" of the Responses API is taken for a result. An item without a
  role and without text (a reasoning, a custom tool's output) is dropped (`server.py:619-622`), and
  the vendor never sees it; `NothingLost` is about what is taken over.

## 6. Not modelled

- *RouteTier*: the opt-in Grok race (706-822), and cancellation by the client. The number of
  slots in use is all it has of the gate; `BaosiSlots` has the rest. The chain that only selects for a
  stream is a free choice of `ChatReply`.
- *CircuitBreaker*: the statistics of the sweep, and the files the other commands of cron
  write.
- *KeyQuota*: who is authenticated as whom, how tokens are estimated, and the size
  of the memory table; of other keys only that they may evict this one. A process that
  cannot reach Redis counts elsewhere until it restarts: the hazard at
  `key_quota.py:338` is modelled, but no property is claimed of it.
- *ChatReply*: metadata of replies, headers, the read-only endpoints, and what an
  answer says. `_route_tier()` is a free answer there; composing it with `RouteTier`
  would multiply their states without a variable in common.
- *Money*: `quota.py` and `budget_tracker.py` are sums read from tables; the usage
  reports change nothing.
- *ResponseCache*: a table that fails. *Judges*: a table that fails.
- *HeadLearning*: a snapshot whose weights are good and whose priors are not (`head.py:625-641`),
  which no save can write and only an editor could; the weights' values, the bandit and the two hydra models, which
  are numerics.
- *RuleLadder*: most words of each list, and the loading of tables and keys.
- Conversation turns, administration, reports, logs, dashboards, CLI, offline
  training, single-key clients: data or one call each, without protocol.

## 7. What is left

1. An abstract specification of `RouteTier`: "ask at most so many workers, never one
   that cools" (not "each once": Kilo can be asked twice).
2. The Grok race of `RouteTier`, if it ceases to be opt-in.
3. A proof of `SlotsConserved`, with an invariant that says of the queue that no call is in it
   twice and that who is in it waits.

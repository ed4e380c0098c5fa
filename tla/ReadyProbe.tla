----------------------------- MODULE ReadyProbe -----------------------------
(***************************************************************************)
(* GET /readyz (server.py, readyz_probe.py).  Whether a worker answers is   *)
(* asked of the first three in order, one after the other, and the result   *)
(* is kept for five seconds.  Requests that find it older probe at the same *)
(* time, each for itself; the last to end leaves its result.                *)
(***************************************************************************)
EXTENDS Integers, Sequences, Functions, FiniteSetsExt

CONSTANTS
    Visitors,       \* requests of /readyz in flight at most
    Candidates,     \* the enabled workers in the order they are probed
    Keyed,          \* those that have an API key
    ProbeModes,     \* of {"key", "http", "chat", "off"}
    ProbeCache,     \* ticks: five seconds
    ProbedAtMost,   \* 3
    LastSecond      \* bound

ASSUME ReadyAssumption ==
    /\ Candidates \in Seq(Range(Candidates)) /\ Keyed \subseteq Range(Candidates)
    /\ {ProbeCache, LastSecond} \subseteq Nat /\ ProbedAtMost \in Nat \ {0}

VARIABLES
    mode, soft,     \* the environment
    second,
    up,             \* the workers that answer now
    probe,          \* _READY_PROBE
    visitor,        \* the requests: since when, and which candidate is next
    lastUp,         \* history: when each worker last answered
    told            \* history: the reply of the last step

readyVars == <<mode, soft, second, up, probe, visitor, lastUp, told>>

Probed == DOMAIN Candidates \cap 1..ProbedAtMost
NoProbe == [ts |-> -ProbeCache, ok |-> FALSE]
Elsewhere == [since |-> -1, next |-> 0]
NotTold == [ready |-> FALSE, since |-> 0, at |-> 0]

ReadyTypeOK ==
    /\ mode \in ProbeModes /\ soft \in BOOLEAN /\ second \in 0..LastSecond
    /\ up \subseteq Range(Candidates)
    /\ probe \in [ts : -ProbeCache..second, ok : BOOLEAN]
    /\ visitor \in [Visitors -> [since : 0..second, next : Probed] \cup {Elsewhere}]
    /\ lastUp \in [Range(Candidates) -> -1..second]
    /\ told \in [ready : BOOLEAN, since : 0..second, at : 0..second]

ReadyInit ==
    /\ mode \in ProbeModes /\ soft \in BOOLEAN
    /\ second = 0
    /\ up \in SUBSET Range(Candidates)
    /\ probe = NoProbe
    /\ visitor = [v \in Visitors |-> Elsewhere]
    /\ lastUp = [w \in Range(Candidates) |-> IF w \in up THEN 0 ELSE -1]
    /\ told = NotTold

\* The reply to a request that came at "since", and may have found no database.
Tells(v, ok, since) ==
    /\ \E db \in BOOLEAN :
         told' = [ready |-> db /\ Candidates # <<>> /\ ok, since |-> since, at |-> second]
    /\ visitor' = [visitor EXCEPT ![v] = Elsewhere]

\* What probe_enabled_workers() returns without a call: nothing to ask, nothing
\* to be asked, or an API key is enough.
NoCalls == Candidates = <<>> \/ mode \in {"off", "key"}
WithoutCalls ==
    \/ Candidates # <<>> /\ mode = "off"
    \/ mode = "key" /\ (soft \/ \E i \in Probed : Candidates[i] \in Keyed)

\* Fault: a failure leaves an earlier success in its place.
KeepsSuccess(since, ok) == probe' = [ts |-> since, ok |-> ok \/ probe.ok]

\* The result is kept under the time the request came.
Keeps(since, ok) == probe' = [ts |-> since, ok |-> ok]

Visits(v) ==
    /\ visitor[v] = Elsewhere
    /\ CASE second - probe.ts < ProbeCache ->
              Tells(v, probe.ok, second) /\ UNCHANGED probe
         [] second - probe.ts >= ProbeCache /\ NoCalls ->
              Keeps(second, WithoutCalls) /\ Tells(v, WithoutCalls, second)
         [] OTHER ->
              /\ visitor' = [visitor EXCEPT ![v] = [since |-> second, next |-> 1]]
              /\ told' = NotTold
              /\ UNCHANGED probe
    /\ UNCHANGED <<mode, soft, second, up, lastUp>>

\* _chat_reachable() or _http_reachable() of the next candidate; one without a
\* key is passed over, one that does not answer in time is down.
Pings(v) ==
    LET at == visitor[v]
        answers == Candidates[at.next] \in Keyed \cap up
        last == at.next + 1 \notin Probed
    IN  /\ at # Elsewhere
        /\ IF answers \/ last
           THEN Keeps(at.since, answers \/ soft) /\ Tells(v, answers \/ soft, at.since)
           ELSE /\ visitor' = [visitor EXCEPT ![v].next = @ + 1]
                /\ told' = NotTold
                /\ UNCHANGED probe
        /\ UNCHANGED <<mode, soft, second, up, lastUp>>

\* The probe raises.
ProbeRaises(v) ==
    /\ visitor[v] # Elsewhere
    /\ Keeps(visitor[v].since, FALSE)
    /\ Tells(v, FALSE, visitor[v].since)
    /\ UNCHANGED <<mode, soft, second, up, lastUp>>

WorkerChanges == \E w \in Range(Candidates) :
    /\ up' = IF w \in up THEN up \ {w} ELSE up \cup {w}
    /\ lastUp' = [lastUp EXCEPT ![w] = second]
    /\ told' = NotTold
    /\ UNCHANGED <<mode, soft, second, probe, visitor>>

SecondPasses ==
    /\ second < LastSecond
    /\ second' = second + 1
    /\ lastUp' = [w \in Range(Candidates) |-> IF w \in up THEN second + 1 ELSE lastUp[w]]
    /\ told' = NotTold
    /\ UNCHANGED <<mode, soft, up, probe, visitor>>

ReadyNext ==
    \/ \E v \in Visitors : Visits(v) \/ Pings(v) \/ ProbeRaises(v)
    \/ WorkerChanges \/ SecondPasses

ReadySpec == ReadyInit /\ [][ReadyNext]_readyVars

-----------------------------------------------------------------------------
Earlier(a, b) == IF a < b THEN a ELSE b

\* A load balancer that is told "ready" may believe it: one of the workers that
\* are probed did answer since the request came, or within the five seconds the
\* result is kept, however many requests probe at once and in whatever order
\* they end.
ReadyReflects ==
    [][(told'.ready /\ ~soft /\ mode \in {"http", "chat"}) =>
          \E i \in Probed : /\ Candidates[i] \in Keyed
                            /\ lastUp[Candidates[i]] >= Earlier(told'.since, second - ProbeCache + 1)]_readyVars

=============================================================================

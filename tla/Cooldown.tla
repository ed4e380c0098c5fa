------------------------------ MODULE Cooldown ------------------------------
(***************************************************************************)
(* The gateway's table of cooling workers (cooldown.py), everything that    *)
(* writes it, and the background loop that probes cooling workers and       *)
(* forgets the cooldown of one that answers (lifespan.py:18-58).            *)
(*                                                                         *)
(* Routed calls and the probe suspend while a vendor call is in flight and  *)
(* trip() when it fails.  A cooldown is kept as the seconds it has left; an *)
(* expired entry and a missing one are the same (is_cooling() drops it).    *)
(***************************************************************************)
EXTENDS Integers, FiniteSets

CONSTANTS
    Workers,
    MultiKey,       \* workers served by a KeyPool, which trips the worker itself
    Flash,          \* "deepseek-v4-flash", whose empty answers are counted
    Calls,          \* slots for routed calls in flight
    NoWorker,
    ShortSecs,      \* WORKER_TIMEOUT_COOLDOWN / TIMEOUT_COOLDOWN_SECS
    LongSecs,       \* WORKER_SPECIFIC_COOLDOWN / COOLDOWN_SECS
    EmptySecs,      \* EMPTY_RATE_DEFAULT_COOLDOWN_S
    WindowSecs,     \* what an exhausted KeyPool tells its caller at least
    VendorWindows,  \* Retry-After values an exhausted KeyPool may have seen
    ProbeWithin     \* 30: longer cooldowns are not probed

ASSUME CooldownAssumption ==
    /\ MultiKey \subseteq Workers
    /\ NoWorker \notin Workers
    /\ {ShortSecs, LongSecs, EmptySecs, WindowSecs, ProbeWithin} \subseteq Nat \ {0}
    /\ VendorWindows \subseteq Nat

VARIABLES
    left,      \* _state, as seconds left per worker
    call,      \* the worker each routed call is waiting for
    fallback,  \* whether that call is one of the fallback chain
    probe,     \* the worker the recovery loop is waiting for
    due        \* the rest of the loop's snapshot that is worth a probe

cooldownVars == <<left, call, fallback, probe, due>>

CooldownTypeOK ==
    /\ left \in [Workers -> Nat]
    /\ call \in [Calls -> Workers \cup {NoWorker}]
    /\ fallback \in [Calls -> BOOLEAN]
    /\ probe \in Workers \cup {NoWorker}
    /\ due \subseteq Workers

CooldownInit ==
    /\ left = [w \in Workers |-> 0]
    /\ call = [c \in Calls |-> NoWorker]
    /\ fallback = [c \in Calls |-> FALSE]
    /\ probe = NoWorker
    /\ due = {}

Longer(a, b) == IF a >= b THEN a ELSE b

\* trip(worker, seconds=secs): an absolute deadline, whatever was armed before.
Trip(w, secs) == left' = [left EXCEPT ![w] = Longer(1, secs)]

IsCooling(w) == left[w] > 0

-----------------------------------------------------------------------------
(* Routed calls *)

\* The router calls a worker, as the primary of a request or down its fallback
\* chain.  The chain skips cooling workers and an unforced primary is swapped
\* for one that does not cool, but a forced primary, a budget downgrade, the
\* retry after a timeout and a pool that cools as a whole call a cooling worker
\* too (routing_core.py:578-660, 904): here the choice is free, RouteTier.tla
\* has the rules.
RouterCalls(c, w) ==
    /\ call[c] = NoWorker
    /\ call' = [call EXCEPT ![c] = w]
    /\ \E role \in BOOLEAN : fallback' = [fallback EXCEPT ![c] = role]
    /\ UNCHANGED <<left, probe, due>>

Returns(c) ==
    /\ call[c] # NoWorker
    /\ call' = [call EXCEPT ![c] = NoWorker]
    /\ fallback' = [fallback EXCEPT ![c] = FALSE]
    /\ UNCHANGED <<probe, due>>

CallSucceeds(c) ==
    /\ Returns(c)
    /\ UNCHANGED left

\* A timeout or connection error, or wait_for gave up on the worker.
CallTimesOut(c) ==
    /\ Returns(c)
    /\ Trip(call[c], ShortSecs)

\* A 429 or an overload, or a placeholder for an answer.
CallRefused(c) ==
    /\ Returns(c)
    /\ Trip(call[c], LongSecs)

\* A KeyPool ran out of keys.  It trips the worker for the vendor's window;
\* _call_worker trips it again with the default for the error's name; and the
\* router, for the primary worker only, once more with what the pool told.
CallExhausted(c) ==
    /\ Returns(c)
    /\ call[c] \in MultiKey
    /\ \E window \in VendorWindows :
         Trip(call[c], IF fallback[c] THEN LongSecs ELSE Longer(WindowSecs, window))

\* An empty primary answer that makes flash's recent empty rate too high.
CallEmpty(c) ==
    /\ Returns(c)
    /\ call[c] = Flash
    /\ ~fallback[c]
    /\ Trip(call[c], EmptySecs)

-----------------------------------------------------------------------------
(* The recovery loop *)

\* all_cooling() is read once; only nearly expired cooldowns are probed.
RecoveryWakes ==
    /\ probe = NoWorker
    /\ due = {}
    /\ due' = {w \in Workers : IsCooling(w) /\ left[w] <= ProbeWithin}
    /\ UNCHANGED <<left, call, fallback, probe>>

ProbeStarts(w) ==
    /\ probe = NoWorker
    /\ w \in due
    /\ probe' = w
    /\ due' = due \ {w}
    /\ UNCHANGED <<left, call, fallback>>

ProbeEnds ==
    /\ probe # NoWorker
    /\ probe' = NoWorker
    /\ UNCHANGED <<call, fallback, due>>

\* The worker answered: _state.pop(), without the lock and without looking at
\* what the table holds by now.
ProbeAnswered ==
    /\ ProbeEnds
    /\ left' = [left EXCEPT ![probe] = 0]

\* A failing probe writes nothing, but the KeyPool of a multi-key worker trips
\* it when the probe exhausts the keys.
ProbeFails ==
    /\ ProbeEnds
    /\ \/ UNCHANGED left
       \/ /\ probe \in MultiKey
          /\ \E window \in VendorWindows :
               Trip(probe, IF window > 0 THEN window ELSE LongSecs)

-----------------------------------------------------------------------------

\* Fault: the last second never ends.
RunDownStuck(f) == [w \in Workers |-> IF f[w] > 1 THEN f[w] - 1 ELSE f[w]]
RunDown(f) == [w \in Workers |-> IF f[w] > 0 THEN f[w] - 1 ELSE 0]

CooldownTick ==
    /\ left' = RunDown(left)
    /\ UNCHANGED <<call, fallback, probe, due>>

CallFails(c) == CallTimesOut(c) \/ CallRefused(c) \/ CallExhausted(c) \/ CallEmpty(c)
CallEnds(c) == CallSucceeds(c) \/ CallFails(c)

CooldownNext ==
    \/ \E c \in Calls : CallEnds(c) \/ \E w \in Workers : RouterCalls(c, w)
    \/ RecoveryWakes \/ ProbeAnswered \/ ProbeFails
    \/ \E w \in Workers : ProbeStarts(w)
    \/ CooldownTick

\* Time passes and every vendor call ends: _call_worker's wait_for, and the
\* client's own timeout for a probe.
CooldownFairness ==
    /\ WF_cooldownVars(CooldownTick)
    /\ \A c \in Calls : WF_cooldownVars(CallEnds(c))
    /\ WF_cooldownVars(ProbeAnswered \/ ProbeFails)
    /\ \A w \in Workers : WF_cooldownVars(ProbeStarts(w))

CooldownSpec == CooldownInit /\ [][CooldownNext]_cooldownVars

-----------------------------------------------------------------------------
(* Properties *)

\* Once the vendors stop failing every worker comes back and stays, whatever
\* the cooldowns were and whether or not anybody called or probed it.
Fails == ProbeFails \/ \E c \in Calls : CallFails(c)
PoolHeals == <>[][~Fails]_cooldownVars => \A w \in Workers : <>[](left[w] = 0)

\* "If still has > 30s remaining, skip" (lifespan.py:37): the recovery loop has no
\* say over a long cooldown.
LongCooldownsRunOn ==
    [][\A w \in Workers : left[w] > ProbeWithin => left'[w] # 0]_cooldownVars
=============================================================================

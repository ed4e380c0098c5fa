------------------------------- MODULE Limits -------------------------------
(***************************************************************************)
(* What a call meets on its way to a vendor that may turn it away or make   *)
(* it wait: the cooldown of its worker, the gate of BaosiAPI and the keys   *)
(* of the vendor.  None of these modules reads another's state: one part    *)
(* moves while the others rest, so that the states of a run add up.         *)
(***************************************************************************)
EXTENDS KeyPool, Cooldown, BaosiSlots

CONSTANT Parts      \* those that may move

ASSUME PartsAssumption == Parts \subseteq {"pool", "cooldown", "gate"}

VARIABLE part

vars == <<poolVars, cooldownVars, gateVars, part>>

Init ==
    /\ part \in Parts
    /\ PoolInit /\ CooldownInit /\ GateInit

Next ==
    \/ part = "pool" /\ PoolNext /\ UNCHANGED <<cooldownVars, gateVars, part>>
    \/ part = "cooldown" /\ CooldownNext /\ UNCHANGED <<poolVars, gateVars, part>>
    \/ part = "gate" /\ GateNext /\ UNCHANGED <<poolVars, cooldownVars, part>>

Spec == Init /\ [][Next]_vars

\* A part that rests is asked for nothing: it starts with no call under way and no
\* second to run down, where none of its fair actions is enabled.
FairSpec == Spec /\ PoolFairness /\ CooldownFairness /\ GateFairness
=============================================================================

-------------------------- MODULE CooldownProofs --------------------------
(***************************************************************************)
(* What holds of the cooldown table for every set of workers, calls and     *)
(* durations.                                                              *)
(***************************************************************************)
EXTENDS Cooldown, TLAPS

LEMMA LongerNat ==
    ASSUME NEW a \in Nat, NEW b \in Nat
    PROVE  Longer(a, b) \in Nat /\ Longer(a, b) >= a /\ Longer(a, b) >= b
    BY DEF Longer

\* A trip writes a whole number of seconds.
LEMMA TripCools ==
    ASSUME CooldownTypeOK, NEW w \in Workers, NEW secs \in Nat, Trip(w, secs)
    PROVE  left' \in [Workers -> Nat]
<1>1. Longer(1, secs) \in Nat /\ Longer(1, secs) > 0
    BY DEF Longer
<1> QED BY <1>1 DEF Trip, CooldownTypeOK

\* Every duration a trip is given is a natural number.
LEMMA Durations ==
    /\ {ShortSecs, LongSecs, EmptySecs, WindowSecs} \subseteq Nat
    /\ \A window \in VendorWindows :
         window \in Nat /\ Longer(WindowSecs, window) \in Nat
    BY CooldownAssumption, LongerNat

LEMMA SecondsPass ==
    ASSUME NEW f \in [Workers -> Nat]
    PROVE  RunDown(f) \in [Workers -> Nat]
    BY DEF RunDown

\* The table and the calls in flight keep their types (cooldown.py, and the
\* recovery loop of lifespan.py).
LEMMA TypeStep == CooldownTypeOK /\ [CooldownNext]_cooldownVars => CooldownTypeOK'
<1> SUFFICES ASSUME CooldownTypeOK, [CooldownNext]_cooldownVars PROVE CooldownTypeOK'
    OBVIOUS
<1> USE CooldownAssumption
<1>1. ASSUME NEW c \in Calls, NEW w \in Workers, RouterCalls(c, w) PROVE CooldownTypeOK'
    BY <1>1 DEF RouterCalls, CooldownTypeOK
<1>2. ASSUME NEW c \in Calls, CallSucceeds(c) PROVE CooldownTypeOK'
    BY <1>2 DEF CallSucceeds, Returns, CooldownTypeOK
<1>3. ASSUME NEW c \in Calls, CallFails(c) PROVE CooldownTypeOK'
  <2>1. call[c] \in Workers /\ Returns(c)
    BY <1>3 DEF CallFails, CallTimesOut, CallRefused, CallExhausted, CallEmpty, Returns, CooldownTypeOK
  <2>2. \E secs \in Nat : Trip(call[c], secs)
    BY <1>3, Durations DEF CallFails, CallTimesOut, CallRefused, CallExhausted, CallEmpty
  <2>3. left' \in [Workers -> Nat]
    BY <2>1, <2>2, TripCools
  <2> QED BY <1>3, <2>1, <2>3 DEF Returns, CooldownTypeOK, CallFails, CallTimesOut, CallRefused, CallExhausted, CallEmpty
<1>4. CASE RecoveryWakes
    BY <1>4 DEF RecoveryWakes, CooldownTypeOK
<1>5. ASSUME NEW w \in Workers, ProbeStarts(w) PROVE CooldownTypeOK'
    BY <1>5 DEF ProbeStarts, CooldownTypeOK
<1>6. CASE ProbeAnswered
    BY <1>6 DEF ProbeAnswered, ProbeEnds, CooldownTypeOK
<1>7. CASE ProbeFails
  <2>1. CASE UNCHANGED left
    BY <1>7, <2>1 DEF ProbeFails, ProbeEnds, CooldownTypeOK
  <2>2. ASSUME NEW window \in VendorWindows,
               Trip(probe, IF window > 0 THEN window ELSE LongSecs)
        PROVE  CooldownTypeOK'
    <3>1. probe \in Workers
        BY <1>7 DEF ProbeFails, ProbeEnds, CooldownTypeOK
    <3>2. left' \in [Workers -> Nat]
        BY <3>1, <2>2, TripCools, Durations
    <3> QED BY <1>7, <3>2 DEF ProbeFails, ProbeEnds, CooldownTypeOK
  <2> QED BY <1>7, <2>1, <2>2 DEF ProbeFails
<1>8. CASE CooldownTick
    BY <1>8, SecondsPass DEF CooldownTick, CooldownTypeOK
<1>9. CASE UNCHANGED cooldownVars
    BY <1>9 DEF cooldownVars, CooldownTypeOK
<1> QED BY <1>1, <1>2, <1>3, <1>4, <1>5, <1>6, <1>7, <1>8, <1>9 DEF CooldownNext, CallEnds

\* Type correctness of the table and its users.
THEOREM TypeCorrect == CooldownSpec => []CooldownTypeOK
<1>1. CooldownInit => CooldownTypeOK
    BY DEF CooldownInit, CooldownTypeOK
<1> QED BY <1>1, TypeStep, PTL DEF CooldownSpec
=============================================================================

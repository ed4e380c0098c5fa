-------------------------- MODULE RouteTierProofs --------------------------
(***************************************************************************)
(* What holds of a routed request for every registry, ladder and price, and *)
(* for any number of requests.                                             *)
(***************************************************************************)
EXTENDS RouteTier, FiniteSetTheorems, WellFoundedInduction, TLAPS

\* A non-empty set of naturals has a least member: the intervals 0..n are
\* finite, so one of them has no other strictly within it.
LEMMA LeastExists ==
    ASSUME NEW T \in SUBSET Nat, T # {}
    PROVE  \E n \in T : \A k \in T : n <= k
<1> DEFINE F == {0..n : n \in T}
<1>1. F \subseteq FiniteSubsetsOf(Nat) /\ F # {}
  <2>1. ASSUME NEW n \in T PROVE 0..n \in FiniteSubsetsOf(Nat)
    <3>1. IsFiniteSet(0..n)
      <4>1. n \in Int /\ 0 \in Int
          OBVIOUS
      <4> QED BY <4>1, FS_Interval
    <3>2. 0..n \subseteq Nat
        OBVIOUS
    <3> QED BY <3>1, <3>2 DEF FiniteSubsetsOf
  <2>2. F # {}
      OBVIOUS
  <2> QED BY <2>1, <2>2
<1>2. PICK X \in F : \A Y \in F : <<Y, X>> \notin StrictSubsetOrdering(Nat)
  <2> HIDE DEF F
  <2> QED BY <1>1, FS_StrictSubsetOrderingWellFounded, WFMin
<1>3. PICK n \in T : X = 0..n
    BY <1>2
<1>4. ASSUME NEW k \in T PROVE n <= k
  <2>1. <<0..k, 0..n>> \notin StrictSubsetOrdering(Nat)
      BY <1>2, <1>3
  <2>2. ~(0..k \subseteq 0..n /\ 0..k # 0..n)
      BY <2>1 DEF StrictSubsetOrdering
  <2>3. ASSUME k < n PROVE 0..k \subseteq 0..n /\ n \in 0..n /\ n \notin 0..k
      BY <2>3
  <2> QED BY <2>2, <2>3
<1> QED BY <1>4

\* The walk over the pool ends at one of the workers it is after, and at the
\* first of them.
LEMMA FirstComesFirst ==
    ASSUME NEW S \in SUBSET Members(Pool), S # {}
    PROVE  /\ FirstInPool(S) \in S
           /\ \A v \in S : Position(Pool, FirstInPool(S)) <= Position(Pool, v)
<1>1. \A w \in S : Position(Pool, w) \in DOMAIN Pool
    BY DEF Position, Members
<1>2. DOMAIN Pool \subseteq Nat
    BY RouteTierAssumption
<1> DEFINE N == {Position(Pool, w) : w \in S}
<1>3. N \in SUBSET Nat /\ N # {}
    BY <1>1, <1>2
<1>4. PICK n \in N : \A k \in N : n <= k
  <2> HIDE DEF N
  <2> QED BY <1>3, LeastExists
<1>5. \E w \in S : \A v \in S : Position(Pool, w) <= Position(Pool, v)
    BY <1>4
<1> QED BY <1>5 DEF FirstInPool

LEMMA FirstIsOffered ==
    ASSUME NEW S \in SUBSET Members(Pool), S # {}
    PROVE  FirstInPool(S) \in S
    BY FirstComesFirst

LEMMA OtherwiseOffered ==
    ASSUME NEW c, NEW mustGo \in BOOLEAN, NEW S \in SUBSET Members(Pool)
    PROVE  \/ Otherwise(c, mustGo, S) = c
           \/ mustGo /\ Otherwise(c, mustGo, S) \in S
<1>1. CASE mustGo /\ S # {}
    BY <1>1, FirstIsOffered DEF Otherwise
<1>2. CASE ~(mustGo /\ S # {})
    BY <1>2 DEF Otherwise
<1> QED BY <1>1, <1>2

LEMMA TierPoolInPool ==
    /\ TierPool \subseteq Members(Pool) /\ TierPool # {}
    /\ Members(Pool) \subseteq Workers /\ Members(Pool) \subseteq Enabled
    BY RouteTierAssumption DEF TierPool, Members

LEMMA CheapestExists == Cheapest \in Enabled \ Sacred
    BY RouteTierAssumption DEF Cheapest

\* Whatever the overrides do, an enabled worker is selected, and past the hard
\* cap it is not a sacred one: the budget override cannot bring a sacred worker
\* back, since it only leaves a worker that costs too much, and no sacred
\* worker costs less.
LEMMA SelectedProperly ==
    ASSUME NEW f, NEW p \in Members(Pool), TypeOK
    PROVE  /\ Selected(f, p) \in Enabled
           /\ spent >= HardCap => Selected(f, p) \notin Sacred
<1> DEFINE guarded(c) == SacredGuarded(c) \in Enabled
                         /\ (spent >= HardCap => SacredGuarded(c) \notin Sacred)
<1>1. ASSUME NEW c \in Enabled PROVE guarded(c)
    BY CheapestExists DEF SacredGuarded
<1>2. ASSUME NEW c \in Enabled PROVE Usable(c) = c
    BY <1>2 DEF Usable, Otherwise
<1>3. CASE Forces(f)
    BY <1>1, <1>2, <1>3 DEF Selected, Forces
<1>4. CASE ~Forces(f)
  <2> USE TierPoolInPool
  <2>1. ASSUME NEW c \in Enabled PROVE Unquarantined(c) \in Enabled
    <3>1. TierPool \ quarantined \in SUBSET Members(Pool)
        OBVIOUS
    <3>2. Unquarantined(c) \in (TierPool \ quarantined) \cup {c}
        BY <3>1, FirstIsOffered DEF Unquarantined, Otherwise
    <3> QED BY <3>1, <3>2
  <2>2. ASSUME NEW c \in Enabled PROVE Shunted(c) \in Enabled
    <3>1. (TierPool \cap Enabled) \ Baosi \in SUBSET Members(Pool)
        OBVIOUS
    <3>2. Shunted(c) \in ((TierPool \cap Enabled) \ Baosi) \cup {c}
        BY <3>1, FirstIsOffered DEF Shunted, Otherwise
    <3> QED BY <3>1, <3>2
  <2>3. ASSUME NEW c \in Enabled PROVE Warm(c) \in Enabled
    <3>1. TierPool \ (cooling \cup {c}) \in SUBSET Members(Pool)
        OBVIOUS
    <3>2. Warm(c) \in (TierPool \ (cooling \cup {c})) \cup {c}
        BY <3>1, FirstIsOffered DEF Warm, Otherwise
    <3> QED BY <3>1, <3>2
  <2>4. ASSUME NEW c \in Enabled, c \notin Sacred \/ ~(spent >= HardCap)
        PROVE  Budgeted(c) \in Enabled /\ (spent >= HardCap => Budgeted(c) \notin Sacred)
    <3> DEFINE cheaper == {w \in Members(Pool) \ {c} : Cost[w] <= Budget}
    <3>1. CASE Budgeted(c) = c
        BY <2>4, <3>1
    <3>2. CASE Cost[c] > Budget /\ Budgeted(c) \in cheaper
      <4>1. Budgeted(c) \in Enabled /\ Cost[Budgeted(c)] < Cost[c]
          BY <3>2, RouteTierAssumption
      <4> QED BY <2>4, <4>1, RouteTierAssumption
    <3> QED BY <3>1, <3>2, OtherwiseOffered DEF Budgeted
  <2>5. p \in Enabled
      OBVIOUS
  <2>6. Warm(Shunted(Unquarantined(p))) \in Enabled
      BY <2>1, <2>2, <2>3, <2>5
  <2> DEFINE w == Warm(Shunted(Unquarantined(p)))
  <2>7. guarded(w)
      BY <1>1, <2>6
  <2>8. Selected(f, p) = Usable(Budgeted(SacredGuarded(w)))
      BY <1>4 DEF Selected
  <2> QED BY <1>2, <2>4, <2>7, <2>8
<1> QED BY <1>3, <1>4

-----------------------------------------------------------------------------
(* Types, and what is known of a request at each point of its way *)

WalkOK ==
    /\ pc \in [Requests -> {"idle", "done"} \cup Waiting]
    /\ image \in [Requests -> BOOLEAN]
    /\ tierPool \in [Requests -> SUBSET Workers]
    /\ trying \in [Requests -> Workers \cup {NoWorker}]
    /\ todo \in [Requests -> SUBSET Workers]
    /\ attempts \in [Requests -> 0..MaxAttempts]

\* Until the reply the worker is the primary; from its first answer on, the
\* answer kept is its own.
Phase(r) ==
    /\ pc[r] = "idle" => from[r] = NoWorker
    /\ pc[r] \in Waiting => chosen[r] \in Workers /\ chosen[r] = primary[r] /\ from[r] = NoWorker
    /\ pc[r] \in Waiting \ {"calling"} => answer[r].by = chosen[r]
    /\ pc[r] \in {"trying", "judging"} => trying[r] \in Workers
    /\ pc[r] = "done" => /\ answer[r].by = chosen[r]
                         /\ from[r] = IF chosen[r] = primary[r] THEN NoWorker ELSE primary[r]

IInv == TypeOK /\ \A r \in Requests : Phase(r)

\* The requests that do not move.
OthersStay(r) ==
    \A q \in Requests \ {r} :
        /\ pc'[q] = pc[q] /\ trying'[q] = trying[q]
        /\ chosen'[q] = chosen[q] /\ primary'[q] = primary[q] /\ from'[q] = from[q]
        /\ answer'[q] = answer[q]

LEMMA KeptOfWorker ==
    ASSUME NEW w \in Workers, NEW kind \in Kinds
    PROVE  Kept(w, kind) \in Answers /\ Kept(w, kind).by = w
    BY DEF Kept, Answers, Kinds, Good

LEMMA CandidatesAreWorkers ==
    ASSUME TypeOK, NEW r \in Requests, NEW c
    PROVE  Candidates(r, c) \in SUBSET Workers
<1>1. Members(Ladder) \subseteq Workers
    BY RouteTierAssumption DEF Members
<1> QED BY <1>1, RouteTierAssumption DEF Candidates, Peers, TypeOK

LEMMA HeardIsKind ==
    ASSUME NEW r, NEW w PROVE Heard(r, w) \subseteq Kinds
    BY DEF Heard, Kinds

LEMMA CooledAreWorkers ==
    ASSUME TypeOK, NEW w \in Workers, NEW kind PROVE Cooled(w, kind) \subseteq Workers
    BY DEF Cooled, TypeOK

LEMMA FinishStep ==
    ASSUME TypeOK, NEW r \in Requests, Finish(r)
    PROVE  /\ WalkOK' /\ pc'[r] = "done"
           /\ \A q \in Requests \ {r} : pc'[q] = pc[q] /\ trying'[q] = trying[q]
<1>1. 0 \in 0..MaxAttempts
    BY RouteTierAssumption
<1> QED BY <1>1 DEF Finish, TypeOK, WalkOK

LEMMA TryNextStep ==
    ASSUME TypeOK, NEW r \in Requests, NEW list \in SUBSET Workers, NEW cool, TryNext(r, list, cool)
    PROVE  /\ WalkOK' /\ pc'[r] \in {"done", "trying"}
           /\ pc'[r] = "trying" => trying'[r] \in Workers
           /\ \A q \in Requests \ {r} : pc'[q] = pc[q] /\ trying'[q] = trying[q]
<1>1. CASE Finish(r)
    BY <1>1, FinishStep
<1>2. ASSUME NEW w \in Open(list, cool), attempts[r] < MaxAttempts,
             NEW left \in SUBSET list, Asks(r, w, left, attempts[r] + 1)
      PROVE  /\ WalkOK' /\ pc'[r] = "trying" /\ trying'[r] \in Workers
             /\ \A q \in Requests \ {r} : pc'[q] = pc[q] /\ trying'[q] = trying[q]
  <2>1. w \in Workers /\ left \in SUBSET Workers
      BY DEF Open
  <2>2. attempts[r] + 1 \in 0..MaxAttempts
      BY <1>2, RouteTierAssumption DEF TypeOK
  <2> QED BY <1>2, <2>1, <2>2 DEF Asks, TypeOK, WalkOK, Waiting, AtVendor
<1>3. CASE attempts[r] < MaxAttempts /\ Open(list, cool) # {}
  <2>1. \E w \in Open(list, cool) : \E left \in SUBSET list : Asks(r, w, left, attempts[r] + 1)
      BY <1>3 DEF TryNext
  <2> QED BY <1>2, <1>3, <2>1
<1> QED BY <1>1, <1>3 DEF TryNext

LEMMA StartWalkStep ==
    ASSUME TypeOK, NEW r \in Requests, NEW kind, NEW cool, StartWalk(r, kind, cool)
    PROVE  /\ WalkOK' /\ pc'[r] \in {"done", "trying", "sleeping"}
           /\ pc'[r] = "trying" => trying'[r] \in Workers
           /\ \A q \in Requests \ {r} : pc'[q] = pc[q] /\ trying'[q] = trying[q]
<1>1. CASE TryNext(r, Candidates(r, chosen[r]), cool)
    BY <1>1, CandidatesAreWorkers, TryNextStep
<1>2. CASE pc' = [pc EXCEPT ![r] = "sleeping"] /\ UNCHANGED walk
    BY <1>2 DEF walk, TypeOK, WalkOK, Waiting
<1> QED BY <1>1, <1>2 DEF StartWalk

LEMMA PhaseFrame ==
    ASSUME NEW r \in Requests, NEW q \in Requests \ {r}, OthersStay(r), Phase(q)
    PROVE  Phase(q)'
    BY DEF OthersStay, Phase, Waiting, AtVendor

LEMMA AcceptStep ==
    ASSUME IInv, NEW r \in Requests, pc[r] \in {"trying", "judging"},
           NEW kind \in Good, Accept(r, Kept(trying[r], kind)), UNCHANGED primary
    PROVE  /\ WalkOK'
           /\ chosen' \in [Requests -> Workers \cup {NoWorker}]
           /\ from' \in [Requests -> Workers \cup {NoWorker}]
           /\ answer' \in [Requests -> Answers]
           /\ OthersStay(r) /\ Phase(r)' /\ pc'[r] = "done"
<1> DEFINE w == trying[r]
<1>1. w \in Workers /\ chosen[r] = primary[r] /\ from[r] = NoWorker /\ primary[r] \in Workers
    BY DEF IInv, Phase, Waiting, AtVendor
<1>2. Kept(w, kind) \in Answers /\ Kept(w, kind).by = w
    BY <1>1, KeptOfWorker DEF Kinds
<1>3. /\ WalkOK' /\ pc'[r] = "done"
      /\ \A q \in Requests \ {r} : pc'[q] = pc[q] /\ trying'[q] = trying[q]
    BY FinishStep DEF Accept, IInv
<1>4. /\ chosen' = [chosen EXCEPT ![r] = w]
      /\ from' = [from EXCEPT ![r] = IF w # primary[r] THEN primary[r] ELSE NoWorker]
      /\ answer' = [answer EXCEPT ![r] = Kept(w, kind)]
    BY <1>1, <1>2 DEF Accept, IInv, TypeOK
<1>5. Phase(r)'
    BY <1>1, <1>2, <1>3, <1>4 DEF Phase, IInv, TypeOK, Waiting, AtVendor
<1>6. OthersStay(r)
    BY <1>3, <1>4 DEF OthersStay, IInv, TypeOK
<1> QED BY <1>1, <1>2, <1>3, <1>4, <1>5, <1>6 DEF IInv, TypeOK

\* The answer of the primary, or of its retry, is kept and the request goes on.
LEMMA KeepStep ==
    ASSUME IInv, NEW r \in Requests, pc[r] \in {"calling", "retrying"}, NEW kind \in Kinds,
           answer' = [answer EXCEPT ![r] = Kept(chosen[r], kind)],
           UNCHANGED <<chosen, primary, from>>,
           WalkOK', pc'[r] \in {"done", "retrying", "trying", "sleeping"},
           pc'[r] = "trying" => trying'[r] \in Workers,
           \A q \in Requests \ {r} : pc'[q] = pc[q] /\ trying'[q] = trying[q]
    PROVE  answer' \in [Requests -> Answers] /\ OthersStay(r) /\ Phase(r)'
<1>1. chosen[r] \in Workers /\ chosen[r] = primary[r] /\ from[r] = NoWorker
    BY DEF IInv, Phase, Waiting, AtVendor
<1>2. Kept(chosen[r], kind) \in Answers /\ Kept(chosen[r], kind).by = chosen[r]
    BY <1>1, KeptOfWorker
<1> QED BY <1>1, <1>2 DEF IInv, TypeOK, Phase, OthersStay, Waiting, AtVendor

LEMMA RecordedIsNat ==
    ASSUME TypeOK, NEW r, NEW kind
    PROVE  Recorded(r, kind) \subseteq Nat
    BY RouteTierAssumption DEF Recorded, TypeOK

LEMMA ArriveStep ==
    ASSUME IInv, NEW r \in Requests, Arrive(r)
    PROVE  IInv' /\ OthersStay(r)
<1>a. TypeOK /\ \A q \in Requests : Phase(q)
    BY DEF IInv
<1>1. PICK pic \in BOOLEAN, f \in Workers \cup {NoWorker}, p \in Members(Pool) :
          /\ image' = [image EXCEPT ![r] = pic]
          /\ chosen' = [chosen EXCEPT ![r] = Selected(f, p)]
          /\ primary' = [primary EXCEPT ![r] = Selected(f, p)]
    BY RouteTierAssumption DEF Arrive
<1>2. Selected(f, p) \in Workers
    BY <1>a, SelectedProperly, RouteTierAssumption
<1>3. from[r] = NoWorker
    BY <1>a DEF Arrive, Phase
<1>4. TierPool \in SUBSET Workers
    BY TierPoolInPool
<1>5. TypeOK'
    BY <1>a, <1>1, <1>2, <1>4 DEF Arrive, TypeOK, shared, Waiting, AtVendor
<1>6. OthersStay(r)
    BY <1>a, <1>1 DEF Arrive, OthersStay, TypeOK
<1>7. Phase(r)'
    BY <1>a, <1>1, <1>2, <1>3 DEF Arrive, TypeOK, Phase, Waiting, AtVendor
<1> QED BY <1>a, <1>5, <1>6, <1>7, PhaseFrame DEF IInv

LEMMA PrimaryAnswersStep ==
    ASSUME IInv, NEW r \in Requests, PrimaryAnswers(r)
    PROVE  IInv' /\ OthersStay(r) /\ pc'[r] # "calling"
<1>a. TypeOK /\ \A q \in Requests : Phase(q)
    BY DEF IInv
<1>1. PICK kind \in Kinds :
          /\ answer' = [answer EXCEPT ![r] = Kept(chosen[r], kind)]
          /\ spent' \in Recorded(r, kind)
          /\ \/ cooling' = Cooled(chosen[r], kind)
             \/ cooling' = cooling \cup {Flash}
          /\ \/ Finish(r)
             \/ /\ RetriesSame(r, kind)
                /\ pc' = [pc EXCEPT ![r] = "retrying"]
                /\ attempts' = [attempts EXCEPT ![r] = 1]
                /\ UNCHANGED <<image, tierPool, trying, todo>>
             \/ StartWalk(r, kind, cooling')
    BY HeardIsKind DEF PrimaryAnswers
<1>2. pc[r] = "calling" /\ chosen[r] \in Workers /\ UNCHANGED <<quarantined, chosen, primary, from>>
    BY <1>a DEF PrimaryAnswers, Phase, Waiting, AtVendor
<1>3. /\ WalkOK' /\ pc'[r] \in {"done", "retrying", "trying", "sleeping"}
      /\ pc'[r] = "trying" => trying'[r] \in Workers
      /\ \A q \in Requests \ {r} : pc'[q] = pc[q] /\ trying'[q] = trying[q]
  <2>1. CASE Finish(r)
      BY <1>a, <2>1, FinishStep
  <2>2. CASE StartWalk(r, kind, cooling')
      BY <1>a, <2>2, StartWalkStep
  <2>3. CASE /\ RetriesSame(r, kind)
             /\ pc' = [pc EXCEPT ![r] = "retrying"]
             /\ attempts' = [attempts EXCEPT ![r] = 1]
             /\ UNCHANGED <<image, tierPool, trying, todo>>
      BY <1>a, <2>3, RouteTierAssumption DEF TypeOK, WalkOK, RetriesSame, Waiting, AtVendor
  <2> QED BY <1>1, <2>1, <2>2, <2>3
<1>4. answer' \in [Requests -> Answers] /\ OthersStay(r) /\ Phase(r)'
    BY <1>1, <1>2, <1>3, KeepStep
<1>5. spent' \in Nat
    BY <1>a, <1>1, RecordedIsNat
<1>6. cooling' \subseteq Workers
    BY <1>a, <1>1, <1>2, CooledAreWorkers, RouteTierAssumption DEF TypeOK
<1>7. TypeOK'
    BY <1>a, <1>2, <1>3, <1>4, <1>5, <1>6 DEF PrimaryAnswers, LeavesSlot, TypeOK, WalkOK
<1> QED BY <1>3, <1>a, <1>4, <1>7, PhaseFrame DEF IInv

LEMMA RetryAnswersStep ==
    ASSUME IInv, NEW r \in Requests, RetryAnswers(r)
    PROVE  IInv' /\ OthersStay(r) /\ pc'[r] # "calling"
<1>a. TypeOK /\ \A q \in Requests : Phase(q)
    BY DEF IInv
<1>1. PICK kind \in Kinds :
          /\ answer' = [answer EXCEPT ![r] = Kept(chosen[r], kind)]
          /\ cooling' = Cooled(chosen[r], kind)
          /\ Finish(r) \/ StartWalk(r, kind, cooling')
    BY HeardIsKind DEF RetryAnswers
<1>2. pc[r] = "retrying" /\ chosen[r] \in Workers /\ UNCHANGED <<quarantined, spent, chosen, primary, from>>
    BY <1>a DEF RetryAnswers, Phase, Waiting, AtVendor
<1>3. /\ WalkOK' /\ pc'[r] \in {"done", "retrying", "trying", "sleeping"}
      /\ pc'[r] = "trying" => trying'[r] \in Workers
      /\ \A q \in Requests \ {r} : pc'[q] = pc[q] /\ trying'[q] = trying[q]
    BY <1>a, <1>1, FinishStep, StartWalkStep
<1>4. answer' \in [Requests -> Answers] /\ OthersStay(r) /\ Phase(r)'
    BY <1>1, <1>2, <1>3, KeepStep
<1>5. cooling' \subseteq Workers
    BY <1>a, <1>1, <1>2, CooledAreWorkers
<1>6. TypeOK'
    BY <1>a, <1>2, <1>3, <1>4, <1>5 DEF RetryAnswers, LeavesSlot, TypeOK, WalkOK
<1> QED BY <1>3, <1>a, <1>4, <1>6, PhaseFrame DEF IInv

LEMMA WakesStep ==
    ASSUME IInv, NEW r \in Requests, Wakes(r)
    PROVE  IInv' /\ OthersStay(r) /\ pc'[r] # "calling"
<1>a. TypeOK /\ \A q \in Requests : Phase(q)
    BY DEF IInv
<1>1. /\ WalkOK' /\ pc'[r] \in {"done", "trying"}
      /\ pc'[r] = "trying" => trying'[r] \in Workers
      /\ \A q \in Requests \ {r} : pc'[q] = pc[q] /\ trying'[q] = trying[q]
    BY <1>a, CandidatesAreWorkers, TryNextStep DEF Wakes
<1>2. pc[r] = "sleeping" /\ UNCHANGED <<shared, chosen, primary, from, answer>>
    BY DEF Wakes
<1>3. TypeOK'
    BY <1>a, <1>1, <1>2 DEF TypeOK, WalkOK, shared
<1>4. Phase(r)' /\ OthersStay(r)
    BY <1>a, <1>1, <1>2 DEF Phase, OthersStay, Waiting, AtVendor
<1> QED BY <1>1, <1>a, <1>3, <1>4, PhaseFrame DEF IInv

LEMMA FallbackAnswersStep ==
    ASSUME IInv, NEW r \in Requests, FallbackAnswers(r)
    PROVE  IInv' /\ OthersStay(r) /\ pc'[r] # "calling"
<1>a. TypeOK /\ \A q \in Requests : Phase(q)
    BY DEF IInv
<1>1. PICK kind \in Kinds :
          /\ cooling' = Cooled(trying[r], kind)
          /\ \/ /\ TryNext(r, todo[r], cooling')
                /\ UNCHANGED <<chosen, from, answer>>
             \/ /\ pc' = [pc EXCEPT ![r] = "judging"]
                /\ UNCHANGED <<chosen, from, answer, walk>>
             \/ kind \in Good /\ Accept(r, Kept(trying[r], kind))
    BY HeardIsKind DEF FallbackAnswers
<1>2. /\ pc[r] = "trying" /\ trying[r] \in Workers
      /\ UNCHANGED <<quarantined, spent, primary>> /\ slots' \subseteq Requests
    BY <1>a DEF FallbackAnswers, LeavesSlot, Phase, TypeOK
<1>3. cooling' \subseteq Workers
    BY <1>a, <1>1, <1>2, CooledAreWorkers
<1>4. CASE kind \in Good /\ Accept(r, Kept(trying[r], kind))
  <2>1. /\ WalkOK' /\ chosen' \in [Requests -> Workers \cup {NoWorker}]
        /\ from' \in [Requests -> Workers \cup {NoWorker}]
        /\ answer' \in [Requests -> Answers] /\ OthersStay(r) /\ Phase(r)' /\ pc'[r] = "done"
      BY <1>2, <1>4, AcceptStep
  <2>2. TypeOK'
      BY <1>a, <1>2, <1>3, <2>1 DEF TypeOK, WalkOK
  <2> QED BY <1>a, <2>1, <2>2, PhaseFrame DEF IInv
<1>5. CASE /\ WalkOK' /\ pc'[r] \in {"done", "trying", "judging"}
           /\ pc'[r] \in {"trying", "judging"} => trying'[r] \in Workers
           /\ \A q \in Requests \ {r} : pc'[q] = pc[q] /\ trying'[q] = trying[q]
           /\ UNCHANGED <<chosen, from, answer>>
  <2>1. TypeOK'
      BY <1>a, <1>2, <1>3, <1>5 DEF TypeOK, WalkOK
  <2>2. Phase(r)' /\ OthersStay(r)
      BY <1>a, <1>2, <1>5 DEF Phase, OthersStay, Waiting, AtVendor
  <2> QED BY <1>a, <1>5, <2>1, <2>2, PhaseFrame DEF IInv
<1>6. CASE TryNext(r, todo[r], cooling') /\ UNCHANGED <<chosen, from, answer>>
  <2>1. todo[r] \in SUBSET Workers
      BY <1>a DEF TypeOK
  <2> QED BY <1>a, <1>5, <1>6, <2>1, TryNextStep
<1>7. CASE /\ pc' = [pc EXCEPT ![r] = "judging"]
           /\ UNCHANGED <<chosen, from, answer, walk>>
  <2>1. WalkOK' /\ pc'[r] = "judging" /\ trying'[r] \in Workers
      BY <1>a, <1>2, <1>7 DEF walk, TypeOK, WalkOK, Waiting
  <2>2. \A q \in Requests \ {r} : pc'[q] = pc[q] /\ trying'[q] = trying[q]
      BY <1>a, <1>7 DEF walk, TypeOK
  <2> QED BY <1>5, <1>7, <2>1, <2>2
<1> QED BY <1>1, <1>4, <1>6, <1>7

LEMMA JudgeAnswersStep ==
    ASSUME IInv, NEW r \in Requests, JudgeAnswers(r)
    PROVE  IInv' /\ OthersStay(r) /\ pc'[r] # "calling"
<1>a. TypeOK /\ \A q \in Requests : Phase(q)
    BY DEF IInv
<1>1. /\ WalkOK' /\ chosen' \in [Requests -> Workers \cup {NoWorker}]
      /\ from' \in [Requests -> Workers \cup {NoWorker}]
      /\ answer' \in [Requests -> Answers] /\ OthersStay(r) /\ Phase(r)' /\ pc'[r] = "done"
  <2>1. "text" \in Good
      BY DEF Good
  <2> QED BY <2>1, AcceptStep DEF JudgeAnswers
<1>2. TypeOK'
    BY <1>a, <1>1 DEF JudgeAnswers, shared, TypeOK, WalkOK
<1> QED BY <1>a, <1>1, <1>2, PhaseFrame DEF IInv

LEMMA AgainStep ==
    ASSUME IInv, NEW r \in Requests, Again(r)
    PROVE  IInv' /\ OthersStay(r) /\ pc'[r] # "calling"
<1>a. TypeOK /\ \A q \in Requests : Phase(q)
    BY DEF IInv
<1>1. TypeOK'
    BY <1>a DEF Again, TypeOK, shared, walk, Answers, NoAnswer
<1>2. Phase(r)' /\ OthersStay(r) /\ pc'[r] # "calling"
    BY <1>a DEF Again, TypeOK, shared, walk, Phase, OthersStay, Waiting, AtVendor
<1> QED BY <1>a, <1>1, <1>2, PhaseFrame DEF IInv

LEMMA TakesSlotStep ==
    ASSUME IInv, NEW r \in Requests, TakesSlot(r)
    PROVE  IInv' /\ OthersStay(r)
    BY DEF TakesSlot, IInv, TypeOK, Phase, OthersStay, locals, walk

LEMMA InvStep == IInv /\ [Next]_vars => IInv'
<1> SUFFICES ASSUME IInv, [Next]_vars PROVE IInv'
    OBVIOUS
<1>1. ASSUME NEW r \in Requests, Arrive(r) \/ TakesSlot(r) \/ VendorAnswers(r) \/ Wakes(r) \/ Again(r)
      PROVE  IInv'
    BY <1>1, ArriveStep, TakesSlotStep, PrimaryAnswersStep, RetryAnswersStep, FallbackAnswersStep,
       JudgeAnswersStep, WakesStep, AgainStep DEF VendorAnswers
<1>2. ASSUME NEW w \in Workers, WarmsUp(w) PROVE IInv'
    BY <1>2 DEF WarmsUp, IInv, TypeOK, Phase, locals, walk
<1>3. ASSUME NEW w \in Suspects, Condemned(w) PROVE IInv'
    BY <1>3, RouteTierAssumption DEF Condemned, IInv, TypeOK, Phase, locals, walk
<1>4. CASE UNCHANGED vars
    BY <1>4 DEF vars, shared, locals, walk, IInv, TypeOK, Phase
<1> QED BY <1>1, <1>2, <1>3, <1>4 DEF Next

-----------------------------------------------------------------------------
(* The ledger and the slots *)

Spenders == {r \in Requests : pc[r] = "calling" /\ chosen[r] \in Sacred}

LEMMA TimesKeepsOrder ==
    ASSUME NEW c \in Nat, NEW a \in Nat, NEW b \in Nat, a <= b
    PROVE  c * a <= c * b
    OBVIOUS

LEMMA SpendersCount ==
    /\ IsFiniteSet(Spenders) /\ Cardinality(Spenders) \in Nat
    /\ Cardinality(Requests) \in Nat /\ Cardinality(Spenders) <= Cardinality(Requests)
<1>1. Spenders \in SUBSET Requests /\ IsFiniteSet(Requests)
    BY RouteTierAssumption DEF Spenders
<1> QED BY <1>1, FS_Subset, FS_CardinalityType

\* A step either ends below the cap, or spends no more than the calls it ends
\* were good for.
LEMMA SpendingBounded ==
    ASSUME IInv, spent \in Nat, spent' \in Nat, SacredOvershoot,
           \/ spent' < HardCap
           \/ spent' = spent /\ Spenders' \subseteq Spenders
           \/ \E r \in Spenders : Spenders' = Spenders \ {r} /\ spent' <= spent + SacredCost
    PROVE  SacredOvershoot'
<1> DEFINE n == Cardinality(Requests)  k == Cardinality(Spenders)  k1 == Cardinality(Spenders')
<1>1. SacredCost \in Nat /\ HardCap \in Nat /\ n \in Nat /\ k \in Nat /\ k <= n
    BY SpendersCount, RouteTierAssumption
<1>2. k1 \in Nat /\ k1 <= n /\ IsFiniteSet(Spenders')
  <2>1. Spenders' \in SUBSET Requests /\ IsFiniteSet(Requests)
      BY RouteTierAssumption DEF Spenders
  <2> QED BY <2>1, FS_Subset, FS_CardinalityType
<1>3. SacredCost * k1 \in Nat /\ SacredCost * k \in Nat /\ SacredCost * n \in Nat
    BY <1>1, <1>2
<1>4. spent + SacredCost * k <= HardCap - 1 + SacredCost * n
    BY DEF SacredOvershoot, Spenders
<1>5. spent' + SacredCost * k1 <= HardCap - 1 + SacredCost * n
  <2>1. CASE spent' < HardCap
    <3>1. SacredCost * k1 <= SacredCost * n
        BY <1>1, <1>2, TimesKeepsOrder
    <3> HIDE DEF n, k, k1
    <3> QED BY <1>1, <1>3, <2>1, <3>1
  <2>2. CASE spent' = spent /\ Spenders' \subseteq Spenders
    <3>1. k1 <= k
        BY <2>2, SpendersCount, FS_Subset
    <3>2. SacredCost * k1 <= SacredCost * k
        BY <1>1, <1>2, <3>1, TimesKeepsOrder
    <3> HIDE DEF n, k, k1
    <3> QED BY <1>1, <1>3, <1>4, <2>2, <3>2
  <2>3. ASSUME NEW r \in Spenders, Spenders' = Spenders \ {r}, spent' <= spent + SacredCost
        PROVE  spent' + SacredCost * k1 <= HardCap - 1 + SacredCost * n
    <3>1. k1 = k - 1
        BY <2>3, SpendersCount, FS_RemoveElement
    <3>2. SacredCost * k = SacredCost * k1 + SacredCost
      <4> HIDE DEF n, k, k1
      <4> QED BY <1>1, <1>2, <3>1
    <3> HIDE DEF n, k, k1
    <3> QED BY <1>1, <1>3, <1>4, <2>3, <3>2
  <2> QED BY <2>1, <2>2, <2>3
<1> QED BY <1>5 DEF SacredOvershoot, Spenders

LEMMA NoNewSpender ==
    ASSUME NEW r \in Requests, OthersStay(r), pc'[r] = "calling" => chosen'[r] \notin Sacred
    PROVE  Spenders' \subseteq Spenders \ {r}
    BY DEF Spenders, OthersStay

LEMMA OvershootStep == IInv /\ SacredOvershoot /\ [Next]_vars => SacredOvershoot'
<1> SUFFICES ASSUME IInv, SacredOvershoot, [Next]_vars PROVE SacredOvershoot'
    OBVIOUS
<1>0. TypeOK /\ spent \in Nat /\ TypeOK' /\ spent' \in Nat
  <2>1. IInv'
      BY InvStep
  <2> QED BY <2>1 DEF IInv, TypeOK
<1>1. ASSUME NEW r \in Requests, Arrive(r) PROVE SacredOvershoot'
  <2>1. spent' = spent
      BY <1>1 DEF Arrive, shared
  <2>2. CASE spent >= HardCap
    <3>1. chosen'[r] \notin Sacred
        BY <1>0, <1>1, <2>2, SelectedProperly DEF Arrive, TypeOK
    <3>2. Spenders' \subseteq Spenders
        BY <1>1, <3>1, ArriveStep, NoNewSpender
    <3> QED BY <1>0, <2>1, <3>2, SpendingBounded
  <2>3. CASE spent < HardCap
      BY <1>0, <2>1, <2>3, SpendingBounded
  <2> QED BY <1>0, <2>2, <2>3, RouteTierAssumption
<1>2. ASSUME NEW r \in Requests, PrimaryAnswers(r) PROVE SacredOvershoot'
  <2>1. Spenders' = Spenders \ {r}
      BY <1>2, PrimaryAnswersStep DEF Spenders, OthersStay
  <2>2. CASE r \in Spenders
    <3>1. spent' <= spent + SacredCost
        BY <1>0, <1>2, RouteTierAssumption DEF PrimaryAnswers, Recorded
    <3> QED BY <1>0, <2>1, <2>2, <3>1, SpendingBounded
  <2>3. CASE r \notin Spenders
    <3>1. spent' = spent
        BY <1>2, <2>3 DEF PrimaryAnswers, Recorded, Spenders
    <3> QED BY <1>0, <2>1, <3>1, SpendingBounded
  <2> QED BY <2>2, <2>3
<1>3. ASSUME NEW r \in Requests,
             RetryAnswers(r) \/ FallbackAnswers(r) \/ JudgeAnswers(r) \/ Wakes(r) \/ Again(r)
      PROVE  SacredOvershoot'
  <2>1. spent' = spent
      BY <1>3 DEF RetryAnswers, FallbackAnswers, JudgeAnswers, Wakes, Again, shared
  <2>2. OthersStay(r) /\ pc'[r] # "calling"
      BY <1>3, RetryAnswersStep, FallbackAnswersStep, JudgeAnswersStep, WakesStep, AgainStep
  <2>3. Spenders' \subseteq Spenders
      BY <2>2, NoNewSpender
  <2> QED BY <1>0, <2>1, <2>3, SpendingBounded
<1>4. CASE UNCHANGED <<spent, pc, chosen>>
    BY <1>4 DEF SacredOvershoot
<1>5. ASSUME NEW r \in Requests, TakesSlot(r) PROVE UNCHANGED <<spent, pc, chosen>>
    BY <1>5 DEF TakesSlot, locals
<1>6. ASSUME NEW w, WarmsUp(w) \/ Condemned(w) PROVE UNCHANGED <<spent, pc, chosen>>
    BY <1>6 DEF WarmsUp, Condemned, locals
<1>7. CASE UNCHANGED vars
    BY <1>4, <1>7 DEF vars, shared, locals
<1> QED BY <1>1, <1>2, <1>3, <1>4, <1>5, <1>6, <1>7 DEF Next, VendorAnswers

-----------------------------------------------------------------------------
(* The shunt *)

\* A worker of the pool that is not on BaosiAPI and could be called.
Spare(x) == x \in (TierPool \cap Enabled) \ Baosi /\ x \notin cooling \cup quarantined

\* As long as one can be, no walk over the pool that passes it ends on BaosiAPI.
LEMMA FirstIsFree ==
    ASSUME BaosiLast, NEW S \in SUBSET Members(Pool), NEW x \in S, x \notin Baosi
    PROVE  FirstInPool(S) \in S /\ FirstInPool(S) \notin Baosi
<1>1. FirstInPool(S) \in S /\ Position(Pool, FirstInPool(S)) <= Position(Pool, x)
    BY FirstComesFirst
<1>2. DOMAIN Pool \subseteq Nat
    BY RouteTierAssumption
<1>3. Position(Pool, FirstInPool(S)) \in Nat /\ Position(Pool, x) \in Nat
    BY <1>1, <1>2 DEF Position, Members
<1> QED BY <1>1, <1>3 DEF BaosiLast

LEMMA CheapestIsFree ==
    ASSUME BaosiLast PROVE Cheapest \notin Baosi
<1>1. \A v \in Enabled \ Sacred : Cost[Cheapest] <= Cost[v]
    BY RouteTierAssumption DEF Cheapest
<1> QED BY <1>1, CheapestExists DEF BaosiLast

\* Nor does the budget override: what it turns away costs less than all that
\* BaosiAPI has in the pool.
LEMMA BudgetStaysFree ==
    ASSUME BaosiLast, NEW c \in Enabled \ Baosi, c \in Members(Pool) \/ c = Cheapest
    PROVE  Budgeted(c) \in Enabled \ Baosi
<1> DEFINE cheaper == {w \in Members(Pool) \ {c} : Cost[w] <= Budget}
<1>1. cheaper \in SUBSET Members(Pool) /\ Members(Pool) \subseteq Enabled
    BY TierPoolInPool
<1>2. CASE Budgeted(c) = c
    BY <1>2
<1>3. CASE Cost[c] > Budget /\ Budgeted(c) \in cheaper
  <2>1. Cost[c] \in Nat /\ Cost[Budgeted(c)] \in Nat /\ Budget \in Nat
      BY <1>1, <1>3, RouteTierAssumption
  <2>2. Cost[Budgeted(c)] < Cost[c]
      BY <1>3, <2>1
  <2>3. ASSUME Budgeted(c) \in Baosi PROVE FALSE
    <3>1. CASE c \in Members(Pool)
        BY <1>3, <2>1, <2>2, <2>3, <3>1 DEF BaosiLast
    <3>2. CASE c = Cheapest
      <4>1. \A v \in Enabled \ Sacred : Cost[c] <= Cost[v]
          BY <3>2, RouteTierAssumption DEF Cheapest
      <4>2. CASE Budgeted(c) \in Sacred
        <5>1. c \in Enabled \ Sacred /\ Budgeted(c) \in Sacred \cap Workers
            BY <1>1, <1>3, <3>2, <4>2, CheapestExists, RouteTierAssumption
        <5> QED BY <2>1, <2>2, <5>1, RouteTierAssumption
      <4>3. CASE Budgeted(c) \notin Sacred
          BY <1>1, <1>3, <2>1, <2>2, <4>1, <4>3
      <4> QED BY <4>2, <4>3
    <3> QED BY <3>1, <3>2
  <2> QED BY <1>1, <1>3, <2>3
<1> QED BY <1>1, <1>2, <1>3, OtherwiseOffered DEF Budgeted

\* So a worker of BaosiAPI is selected past the threshold only by a rule.
LEMMA ShuntSelects ==
    ASSUME BaosiLast, NEW f, NEW p \in Members(Pool), ShouldShunt, NEW x, Spare(x),
           Selected(f, p) \in Baosi
    PROVE  Selected(f, p) = f
<1> USE TierPoolInPool
<1>0. x \in TierPool /\ x \in Enabled /\ x \notin Baosi /\ x \notin cooling /\ x \notin quarantined
    BY DEF Spare
<1>1. ASSUME NEW c \in Enabled PROVE Usable(c) = c
    BY <1>1 DEF Usable, Otherwise
<1>2. ASSUME NEW c \in Enabled PROVE SacredGuarded(c) \in {c, Cheapest}
    BY DEF SacredGuarded
<1>3. CASE Forces(f)
    BY <1>1, <1>2, <1>3, CheapestExists, CheapestIsFree DEF Selected, Forces
<1>4. CASE ~Forces(f)
  <2> DEFINE u == Unquarantined(p)  s == Shunted(u)  w == Warm(s)  g == SacredGuarded(w)
  <2>1. u \in Members(Pool)
    <3>1. TierPool \ quarantined \in SUBSET Members(Pool)
        OBVIOUS
    <3> QED BY <3>1, FirstIsOffered DEF Unquarantined, Otherwise
  <2>2. s \in Members(Pool) \ Baosi
    <3>1. (TierPool \cap Enabled) \ Baosi \in SUBSET Members(Pool)
          /\ x \in (TierPool \cap Enabled) \ Baosi
        BY <1>0
    <3> HIDE DEF u
    <3> QED BY <2>1, <3>1, FirstIsOffered DEF Shunted, Otherwise
  <2>3. w \in Members(Pool) \ Baosi
    <3> HIDE DEF s
    <3> DEFINE offers == TierPool \ (cooling \cup {s})
    <3>1. CASE s \in cooling \cup quarantined
      <4>1. offers \in SUBSET Members(Pool) /\ x \in offers
          BY <1>0, <3>1
      <4>2. FirstInPool(offers) \in offers /\ FirstInPool(offers) \notin Baosi
          BY <1>0, <4>1, FirstIsFree
      <4> QED BY <3>1, <4>1, <4>2 DEF Warm, Otherwise
    <3>2. CASE s \notin cooling \cup quarantined
        BY <2>2, <3>2 DEF Warm, Otherwise
    <3> QED BY <3>1, <3>2
  <2>4. g \in Enabled \ Baosi /\ (g \in Members(Pool) \/ g = Cheapest)
    <3> HIDE DEF w
    <3> QED BY <1>2, <2>3, CheapestExists, CheapestIsFree
  <2>5. Selected(f, p) = Usable(Budgeted(g))
      BY <1>4 DEF Selected
  <2> HIDE DEF g
  <2> QED BY <1>1, <2>4, <2>5, BudgetStaysFree
<1> QED BY <1>3, <1>4

LEMMA ShuntStep ==
    ASSUME BaosiLast, TypeOK, Next, NEW r \in Requests,
           pc[r] = "idle", pc'[r] = "calling", Cardinality(slots) >= ShuntAt,
           primary'[r] \in Baosi \ (Rules \cup {ImageWorker})
    PROVE  (TierPool \cap Enabled) \ Baosi \subseteq cooling \cup quarantined
<1>1. Arrive(r)
  <2> USE DEF locals, walk
  <2>1. ASSUME NEW q \in Requests, q # r,
               \/ Arrive(q) \/ TakesSlot(q) \/ VendorAnswers(q) \/ Wakes(q) \/ Again(q)
        PROVE  pc'[r] = pc[r]
      BY <2>1 DEF Arrive, TakesSlot, VendorAnswers, PrimaryAnswers, RetryAnswers,
          FallbackAnswers, JudgeAnswers, Wakes, Again, TryNext, StartWalk, Finish, Asks,
          Accept, TypeOK
  <2>2. ASSUME TakesSlot(r) \/ VendorAnswers(r) \/ Wakes(r) \/ Again(r) PROVE FALSE
      BY <2>2 DEF TakesSlot, VendorAnswers, PrimaryAnswers, RetryAnswers,
          FallbackAnswers, JudgeAnswers, Wakes, Again, AtVendor
  <2>3. ASSUME NEW w \in Workers, WarmsUp(w) \/ Condemned(w) PROVE FALSE
      BY <2>3 DEF WarmsUp, Condemned
  <2> QED BY <2>1, <2>2, <2>3, RouteTierAssumption DEF Next
<1>2. PICK f \in Rules \cup {ImageWorker, NoWorker}, p \in Members(Pool) :
          primary' = [primary EXCEPT ![r] = Selected(f, p)]
    BY <1>1 DEF Arrive
<1>3. primary'[r] = Selected(f, p)
    BY <1>2 DEF TypeOK
<1>4. SUFFICES ASSUME NEW x, Spare(x) PROVE FALSE
    BY DEF Spare
<1>5. Selected(f, p) = f
    BY <1>2, <1>3, <1>4, ShuntSelects DEF ShouldShunt
<1>6. Selected(f, p) \in Enabled
    BY SelectedProperly
<1> QED BY <1>2, <1>3, <1>5, <1>6, RouteTierAssumption

-----------------------------------------------------------------------------

LEMMA InitHolds == Init => IInv /\ SacredOvershoot
<1> SUFFICES ASSUME Init PROVE IInv /\ SacredOvershoot
    OBVIOUS
<1>1. IInv
    BY RouteTierAssumption
    DEF Init, IInv, TypeOK, Phase, Answers, NoAnswer, Waiting, AtVendor
<1>2. SacredOvershoot
  <2>1. Spenders = {} /\ Cardinality({}) = 0
      BY FS_EmptySet DEF Init, Spenders
  <2>2. SacredCost * Cardinality(Requests) \in Nat
      BY SpendersCount, RouteTierAssumption
  <2>3. spent + SacredCost * Cardinality(Spenders) = 0
      BY <2>1, RouteTierAssumption DEF Init
  <2>4. HardCap \in Nat /\ HardCap > 0
      BY RouteTierAssumption
  <2> QED BY <2>2, <2>3, <2>4 DEF SacredOvershoot, Spenders
<1> QED BY <1>1, <1>2

LEMMA Inductive == Spec => [](IInv /\ SacredOvershoot)
<1>1. (IInv /\ SacredOvershoot) /\ [Next]_vars
        => (IInv /\ SacredOvershoot)'
    BY InvStep, OvershootStep
<1> QED BY InitHolds, <1>1, PTL DEF Spec

\* Every variable of routing_core.py's _route_tier() keeps its type; a worker
\* is selected that config.py knows and enables.
THEOREM TypeCorrect == Spec => []TypeOK
<1>1. IInv => TypeOK
    BY DEF IInv
<1> QED BY Inductive, <1>1, PTL

\* However many requests walk the ladder at once, a reply names the worker
\* whose answer it carries and the primary it fell back from (1010-1046).
THEOREM RepliesAreHonest == Spec => []ReplyHonest
<1>1. IInv => ReplyHonest
    BY DEF IInv, Phase, ReplyHonest
<1> QED BY Inductive, <1>1, PTL

\* The ledger of an API key never passes its hard cap by more than one call of
\* each request in flight (599 against 834), whatever the overrides choose.
THEOREM OvershootIsBounded == Spec => []SacredOvershoot
    BY Inductive, PTL

\* With the pool in the order config.py gives it (tier_pool_from_config,
\* 834-843), no override after the shunt brings a request back to BaosiAPI while
\* another worker of the pool could take it (526-555 against 585-656).
THEOREM ShuntIsKept == BaosiLast => (Spec => ShuntHolds)
<1> SUFFICES ASSUME BaosiLast PROVE Spec => ShuntHolds
    OBVIOUS
<1>1. TypeOK /\ [Next]_vars =>
        [\A r \in Requests :
           /\ pc[r] = "idle" /\ pc'[r] = "calling"
           /\ Cardinality(slots) >= ShuntAt
           /\ primary'[r] \in Baosi \ (Rules \cup {ImageWorker})
           => (TierPool \cap Enabled) \ Baosi \subseteq cooling \cup quarantined]_vars
    BY ShuntStep
<1> QED BY <1>1, TypeCorrect, PTL DEF Spec, ShuntHolds
=============================================================================

----------------------------- MODULE RulesProofs -----------------------------
(***************************************************************************)
(* What holds of the parts of the gateway that compute: no rule chooses a   *)
(* worker that its environment forbids, a better score never costs a worker *)
(* its place, what judges have observed survives, and every conversation    *)
(* with tools, however broken, is repaired to one that vendors accept.      *)
(***************************************************************************)
EXTENDS Rules, SequenceTheorems, FiniteSetTheorems, WellFoundedInduction, TLAPS

-----------------------------------------------------------------------------
(* Sets, loops and folds *)

\* Of finite sets there is a smallest: one that has no other within it.
LEMMA SmallestExists ==
    ASSUME NEW S, IsFiniteSet(S), NEW F, F \subseteq SUBSET S, F # {}
    PROVE  \E T \in F : \A U \in F : U \subseteq T => U = T
<1>1. F \subseteq FiniteSubsetsOf(S)
    BY FS_Subset DEF FiniteSubsetsOf
<1>2. PICK T \in F : \A U \in F : ~(<<U, T>> \in StrictSubsetOrdering(S))
    BY <1>1, FS_StrictSubsetOrderingWellFounded, WFMin
<1>3. ASSUME NEW U \in F, U \subseteq T, U # T PROVE FALSE
    BY <1>2, <1>3 DEF StrictSubsetOrdering
<1> QED BY <1>3

\* A finite set of naturals that is not empty has a greatest member: a smallest
\* subset that had none would have lost it with any of its members.
LEMMA MaxExists ==
    ASSUME NEW S, S \subseteq Nat, IsFiniteSet(S), S # {}
    PROVE  Max(S) \in S /\ \A x \in S : x <= Max(S)
<1> DEFINE Topped(T) == \E x \in T : \A y \in T : y <= x
           Bad == {T \in SUBSET S : T # {} /\ ~Topped(T)}
<1>1. Topped(S)
  <2> SUFFICES ASSUME ~Topped(S) PROVE FALSE
    OBVIOUS
  <2>1. Bad \subseteq SUBSET S
    OBVIOUS
  <2>2. Bad # {}
    <3>1. S \in Bad
        OBVIOUS
    <3> QED BY <3>1
  <2>3. PICK T \in Bad : \A U \in Bad : U \subseteq T => U = T
    <3>1. IsFiniteSet(S)
        OBVIOUS
    <3> HIDE DEF Bad
    <3> QED BY ONLY <2>1, <2>2, <3>1, SmallestExists
  <2>4. PICK x \in T : x \in Nat /\ T \subseteq Nat
    OBVIOUS
  <2>5. T \ {x} \notin Bad
    BY <2>3, <2>4
  <2>6. CASE T \ {x} = {}
    BY <2>4, <2>6
  <2>7. CASE T \ {x} # {}
    <3>1. PICK m \in T \ {x} : \A y \in T \ {x} : y <= m
        BY <2>5, <2>7
    <3>2. CASE m <= x
      <4>1. \A y \in T : y <= x
          BY <2>4, <3>1, <3>2
      <4> QED BY <2>4, <4>1
    <3>3. CASE ~(m <= x)
      <4>1. \A y \in T : y <= m
          BY <2>4, <3>1, <3>3
      <4> QED BY <3>1, <4>1
    <3> QED BY <3>2, <3>3
  <2> QED BY <2>6, <2>7
<1>2. \E x \in S : \A y \in S : x >= y
    BY <1>1
<1> QED BY <1>2 DEF Max

\* A set of naturals that is not empty has a least member.
LEMMA LeastExists ==
    ASSUME NEW S, S \subseteq Nat, S # {}
    PROVE  \E n \in S : \A m \in S : n <= m
<1>1. PICK k \in S : TRUE
    OBVIOUS
<1> DEFINE F == {0..n : n \in S \cap 0..k}
           upTo == 0..k
<1>2. PICK T \in F : \A U \in F : U \subseteq T => U = T
  <2>1. IsFiniteSet(upTo)
    BY FS_Interval
  <2>2. F \subseteq SUBSET upTo /\ F # {}
    BY <1>1
  <2> HIDE DEF F, upTo
  <2> QED BY ONLY <2>1, <2>2, SmallestExists
<1>3. PICK n \in S \cap 0..k : T = 0..n
    BY <1>2
<1>4. ASSUME NEW m \in S, m < n PROVE FALSE
  <2>1. 0..m \in F
    BY <1>3, <1>4
  <2>2. 0..m \subseteq 0..n /\ n \in 0..n /\ n \notin 0..m
    BY <1>3, <1>4
  <2> QED BY <1>2, <1>3, <2>1, <2>2
<1> QED BY <1>3, <1>4

\* So a set of naturals has a smallest.
LEMMA MinExists ==
    ASSUME NEW S, S \subseteq Nat, S # {}
    PROVE  Min(S) \in S /\ \A m \in S : Min(S) <= m
<1>1. \E n \in S : \A m \in S : n <= m
    BY LeastExists
<1> QED BY <1>1 DEF Min

\* A loop over 1..n whose step keeps to a set runs to its end, and stays there.
IsLoop(n, T, s0, step) == n \in Nat /\ s0 \in T /\ step \in [T \X (1..n) -> T]
LoopDone(n, T, s0, step, t) ==
    /\ t \in [0..n -> T] /\ t[0] = s0
    /\ \A i \in 1..n : t[i] = step[<<t[i - 1], i>>]

\* By the smallest number of rounds that a loop could not make.
LEMMA LoopRuns ==
    ASSUME NEW n, NEW T, NEW s0, NEW step, IsLoop(n, T, s0, step)
    PROVE  \E t : LoopDone(n, T, s0, step, t)
<1> USE DEF IsLoop
<1> DEFINE Runs(k, t) == LoopDone(k, T, s0, step, t)
           Bad == {k \in 0..n : ~\E t : Runs(k, t)}
<1> SUFFICES ASSUME Bad # {} PROVE FALSE
  <2>1. n \notin Bad
    OBVIOUS
  <2> QED BY <2>1
<1>1. PICK k \in Bad : \A m \in Bad : k <= m
  <2>1. Bad \subseteq Nat
    OBVIOUS
  <2> HIDE DEF Bad
  <2> QED BY <2>1, LeastExists
<1>2. CASE k = 0
  <2>1. Runs(0, [i \in 0..0 |-> s0])
    BY DEF LoopDone
  <2> QED BY <1>1, <1>2, <2>1
<1>3. CASE k > 0
  <2>1. k \in 1..n
    BY <1>1, <1>3
  <2> HIDE DEF Bad
  <2>5. k - 1 \notin Bad
    BY <1>1, <2>1
  <2> USE DEF Bad
  <2>2. PICK t : Runs(k - 1, t)
    BY <2>1, <2>5
  <2> DEFINE u == [i \in 0..k |-> IF i = k THEN step[<<t[k - 1], k>>] ELSE t[i]]
  <2>3. step[<<t[k - 1], k>>] \in T
    BY <2>1, <2>2 DEF LoopDone
  <2>4. Runs(k, u)
    <3>1. u \in [0..k -> T] /\ u[0] = s0
        BY <2>1, <2>2, <2>3 DEF LoopDone
    <3>2. ASSUME NEW i \in 1..k PROVE u[i] = step[<<u[i - 1], i>>]
      <4>1. CASE i = k
        <5>1. u[i - 1] = t[k - 1] /\ u[i] = step[<<t[k - 1], k>>]
            BY <2>1, <4>1
        <5> QED BY <4>1, <5>1
      <4>2. CASE i # k
          BY <2>1, <2>2, <4>2 DEF LoopDone
      <4> QED BY <4>1, <4>2
    <3> HIDE DEF u
    <3> QED BY <3>1, <3>2 DEF LoopDone
  <2> QED BY <1>1, <2>4
<1> QED BY <1>1, <1>2, <1>3

-----------------------------------------------------------------------------
\* A fold o over a finite set S, whose steps keep to the set T: what it makes of
\* nothing, which member of a set is next, and what a member makes of the rest.
IsFold(o, S, T) ==
    /\ IsFiniteSet(S) /\ o.base \in T /\ o.step \in [T \X S -> T]
    /\ \A s \in SUBSET S : s # {} => o.pick[s] \in s
Folded(o, g, s) == IF s = {} THEN o.base ELSE o.step[<<g[s \ {o.pick[s]}], o.pick[s]>>]
Folds(o, g, S) == g = [s \in SUBSET S |-> Folded(o, g, s)]

\* Two such folds agree: in a smallest set where they did not they would agree on
\* the rest of it.
LEMMA FoldsAgree ==
    ASSUME NEW o, NEW S, NEW T, IsFold(o, S, T)
    PROVE  \A U, V \in SUBSET S : \A g, h :
             Folds(o, g, U) /\ Folds(o, h, V) => \A s \in SUBSET (U \cap V) : g[s] = h[s]
<1> SUFFICES ASSUME NEW U \in SUBSET S, NEW V \in SUBSET S, NEW g, NEW h, NEW s \in SUBSET (U \cap V),
                    Folds(o, g, U), Folds(o, h, V)
             PROVE  g[s] = h[s]
    OBVIOUS
<1> DEFINE Bad == {r \in SUBSET s : g[r] # h[r]}
<1> SUFFICES ASSUME Bad # {} PROVE FALSE
    OBVIOUS
<1>1. PICK r \in Bad : \A q \in Bad : q \subseteq r => q = r
  <2>1. Bad \subseteq SUBSET s
    OBVIOUS
  <2>2. IsFiniteSet(s)
    BY FS_Subset DEF IsFold
  <2> HIDE DEF Bad
  <2> QED BY <2>1, <2>2, SmallestExists
<1>2. r # {} /\ o.pick[r] \in r
    BY <1>1 DEF Folds, Folded, IsFold
<1>3. g[r \ {o.pick[r]}] = h[r \ {o.pick[r]}]
    BY <1>1, <1>2
<1>4. g[r] = Folded(o, g, r) /\ h[r] = Folded(o, h, r)
    BY <1>1 DEF Folds
<1>5. Folded(o, g, r) = Folded(o, h, r)
    BY <1>2, <1>3 DEF Folded
<1> QED BY <1>1, <1>4, <1>5

\* There is such a fold, and it keeps to the set: a smallest set without one
\* would get it from its subsets.
LEMMA FoldExists ==
    ASSUME NEW o, NEW S, NEW T, IsFold(o, S, T)
    PROVE  \E g \in [SUBSET S -> T] : Folds(o, g, S)
<1> DEFINE Bad == {U \in SUBSET S : ~\E g \in [SUBSET U -> T] : Folds(o, g, U)}
<1> SUFFICES ASSUME Bad # {} PROVE FALSE
    BY DEF Bad
<1>1. PICK U \in Bad : \A V \in Bad : V \subseteq U => V = U
  <2>1. Bad \subseteq SUBSET S /\ IsFiniteSet(S)
    BY DEF IsFold
  <2> HIDE DEF Bad
  <2> QED BY <2>1, SmallestExists
<1> DEFINE fold(V) == CHOOSE g : g \in [SUBSET V -> T] /\ Folds(o, g, V)
           below == [V \in SUBSET U |-> IF V = U THEN o.base ELSE fold(V)[V]]
           whole == [V \in SUBSET U |-> IF V = U THEN Folded(o, below, U) ELSE below[V]]
<1>2. \A V \in SUBSET U : V # U => fold(V) \in [SUBSET V -> T] /\ Folds(o, fold(V), V)
    BY <1>1
<1>3. ASSUME NEW V \in SUBSET U
      PROVE  whole[V] = Folded(o, whole, V) /\ whole[V] \in T
  <2> DEFINE W == V \ {o.pick[V]}
  <2>0. o.base \in T
    BY DEF IsFold
  <2>1. CASE V = {}
    <3>1. CASE V = U
        BY <2>0, <2>1, <3>1 DEF Folded
    <3>2. CASE V # U
        <4>1. Folds(o, fold(V), V)
            BY <1>2, <3>2
        <4>2. fold(V)[V] = o.base
            BY <2>1, <4>1 DEF Folds, Folded
        <4> HIDE DEF fold
        <4> QED BY <2>0, <2>1, <3>2, <4>2 DEF Folded
    <3> QED BY <3>1, <3>2
  <2>2. CASE V # {}
    <3>1. o.pick[V] \in V /\ o.pick[V] \in S /\ V \subseteq S
        BY <1>1, <2>2 DEF IsFold
    <3>2. W \in SUBSET U /\ W # U /\ W # V /\ W \subseteq V
        BY <3>1
    <3>3. whole[W] = fold(W)[W] /\ below[W] = fold(W)[W]
        BY <3>2
    <3>4. fold(W)[W] \in T
      <4>1. fold(W) \in [SUBSET W -> T]
          BY <1>2, <3>2
      <4> HIDE DEF fold, W
      <4> QED BY <4>1
    <3>5. o.step[<<fold(W)[W], o.pick[V]>>] \in T
      <4> HIDE DEF fold, W
      <4> QED BY <3>1, <3>4 DEF IsFold
    <3>6. CASE V = U
      <4>1. whole[V] = Folded(o, below, V)
          BY <3>6
      <4>2. Folded(o, below, V) = o.step[<<below[W], o.pick[V]>>]
          BY <2>2 DEF Folded
      <4>3. Folded(o, whole, V) = o.step[<<whole[W], o.pick[V]>>]
          BY <2>2 DEF Folded
      <4> HIDE DEF whole, below, fold, W
      <4> QED BY <3>3, <3>5, <4>1, <4>2, <4>3
    <3>7. CASE V # U
      <4>1. Folds(o, fold(V), V) /\ Folds(o, fold(W), W)
          BY <1>2, <3>2, <3>7
      <4>2. W \subseteq S
          BY <3>1, <3>2
      <4> HIDE DEF fold, W
      <4>3. fold(V)[W] = fold(W)[W]
          BY <3>1, <3>2, <4>1, <4>2, FoldsAgree
      <4>4. fold(V)[V] = Folded(o, fold(V), V)
          BY <4>1 DEF Folds
      <4> QED BY <2>2, <3>3, <3>5, <3>7, <4>3, <4>4 DEF Folded, W
    <3> QED BY <3>6, <3>7
  <2> QED BY <2>1, <2>2
<1>4. whole \in [SUBSET U -> T] /\ Folds(o, whole, U)
  <2>1. whole = [V \in SUBSET U |-> whole[V]]
    OBVIOUS
  <2> HIDE DEF whole
  <2> QED BY <1>3, <2>1 DEF Folds
<1> HIDE DEF whole
<1> QED BY <1>1, <1>4

\* What holds of a fold's base and is kept by each of its steps, holds of its
\* value for every subset.
LEMMA FoldKeeps ==
    ASSUME NEW S, IsFiniteSet(S), NEW T, NEW h, h[{}] \in T,
           \A s \in SUBSET S : s # {} => \E r \in SUBSET s : r # s /\ (h[r] \in T => h[s] \in T)
    PROVE  \A s \in SUBSET S : h[s] \in T
<1> DEFINE Bad == {s \in SUBSET S : h[s] \notin T}
<1> SUFFICES ASSUME Bad # {} PROVE FALSE
    OBVIOUS
<1>1. PICK s \in Bad : \A r \in Bad : r \subseteq s => r = s
  <2>1. Bad \subseteq SUBSET S
    OBVIOUS
  <2> HIDE DEF Bad
  <2> QED BY <2>1, SmallestExists
<1>2. PICK r \in SUBSET s : r # s /\ (h[r] \in T => h[s] \in T)
    BY <1>1
<1>3. r \in Bad
    BY <1>1, <1>2
<1> QED BY <1>1, <1>2, <1>3

-----------------------------------------------------------------------------
(* What is chosen by price and quality *)

\* What was observed, or not, of every worker in every cell.
OverlayType == [AllWorkers \X ParetoCells -> NoScore..100]

\* What is divided stays a natural number, and becomes no greater.
LEMMA Quotient ==
    ASSUME NEW a \in Nat, NEW n \in Nat, n > 0
    PROVE  a \div n \in Nat /\ a \div n <= a
OBVIOUS

\* A larger part of a price is no smaller.
LEMMA Products ==
    ASSUME NEW a \in Nat, NEW b \in Nat, NEW c \in Nat, a <= b
    PROVE  a * c \in Nat /\ b * c \in Nat /\ a * c <= b * c
<1>1. PICK d \in Nat : b = a + d
    <2>1. b - a \in Nat
        OBVIOUS
    <2> QED BY <2>1
<1>2. b * c = a * c + d * c
    BY <1>1
<1>3. d * c \in Nat /\ a * c \in Nat
    BY <1>1
<1> QED BY <1>2, <1>3

\* Of several keys, the later ones decide among equals, and the last among all.
Ahead(a, b, c, w, v) == a[w] < a[v] \/ (a[w] = a[v] /\ (b[w] < b[v] \/ (b[w] = b[v] /\ c[w] < c[v])))
Keys(S, a, b, c) ==
    /\ a \in [S -> Nat] /\ b \in [S -> Nat] /\ c \in [S -> Nat]
    /\ \A w, v \in S : c[w] = c[v] => w = v

\* By such keys one of a set is ahead of all others.
LEMMA FirstExists ==
    ASSUME NEW S, S # {}, NEW a, NEW b, NEW c, Keys(S, a, b, c)
    PROVE  \E w \in S : \A v \in S \ {w} : Ahead(a, b, c, w, v)
<1> USE DEF Keys
<1> DEFINE A == {a[w] : w \in S}
<1>1. PICK m \in S : \A v \in S : a[m] <= a[v]
  <2>1. A \subseteq Nat /\ A # {}
    OBVIOUS
  <2>2. \E n \in A : \A k \in A : n <= k
    <3> HIDE DEF A
    <3> QED BY <2>1, LeastExists
  <2> QED BY <2>2
<1> DEFINE SA == {w \in S : a[w] = a[m]}
           B == {b[w] : w \in SA}
<1>2. PICK n \in SA : \A v \in SA : b[n] <= b[v]
  <2>1. B \subseteq Nat /\ B # {}
    OBVIOUS
  <2>2. \E k \in B : \A j \in B : k <= j
    <3> HIDE DEF B
    <3> QED BY <2>1, LeastExists
  <2> QED BY <2>2
<1> DEFINE SB == {w \in SA : b[w] = b[n]}
           C == {c[w] : w \in SB}
<1>3. PICK w \in SB : \A v \in SB : c[w] <= c[v]
  <2>1. C \subseteq Nat /\ C # {}
    BY <1>2
  <2>2. \E k \in C : \A j \in C : k <= j
    <3> HIDE DEF C
    <3> QED BY <2>1, LeastExists
  <2> QED BY <2>2
<1>4. ASSUME NEW v \in S \ {w}
      PROVE  Ahead(a, b, c, w, v)
  <2> USE DEF Ahead
  <2>1. w \in S /\ a[w] = a[m] /\ b[w] = b[n] /\ a[m] <= a[v]
    BY <1>1, <1>2, <1>3
  <2>2. CASE a[v] # a[m]
    BY <2>1, <2>2
  <2>3. CASE a[v] = a[m] /\ b[v] # b[n]
    BY <1>2, <2>1, <2>3
  <2>4. CASE a[v] = a[m] /\ b[v] = b[n]
    <3>1. v \in SB /\ c[w] <= c[v] /\ c[w] # c[v]
        BY <1>3, <2>1, <2>4
    <3> QED BY <2>1, <2>4, <3>1
  <2> QED BY <2>2, <2>3, <2>4
<1> QED BY <1>3, <1>4

\* The pools are of the lane, and the lane of the registry.
LEMMA PoolsOfTheLane ==
    /\ Range(AutoPool) \subseteq AllWorkers
    /\ \A pool \in Pools : pool \subseteq Range(AutoPool)
<1>1. Range(AutoPool) \subseteq AllWorkers
    BY ParetoAssumption DEF Range
<1> QED BY <1>1 DEF Pools, PoolFor

\* Each has its place in an order it is in, and no other has the same.
LEMMA Places ==
    ASSUME NEW order \in Seq(AllWorkers), NEW w \in Range(order)
    PROVE  Index(order, w) \in Nat /\ order[Index(order, w)] = w
<1>1. Index(order, w) \in DOMAIN order /\ order[Index(order, w)] = w
    BY DEF Range, Index
<1>2. DOMAIN order \subseteq Nat
    OBVIOUS
<1> QED BY <1>1, <1>2

\* A measured score is a percentage, or none.
LEMMA MeasuredType ==
    ASSUME NEW w \in AllWorkers, NEW cell
    PROVE  Measured(w, cell) \in NoScore..100
<1> DEFINE same == {i \in DOMAIN Table[w] : <<Table[w][i][1], Table[w][i][2]>> = cell}
           near == {i \in DOMAIN Table[w] : Table[w][i][2] = cell[2]}
<1>1. Table[w] \in Seq(Rows)
    BY ParetoAssumption
<1>2. \A i \in DOMAIN Table[w] : i \in Nat /\ Table[w][i] \in Rows /\ Table[w][i][3] \in 0..100
    BY <1>1 DEF Rows
<1>3. same \subseteq Nat /\ near \subseteq Nat
    BY <1>2
<1>4. same # {} => Min(same) \in same
    <2> HIDE DEF same
    <2> QED BY <1>3, MinExists
<1>5. near # {} => Min(near) \in near
    <2> HIDE DEF near
    <2> QED BY <1>3, MinExists
<1>6. Measured(w, cell) = IF same # {} THEN Table[w][Min(same)][3]
                          ELSE IF near # {} THEN Table[w][Min(near)][3] ELSE NoScore
    BY DEF Measured
<1> HIDE DEF same, near
<1>7. CASE same # {}
  <2>1. Min(same) \in DOMAIN Table[w]
    BY <1>4, <1>7 DEF same
  <2> QED BY <1>2, <1>6, <1>7, <2>1 DEF NoScore
<1>8. CASE same = {} /\ near # {}
  <2>1. Min(near) \in DOMAIN Table[w]
    BY <1>5, <1>8 DEF near
  <2> QED BY <1>2, <1>6, <1>8, <2>1 DEF NoScore
<1>9. CASE same = {} /\ near = {}
    BY <1>6, <1>9 DEF NoScore
<1> QED BY <1>7, <1>8, <1>9

\* What the router knows of a worker in a cell: a score or none
\* (compute_point_quality).
LEMMA ScoreType ==
    ASSUME NEW o \in OverlayType, NEW w \in AllWorkers, NEW cell \in ParetoCells
    PROVE  Score(o, w, cell) \in NoScore..100
BY MeasuredType DEF OverlayType, Score

\* Of what is paid for a worker.
LEMMA AllWorkersFinite == IsFiniteSet(AllWorkers)
<1>1. DOMAIN Registry = 1..Len(Registry) /\ Len(Registry) \in Nat
    BY ParetoAssumption
<1>2. IsFiniteSet(DOMAIN Registry)
    BY <1>1, FS_Interval
<1>3. Registry \in Surjection(DOMAIN Registry, AllWorkers)
    BY ParetoAssumption, <1>1 DEF AllWorkers, Range, Surjection
<1> QED BY <1>2, <1>3, FS_Surjection

\* The share of a flat rate is a natural number (_amortized_cost).
LEMMA AmortizedType ==
    ASSUME NEW w \in AllWorkers
    PROVE  Amortized(w) \in Nat
<1>1. PriceOf[w] \in Prices
    BY ParetoAssumption
<1>2. CASE ~PriceOf[w].shares
    BY <1>1, <1>2 DEF Amortized, Prices
<1>3. CASE PriceOf[w].shares
  <2>1. IsFiniteSet(SharersOfQuota) /\ w \in SharersOfQuota
    BY <1>3, AllWorkersFinite, FS_Subset DEF SharersOfQuota
  <2>2. Cardinality(SharersOfQuota) \in Nat /\ Cardinality(SharersOfQuota) # 0
    BY <2>1, FS_CardinalityType, FS_EmptySet
  <2>3. PriceOf[w].fixed \in Nat
    BY <1>1 DEF Prices
  <2>4. PriceOf[w].fixed \div Cardinality(SharersOfQuota) \in Nat
    BY <2>2, <2>3, Quotient
  <2> QED BY <1>3, <2>4 DEF Amortized
<1> QED BY <1>2, <1>3

\* A worker's stand-in is one of the registry (_retry_target).
LEMMA RetryType ==
    ASSUME NEW w \in AllWorkers
    PROVE  Retry(w) \in AllWorkers
<1> DEFINE others == Range(AutoPool) \ ({w} \cup shunned)
           places == {Index(AutoPool, v) : v \in others}
<1>1. CASE others = {}
    BY <1>1, ParetoAssumption DEF Retry
<1>2. CASE others # {}
  <2>1. places \subseteq Nat /\ places # {}
    BY <1>2, Places, ParetoAssumption
  <2>2. \E n \in places : \A m \in places : n <= m
    <3> HIDE DEF places
    <3> QED BY <2>1, LeastExists
  <2>3. \E v \in others : \A u \in others : Index(AutoPool, v) <= Index(AutoPool, u)
    BY <2>2
  <2>4. Retry(w) \in others
    BY <1>2, <2>3 DEF Retry
  <2> QED BY <2>4, PoolsOfTheLane
<1> QED BY <1>1, <1>2

\* What a worker costs in all is a natural, and no more for a better worker: of
\* the price of a retry, and of the judge, it pays less.
LEMMA CostsFall ==
    ASSUME NEW w \in AllWorkers, NEW s \in 0..100, NEW b \in 0..100, s <= b
    PROVE  TCO(w, s) \in Nat /\ TCO(w, b) \in Nat /\ TCO(w, b) <= TCO(w, s)
<1>1. PriceOf[w] \in Prices /\ PriceOf[Retry(w)] \in Prices
    BY ParetoAssumption, RetryType
<1> DEFINE call == 100 * PriceOf[w].call
           dear == (100 - s) * PriceOf[Retry(w)].call
           fair == (100 - b) * PriceOf[Retry(w)].call
           fixed == 100 * Amortized(w)
           judge == 100 * PriceOf[w].judge
<1>2. call \in Nat /\ fixed \in Nat /\ judge \in Nat
    BY <1>1, AmortizedType DEF Prices
<1>3. dear \in Nat /\ fair \in Nat /\ fair <= dear
  <2>1. 100 - b \in Nat /\ 100 - s \in Nat /\ 100 - b <= 100 - s /\ PriceOf[Retry(w)].call \in Nat
    BY <1>1 DEF Prices
  <2> QED BY <2>1, Products
<1>4. /\ TCO(w, s) = call + dear + fixed + IF 100 - s >= 30 THEN judge ELSE 0
      /\ TCO(w, b) = call + fair + fixed + IF 100 - b >= 30 THEN judge ELSE 0
    BY DEF TCO
<1>5. 100 - b >= 30 => 100 - s >= 30
    OBVIOUS
<1> HIDE DEF call, dear, fair, fixed, judge
<1> QED BY <1>2, <1>3, <1>4, <1>5

-----------------------------------------------------------------------------
\* Of a pool that is not empty, one is cheapest, and no other is.
LEMMA CheapestIsFirst ==
    ASSUME NEW order \in Seq(AllWorkers), NEW pool, pool \subseteq Range(order), pool # {}
    PROVE  CheapestOf(order, pool) \in pool
<1> DEFINE a == [w \in pool |-> PriceOf[w].out]
           b == [w \in pool |-> 0]
           c == [w \in pool |-> Index(order, w)]
<1>1. \A w \in pool : w \in AllWorkers /\ PriceOf[w].out \in Nat
    BY ParetoAssumption DEF Range, Prices
<1>2. \A w \in pool : Index(order, w) \in Nat /\ order[Index(order, w)] = w
    BY Places
<1>3. a \in [pool -> Nat] /\ b \in [pool -> Nat] /\ c \in [pool -> Nat]
    BY <1>1, <1>2
<1>4. \A w, v \in pool : c[w] = c[v] => w = v
    BY <1>2
<1>5. \E w \in pool : \A v \in pool \ {w} : Ahead(a, b, c, w, v)
    <2>1. pool # {}
        OBVIOUS
    <2>2. Keys(pool, a, b, c)
        BY <1>3, <1>4 DEF Keys
    <2> HIDE DEF a, b, c
    <2> QED BY ONLY <2>1, <2>2, FirstExists
<1>6. \E w \in pool : \A v \in pool \ {w} : Before(order, w, v)
    BY <1>5 DEF Ahead, Before
<1> QED BY <1>6 DEF CheapestOf

\* The order of the candidates.
Cheaper(o, cell, w, v) ==
    LET a == TCO(w, Score(o, w, cell))
        b == TCO(v, Score(o, v, cell))
    IN  a < b \/ (a = b /\ Before(AutoPool, w, v))
Worthier(o, cell, w, v) ==
    LET a == Score(o, w, cell)
        b == Score(o, v, cell)
    IN  a > b \/ (a = b /\ Before(AutoPool, w, v))

\* Of two workers of the pool at most one is before the other.
LEMMA BeforeIsStrict ==
    ASSUME NEW w \in Range(AutoPool), NEW v \in Range(AutoPool)
    PROVE  ~(Before(AutoPool, w, v) /\ Before(AutoPool, v, w))
<1>1. /\ Index(AutoPool, w) \in Nat /\ Index(AutoPool, v) \in Nat
      /\ PriceOf[w].out \in Nat /\ PriceOf[v].out \in Nat
    BY Places, PoolsOfTheLane, ParetoAssumption DEF Prices
<1> QED BY <1>1 DEF Before

\* Of candidates, one is first, and no other is.
LEMMA FrugalIsFirst ==
    ASSUME NEW o \in OverlayType, NEW cell \in ParetoCells,
           NEW good, good \subseteq Range(AutoPool), good # {},
           \A w \in good : Score(o, w, cell) \in 0..100
    PROVE  /\ Frugal(o, good, cell) \in good
           /\ \A v \in good \ {Frugal(o, good, cell)} : Cheaper(o, cell, Frugal(o, good, cell), v)
           /\ \A w \in good : (\A v \in good \ {w} : Cheaper(o, cell, w, v)) => Frugal(o, good, cell) = w
<1> DEFINE a == [w \in good |-> TCO(w, Score(o, w, cell))]
           b == [w \in good |-> PriceOf[w].out]
           c == [w \in good |-> Index(AutoPool, w)]
<1>1. \A w \in good : w \in AllWorkers /\ PriceOf[w].out \in Nat
    BY PoolsOfTheLane, ParetoAssumption DEF Prices
<1>2. \A w \in good : Index(AutoPool, w) \in Nat /\ AutoPool[Index(AutoPool, w)] = w
    BY Places, ParetoAssumption
<1>3. \A w \in good : TCO(w, Score(o, w, cell)) \in Nat
    BY <1>1, CostsFall
<1>4. a \in [good -> Nat] /\ b \in [good -> Nat] /\ c \in [good -> Nat]
    BY <1>1, <1>2, <1>3
<1>5. \A w, v \in good : c[w] = c[v] => w = v
    BY <1>2
<1>6. \E w \in good : \A v \in good \ {w} : Ahead(a, b, c, w, v)
    <2>1. good # {}
        OBVIOUS
    <2>2. Keys(good, a, b, c)
        BY <1>4, <1>5 DEF Keys
    <2> HIDE DEF a, b, c
    <2> QED BY ONLY <2>1, <2>2, FirstExists
<1>7. \E w \in good : \A v \in good \ {w} : Cheaper(o, cell, w, v)
    BY <1>6 DEF Ahead, Before, Cheaper
<1>8. ASSUME NEW w \in good, NEW v \in good, Cheaper(o, cell, w, v), Cheaper(o, cell, v, w) PROVE FALSE
    BY <1>3, <1>8, BeforeIsStrict DEF Cheaper
<1>9. Frugal(o, good, cell) = CHOOSE w \in good : \A v \in good \ {w} : Cheaper(o, cell, w, v)
    BY DEF Frugal, Cheaper
<1> QED BY <1>7, <1>8, <1>9

\* The best of workers who are good enough at all is one of them, worthier than
\* the rest, and only the best is that.
LEMMA BestIsFirst ==
    ASSUME NEW o \in OverlayType, NEW cell \in ParetoCells,
           NEW fair, fair \subseteq Range(AutoPool), fair # {},
           \A w \in fair : Score(o, w, cell) \in 0..100
    PROVE  /\ Best(o, fair, cell) \in fair
           /\ \A v \in fair \ {Best(o, fair, cell)} : Worthier(o, cell, Best(o, fair, cell), v)
           /\ \A w \in fair : (\A v \in fair \ {w} : Worthier(o, cell, w, v)) => Best(o, fair, cell) = w
<1> DEFINE a == [w \in fair |-> 100 - Score(o, w, cell)]
           b == [w \in fair |-> PriceOf[w].out]
           c == [w \in fair |-> Index(AutoPool, w)]
<1>1. \A w \in fair : w \in AllWorkers /\ PriceOf[w].out \in Nat
    BY PoolsOfTheLane, ParetoAssumption DEF Prices
<1>2. \A w \in fair : Index(AutoPool, w) \in Nat /\ AutoPool[Index(AutoPool, w)] = w
    BY Places, ParetoAssumption
<1>3. a \in [fair -> Nat] /\ b \in [fair -> Nat] /\ c \in [fair -> Nat]
    BY <1>1, <1>2
<1>4. \A w, v \in fair : c[w] = c[v] => w = v
    BY <1>2
<1>5. \E w \in fair : \A v \in fair \ {w} : Ahead(a, b, c, w, v)
    <2>1. fair # {}
        OBVIOUS
    <2>2. Keys(fair, a, b, c)
        BY <1>3, <1>4 DEF Keys
    <2> HIDE DEF a, b, c
    <2> QED BY ONLY <2>1, <2>2, FirstExists
<1>6. \E w \in fair : \A v \in fair \ {w} : Worthier(o, cell, w, v)
    BY <1>5 DEF Ahead, Before, Worthier
<1>7. ASSUME NEW w \in fair, NEW v \in fair, Worthier(o, cell, w, v), Worthier(o, cell, v, w) PROVE FALSE
    BY <1>7, BeforeIsStrict DEF Worthier
<1>8. Best(o, fair, cell) = CHOOSE w \in fair : \A v \in fair \ {w} : Worthier(o, cell, w, v)
    BY DEF Best, Worthier
<1> QED BY <1>6, <1>7, <1>8

\* What is chosen from a pool is of the pool.
GoodOf(o, pool, cell) == {w \in pool : GoodEnough(o, w, cell)}
FairOf(o, pool, cell) == {w \in pool : AboveHardFloor(o, w, cell)}

\* The good are among the fair, who all have a score.
LEMMA Candidates ==
    ASSUME NEW o \in OverlayType, NEW cell \in ParetoCells, NEW pool, pool \subseteq Range(AutoPool)
    PROVE  /\ GoodOf(o, pool, cell) \subseteq FairOf(o, pool, cell) /\ FairOf(o, pool, cell) \subseteq pool
           /\ \A w \in FairOf(o, pool, cell) : Score(o, w, cell) \in 0..100
<1>1. \A w \in pool : Score(o, w, cell) \in NoScore..100
    BY ScoreType, PoolsOfTheLane
<1>2. HardFloor \in 0..100
    BY ParetoAssumption
<1>3. \A w \in FairOf(o, pool, cell) : w \in pool /\ Score(o, w, cell) >= HardFloor
    BY DEF FairOf, AboveHardFloor
<1>4. \A w \in FairOf(o, pool, cell) : Score(o, w, cell) \in 0..100
    BY <1>1, <1>2, <1>3 DEF NoScore
<1>5. GoodOf(o, pool, cell) \subseteq FairOf(o, pool, cell) /\ FairOf(o, pool, cell) \subseteq pool
    BY DEF GoodOf, FairOf, GoodEnough
<1> QED BY <1>4, <1>5

\* The three ways to choose (select_worker).
LEMMA SelectIs ==
    ASSUME NEW o, NEW cell, NEW pool, pool # {}
    PROVE  Select(pool, o, cell).worker =
               IF GoodOf(o, pool, cell) # {} THEN Frugal(o, GoodOf(o, pool, cell), cell)
               ELSE IF FairOf(o, pool, cell) # {} THEN Best(o, FairOf(o, pool, cell), cell)
               ELSE CheapestOf(AutoPool, pool)
BY DEF Select, GoodOf, FairOf

\* What is chosen is a worker, and one of the pool if there is any.
LEMMA SelectType ==
    ASSUME NEW o \in OverlayType, NEW cell \in ParetoCells, NEW pool, pool \subseteq Range(AutoPool)
    PROVE  /\ Select(pool, o, cell) \in [worker : AllWorkers, relaxed : BOOLEAN]
           /\ pool # {} => Select(pool, o, cell).worker \in pool
<1>1. CASE pool = {}
  <2>1. AllWorkers \subseteq Range(Registry) /\ AllWorkers # {}
    BY ParetoAssumption DEF AllWorkers
  <2>2. CheapestOf(Registry, AllWorkers) \in AllWorkers
    BY <2>1, CheapestIsFirst, ParetoAssumption
  <2> QED BY <1>1, <2>2 DEF Select
<1>2. CASE pool # {}
  <2>1. CheapestOf(AutoPool, pool) \in pool
    BY <1>2, CheapestIsFirst, ParetoAssumption
  <2>2. GoodOf(o, pool, cell) # {} => Frugal(o, GoodOf(o, pool, cell), cell) \in pool
    BY Candidates, FrugalIsFirst
  <2>3. FairOf(o, pool, cell) # {} => Best(o, FairOf(o, pool, cell), cell) \in pool
    BY Candidates, BestIsFirst
  <2>4. pool \subseteq AllWorkers
    BY PoolsOfTheLane
  <2> QED BY <1>2, <2>1, <2>2, <2>3, <2>4 DEF Select, GoodOf, FairOf
<1> QED BY <1>1, <1>2

\* A greater factor makes a product greater by one more addend at least.
LEMMA Multiples ==
    ASSUME NEW n \in Nat \ {0}, NEW p \in Nat, NEW q \in Nat, p > q
    PROVE  n * p >= n * q + n
<1>1. PICK k \in Nat : p = q + 1 + k
  <2>1. p - (q + 1) \in Nat
    OBVIOUS
  <2> QED BY <2>1
<1>2. n * p = n * q + n + n * k
    BY <1>1, SMTT(20)
<1>3. n * k \in Nat /\ n * q \in Nat
    OBVIOUS
<1> QED BY <1>2, <1>3

\* The quotient of a sum of percentages by their number is a percentage.
LEMMA MeanType ==
    ASSUME NEW n \in Nat \ {0}, NEW t \in Nat, t <= 100 * n
    PROVE  t \div n \in 0..100
<1>1. t \div n \in Nat /\ n * (t \div n) <= t
    BY SMTT(20)
<1>2. ASSUME t \div n > 100 PROVE FALSE
  <2>1. n * (t \div n) >= n * 100 + n
    BY <1>1, <1>2, Multiples
  <2>2. n * (t \div n) \in Nat
    BY <1>1
  <2> QED BY <1>1, <2>1, <2>2
<1> QED BY <1>1, <1>2

\* The scores of a sequence.
Percent == 0..100
AreScores(scores) == scores \in Seq(Percent)

\* What the scores of a sequence are.
LEMMA ScoresOf ==
    ASSUME NEW scores, AreScores(scores)
    PROVE  Len(scores) \in Nat /\ DOMAIN scores = 1..Len(scores) /\ \A i \in 1..Len(scores) : scores[i] \in 0..100
<1>1. Len(scores) \in Nat /\ DOMAIN scores = 1..Len(scores) /\ \A i \in 1..Len(scores) : scores[i] \in Percent
    BY DEF AreScores
<1> QED BY <1>1 DEF Percent

\* A sum of percentages.
LEMMA TotalType ==
    ASSUME NEW scores, AreScores(scores)
    PROVE  Total(scores) \in Nat /\ Total(scores) <= 100 * Len(scores)
<1> DEFINE n == Len(scores)
           Sums(f) == f = [i \in 0..n |-> IF i = 0 THEN 0 ELSE f[i - 1] + scores[i]]
           sum == CHOOSE f : Sums(f)
           step == [ti \in Nat \X (1..n) |-> ti[1] + scores[ti[2]]]
<1>1. n \in Nat /\ \A i \in 1..n : scores[i] \in 0..100
    BY ScoresOf
<1>2. \E f : Sums(f)
  <2> HIDE DEF n
  <2>1. step \in [Nat \X (1..n) -> Nat]
    BY <1>1
  <2>2. PICK t \in [0..n -> Nat] : t[0] = 0 /\ \A i \in 1..n : t[i] = step[<<t[i - 1], i>>]
    <3>1. IsLoop(n, Nat, 0, step)
        BY <1>1, <2>1 DEF IsLoop
    <3> HIDE DEF step
    <3>2. \E t : LoopDone(n, Nat, 0, step, t)
        BY <3>1, LoopRuns
    <3> QED BY <3>2 DEF LoopDone
  <2>3. ASSUME NEW i \in 1..n PROVE t[i] = t[i - 1] + scores[i]
    <3>1. t[i - 1] \in Nat
        BY <1>1
    <3>2. step[<<t[i - 1], i>>] = t[i - 1] + scores[i]
        BY <3>1
    <3> QED BY <2>2, <3>2
  <2>4. Sums(t)
    <3>1. ASSUME NEW i \in 0..n PROVE t[i] = IF i = 0 THEN 0 ELSE t[i - 1] + scores[i]
      <4>1. i = 0 \/ i \in 1..n
        BY <1>1
      <4> QED BY <2>2, <2>3, <4>1
    <3> HIDE DEF n
    <3> QED BY <2>2, <3>1
  <2> QED BY <2>4
<1>3. Sums(sum)
  <2> HIDE DEF Sums
  <2> QED BY <1>2
<1>4. Total(scores) = sum[n]
    BY DEF Total
<1> HIDE DEF sum
<1>5. sum[0] = 0 /\ \A i \in 1..n : sum[i] = sum[i - 1] + scores[i]
    BY <1>1, <1>3
<1> HIDE DEF Sums
<1> DEFINE Bad == {i \in 0..n : ~(sum[i] \in Nat /\ sum[i] <= 100 * i)}
<1>6. Bad = {}
  <2> SUFFICES ASSUME Bad # {} PROVE FALSE
    OBVIOUS
  <2>1. PICK k \in Bad : \A m \in Bad : k <= m
    <3>1. Bad \subseteq Nat
        BY <1>1
    <3> HIDE DEF Bad
    <3> QED BY <3>1, LeastExists
  <2>2. k \in 1..n
    BY <1>1, <1>5, <2>1
  <2>3. k - 1 \in 0..n /\ k - 1 \notin Bad
    <3>1. k - 1 \in 0..n /\ ~(k <= k - 1)
        BY <1>1, <2>2
    <3> HIDE DEF Bad
    <3> QED BY <2>1, <3>1
  <2>4. sum[k - 1] \in Nat /\ sum[k - 1] <= 100 * (k - 1)
    BY <2>3
  <2>5. sum[k] = sum[k - 1] + scores[k] /\ scores[k] \in 0..100 /\ k \in Nat
    BY <1>1, <1>5, <2>2
  <2>6. sum[k] \in Nat /\ sum[k] <= 100 * k
    <3> HIDE DEF Bad
    <3> QED BY <2>4, <2>5
  <2> QED BY <2>1, <2>6
<1>7. sum[n] \in Nat /\ sum[n] <= 100 * n
    BY <1>1, <1>6
<1> QED BY <1>4, <1>7

\* Of n naturals there is one at each rank: as many as all are not greater than the greatest.
LEMMA RankType ==
    ASSUME NEW n \in Nat, NEW values \in [1..n -> Nat], NEW i \in Nat, i < n
    PROVE  AtRank(values, i) \in Nat
<1> DEFINE R == Range(values)
           upTo(v) == {j \in DOMAIN values : values[j] <= v}
           ranked == {v \in R : Cardinality(upTo(v)) > i}
<1>1. R \subseteq Nat /\ R # {} /\ IsFiniteSet(R)
  <2>1. values \in Surjection(1..n, R) /\ IsFiniteSet(1..n)
    BY FS_Interval DEF Range, Surjection
  <2>2. IsFiniteSet(R)
    <3> HIDE DEF R
    <3> QED BY <2>1, FS_Surjection
  <2>3. values[1] \in R /\ R \subseteq Nat
    BY DEF Range
  <2> QED BY <2>2, <2>3
<1>2. PICK m \in R : \A v \in R : v <= m
  <2> HIDE DEF R
  <2> QED BY <1>1, MaxExists
<1>3. upTo(m) = 1..n
    BY <1>2 DEF Range
<1>4. Cardinality(1..n) = n
    BY FS_Interval
<1>5. ranked \subseteq Nat /\ m \in ranked
    BY <1>1, <1>2, <1>3, <1>4
<1>6. Min(ranked) \in Nat
  <2> HIDE DEF ranked
  <2> QED BY <1>5, MinExists
<1> QED BY <1>6 DEF AtRank

\* So is a quantile (_quantile).
LEMMA QuantileType ==
    ASSUME NEW n \in Nat, n > 0, NEW values \in [1..n -> Nat]
    PROVE  Quantile(values) \in Nat
<1> DEFINE pos == 9 * (n - 1)
           lo == pos \div 10
           r == pos % 10
<1>1. Len(values) = n
    OBVIOUS
<1>2. pos \in Nat /\ lo \in Nat /\ lo < n /\ r \in 0..9
    OBVIOUS
<1>3. AtRank(values, lo) \in Nat /\ (lo + 1 < n => AtRank(values, lo + 1) \in Nat)
  <2> HIDE DEF lo
  <2> QED BY <1>2, RankType
<1>4. Quantile(values) = IF lo + 1 < n
                         THEN (AtRank(values, lo) * (10 - r) + AtRank(values, lo + 1) * r) \div 10
                         ELSE AtRank(values, lo)
    BY <1>1 DEF Quantile
<1> HIDE DEF lo, r
<1>5. CASE lo + 1 < n
  <2>1. AtRank(values, lo) * (10 - r) \in Nat /\ AtRank(values, lo + 1) * r \in Nat
    BY <1>2, <1>3, <1>5
  <2> DEFINE a == AtRank(values, lo) * (10 - r)
             b == AtRank(values, lo + 1) * r
  <2>2. a \in Nat /\ b \in Nat
    BY <2>1
  <2> HIDE DEF a, b
  <2>3. (a + b) \div 10 \in Nat
    BY <2>2
  <2> QED BY <1>4, <1>5, <2>3 DEF a, b
<1>6. CASE ~(lo + 1 < n)
    BY <1>3, <1>4, <1>6
<1> QED BY <1>5, <1>6

\* An interval of percentages, as a worker's row keeps it.
Percentages == [mean : 0..100, lower : 0..100, upper : 0..100]

\* The bounds that the configuration sets, one by one.
LEMMA Bounds ==
    /\ QualityFloor \in 0..100 /\ HardFloor \in 0..100 /\ HardFloor <= QualityFloor
    /\ ColdRadius \in Nat /\ MaxRadius \in Nat /\ MinSamples \in Nat
    /\ Verdicts \subseteq 0..100
<1>1. {QualityFloor, HardFloor, ColdRadius, MaxRadius} \cup Verdicts \subseteq 0..100
    BY ParetoAssumption
<1>2. HardFloor <= QualityFloor /\ MinSamples \in Nat
    BY ParetoAssumption
<1>3. Verdicts \subseteq 0..100 /\ \A x \in {QualityFloor, HardFloor, ColdRadius, MaxRadius} : x \in 0..100
    BY <1>1
<1>4. QualityFloor \in 0..100 /\ HardFloor \in 0..100 /\ ColdRadius \in 0..100 /\ MaxRadius \in 0..100
    BY <1>3
<1> QED BY <1>2, <1>3, <1>4

\* An interval is of percentages.
LEMMA IntervalType ==
    ASSUME NEW scores, AreScores(scores)
    PROVE  Interval(scores) \in Percentages
<1>1. CASE Len(scores) = 0
    BY <1>1 DEF Interval, Unsure, Percentages
<1>2. CASE Len(scores) # 0
  <2>1. PICK n \in Nat \ {0} : n = Len(scores) /\ \A i \in 1..n : scores[i] \in 0..100
    BY <1>2, ScoresOf
  <2>2. PICK mean \in 0..100 : mean = Total(scores) \div n
    BY <2>1, TotalType, MeanType
  <2>8. \A i \in 1..n : scores[i] \in 0..100
    BY <2>1
  <2> DEFINE residuals == [i \in 1..n |-> Magnitude(scores[i] - mean)]
  <2>3. residuals \in [1..n -> Nat]
    BY <2>8 DEF Magnitude
  <2>4. Quantile(residuals) \in Nat
    <3> HIDE DEF residuals
    <3> QED BY <2>1, <2>3, QuantileType
  <2>5. PICK radius \in Nat :
            radius = IF n < MinSamples THEN ColdRadius ELSE Smaller(Quantile(residuals), MaxRadius)
    <3> HIDE DEF residuals
    <3> QED BY <2>4, Bounds DEF Smaller
  <2>6. Interval(scores) = [mean |-> mean, lower |-> Larger(0, mean - radius), upper |-> Smaller(100, mean + radius)]
    BY <2>1, <2>2, <2>5 DEF Interval
  <2>7. Larger(0, mean - radius) \in 0..100 /\ Smaller(100, mean + radius) \in 0..100
    BY DEF Larger, Smaller
  <2> QED BY <2>2, <2>6, <2>7 DEF Percentages
<1> QED BY <1>1, <1>2

\* All intervals are of percentages once they are computed
\* (compute_cell_intervals).
LEMMA RefreshedType ==
    ASSUME ParetoTypeOK
    PROVE  IntervalsNow \in [AllWorkers \X ParetoCells -> Percentages]
<1>1. ASSUME NEW wc \in AllWorkers \X ParetoCells
      PROVE  Interval(sessions[wc] \o (IF sidecar.cells[wc] = NoScore THEN <<>> ELSE <<sidecar.cells[wc]>>))
               \in Percentages
  <2>1. sessions[wc] \in Seq(Percent)
    BY ParetoAssumption DEF ParetoTypeOK, Percent
  <2>2. sidecar.cells[wc] \in NoScore..100
    BY DEF ParetoTypeOK
  <2>3. (IF sidecar.cells[wc] = NoScore THEN <<>> ELSE <<sidecar.cells[wc]>>) \in Seq(Percent)
    <3>1. CASE sidecar.cells[wc] = NoScore
        BY <3>1
    <3>2. CASE sidecar.cells[wc] # NoScore
        <4>1. sidecar.cells[wc] \in Percent
            BY <2>2, <3>2 DEF NoScore, Percent
        <4>2. <<sidecar.cells[wc]>> \in Seq(Percent)
            BY <4>1
        <4> QED BY <3>2, <4>2
    <3> QED BY <3>1, <3>2
  <2>4. sessions[wc] \o (IF sidecar.cells[wc] = NoScore THEN <<>> ELSE <<sidecar.cells[wc]>>) \in Seq(Percent)
    BY <2>1, <2>3
  <2> QED BY <2>4, IntervalType DEF AreScores
<1> QED BY <1>1 DEF IntervalsNow, Refreshed, ParetoTypeOK, Percentages

\* While nothing is being written the file holds what judges have observed.
Mirrored == ~writing => sidecar.cells = overlay
ParetoInv == ParetoTypeOK /\ Mirrored

\* It is so when the gateway starts: what was observed was loaded from the file
\* or there is nothing.
LEMMA ParetoInitInv == ParetoInit => ParetoInv
<1> SUFFICES ASSUME ParetoInit PROVE ParetoInv
    OBVIOUS
<1>1. NoOverlay \in [AllWorkers \X ParetoCells -> NoScore..100]
    BY DEF NoOverlay, NoScore
<1>2. shunned \subseteq AllWorkers /\ MaxJudged \in Nat
    BY PoolsOfTheLane, ParetoAssumption DEF ParetoInit
<1>3. sidecar = [whole |-> FALSE, cells |-> NoOverlay] /\ overlay = NoOverlay
    BY DEF ParetoInit, NoSidecar
<1>4. sidecar \in [whole : BOOLEAN, cells : [AllWorkers \X ParetoCells -> NoScore..100]]
    BY <1>1, <1>3
<1>5. /\ cpEnabled \in CPModes /\ sessions \in SessionLogs /\ writing \in BOOLEAN
      /\ intervals = NoIntervals /\ judgedCount \in 0..MaxJudged
  <2>1. cpEnabled \in CPModes /\ sessions \in SessionLogs /\ intervals = NoIntervals /\ writing = FALSE
    BY DEF ParetoInit
  <2>2. judgedCount = 0
    BY DEF ParetoInit
  <2>3. judgedCount \in 0..MaxJudged
    BY <1>2, <2>2
  <2> QED BY <2>1, <2>3
<1>6. picked \in [worker : AllWorkers \cup {"nobody"}, relaxed : BOOLEAN]
    BY DEF ParetoInit, NotPicked
<1>7. overlay \in [AllWorkers \X ParetoCells -> NoScore..100]
    BY <1>1, <1>3
<1>8. ParetoTypeOK
    BY <1>2, <1>4, <1>5, <1>6, <1>7 DEF ParetoTypeOK
<1> QED BY <1>3, <1>8 DEF ParetoInv, Mirrored

\* A verdict counts for a tenth, so that what is observed stays a percentage.
LEMMA UpdatedType ==
    ASSUME NEW old \in NoScore..100, NEW verdict \in Verdicts
    PROVE  Updated(old, verdict) \in 0..100
<1>1. verdict \in 0..100
    BY Bounds
<1>2. CASE old = NoScore
    BY <1>1, <1>2 DEF Updated
<1>3. CASE old # NoScore
  <2>1. old \in 0..100
    BY <1>3 DEF NoScore
  <2>2. (9 * old + verdict) \div 10 \in 0..100
    BY <1>1, <2>1
  <2> QED BY <1>3, <2>2 DEF Updated
<1> QED BY <1>2, <1>3

\* A step keeps it so.
LEMMA ParetoStepInv ==
    ASSUME ParetoInv, [ParetoNext]_paretoVars
    PROVE  ParetoInv'
<1> USE DEF ParetoInv, Mirrored
<1>1. ASSUME Resolves PROVE ParetoInv'
  <2>1. PICK pool \in Pools, cell \in ParetoCells :
            /\ picked' = Select(pool, overlay, cell)
            /\ intervals' = IF cpEnabled /\ pool # {} THEN IntervalsNow ELSE intervals
            /\ UNCHANGED <<cpEnabled, sessions, overlay, sidecar, writing, shunned, judgedCount>>
    BY <1>1 DEF Resolves
  <2>2. overlay \in OverlayType /\ pool \subseteq Range(AutoPool)
    BY PoolsOfTheLane DEF OverlayType, ParetoTypeOK
  <2>3. picked' \in [worker : AllWorkers \cup {"nobody"}, relaxed : BOOLEAN]
    BY <2>1, <2>2, SelectType
  <2>4. IntervalsNow \in [AllWorkers \X ParetoCells -> Percentages]
    BY RefreshedType
  <2>5. intervals' = intervals \/ intervals' \in [AllWorkers \X ParetoCells -> Percentages]
    BY <2>1, <2>4
  <2> QED BY <2>1, <2>3, <2>5 DEF ParetoTypeOK, Percentages
<1>2. ASSUME NEW w \in AllWorkers, NEW cell \in ParetoCells, Judged(w, cell) PROVE ParetoInv'
  <2>1. PICK verdict \in Verdicts :
            /\ ~writing /\ judgedCount < MaxJudged
            /\ overlay' = [overlay EXCEPT ![<<w, cell>>] = Updated(@, verdict)]
            /\ sidecar' = NoSidecar /\ writing' = TRUE /\ judgedCount' = judgedCount + 1
            /\ picked' = NotPicked
            /\ UNCHANGED <<cpEnabled, sessions, intervals, shunned>>
    BY <1>2 DEF Judged
  <2>2. <<w, cell>> \in AllWorkers \X ParetoCells /\ overlay \in [AllWorkers \X ParetoCells -> NoScore..100]
    BY DEF ParetoTypeOK
  <2>3. Updated(overlay[<<w, cell>>], verdict) \in NoScore..100
    BY <2>2, UpdatedType DEF NoScore
  <2>4. overlay' \in [AllWorkers \X ParetoCells -> NoScore..100]
    BY <2>1, <2>2, <2>3
  <2>5. NoOverlay \in [AllWorkers \X ParetoCells -> NoScore..100]
    BY DEF NoOverlay, NoScore
  <2>6. judgedCount' \in 0..MaxJudged
    BY <2>1, ParetoAssumption DEF ParetoTypeOK
  <2> QED BY <2>1, <2>4, <2>5, <2>6 DEF ParetoTypeOK, NoSidecar, NotPicked
<1>3. ASSUME Persisted PROVE ParetoInv'
    BY <1>3 DEF Persisted, ParetoTypeOK
<1>4. ASSUME ParetoRestarts PROVE ParetoInv'
    BY <1>4 DEF ParetoRestarts, ParetoTypeOK, NotPicked
<1>5. ASSUME QuarantineChanges PROVE ParetoInv'
    BY <1>5, PoolsOfTheLane DEF QuarantineChanges, ParetoTypeOK, NotPicked
<1>6. CASE UNCHANGED paretoVars
    BY <1>6 DEF paretoVars, ParetoTypeOK
<1> QED BY <1>1, <1>2, <1>3, <1>4, <1>5, <1>6 DEF ParetoNext

\* So it is at every step.
LEMMA ParetoInductive == ParetoSpec => []ParetoInv
<1>1. ParetoInit => ParetoInv
    BY ParetoInitInv
<1>2. ParetoInv /\ [ParetoNext]_paretoVars => ParetoInv'
    BY ParetoStepInv
<1> QED BY <1>1, <1>2, PTL DEF ParetoSpec

\* What the judges have observed survives a restart, and a write that fails
\* (capability_matrix.py _persist, _load_overlay).
THEOREM ObservationsSurvive == ParetoSpec => OverlayKept
<1>1. ParetoInv /\ [ParetoNext]_paretoVars => [ParetoRestarts /\ ~writing => overlay' = overlay]_paretoVars
    BY DEF ParetoInv, Mirrored, ParetoRestarts
<1> QED BY <1>1, ParetoInductive, PTL DEF ParetoSpec, OverlayKept

-----------------------------------------------------------------------------
\* A judgment of one worker in one cell.
Rescored(o, w, cell, better) == [o EXCEPT ![<<w, cell>>] = better]

\* It changes the score of no other.
LEMMA OthersKeepTheirScore ==
    ASSUME NEW o \in OverlayType, NEW w \in AllWorkers, NEW cell \in ParetoCells, NEW better \in Percent
    PROVE  /\ Rescored(o, w, cell, better) \in OverlayType
           /\ Score(Rescored(o, w, cell, better), w, cell) = better
           /\ \A v \in AllWorkers \ {w} : Score(Rescored(o, w, cell, better), v, cell) = Score(o, v, cell)
<1> DEFINE new == Rescored(o, w, cell, better)
<1>1. better \in NoScore..100 /\ better # NoScore
    BY DEF NoScore, Percent
<1>2. new \in OverlayType /\ new[<<w, cell>>] = better
    BY <1>1 DEF OverlayType, Rescored
<1>3. ASSUME NEW v \in AllWorkers \ {w} PROVE new[<<v, cell>>] = o[<<v, cell>>]
    BY DEF OverlayType, Rescored
<1> HIDE DEF new
<1>4. Score(new, w, cell) = better
    BY <1>1, <1>2 DEF Score
<1>5. \A v \in AllWorkers \ {w} : Score(new, v, cell) = Score(o, v, cell)
    BY <1>3 DEF Score
<1> QED BY <1>2, <1>4, <1>5 DEF new

\* The worker that would be picked is still the first of each list it would be in.
LEMMA PickStays ==
    ASSUME NEW o \in OverlayType, NEW new \in OverlayType, NEW cell \in ParetoCells,
           NEW pool, pool \subseteq Range(AutoPool), pool # {},
           NEW pick \in pool, pick = Select(pool, o, cell).worker,
           Score(o, pick, cell) # NoScore, Score(new, pick, cell) \in 0..100,
           Score(o, pick, cell) <= Score(new, pick, cell),
           \A v \in pool \ {pick} : Score(new, v, cell) = Score(o, v, cell)
    PROVE  Select(pool, new, cell).worker = pick
<1> DEFINE good == GoodOf(o, pool, cell)
           fair == FairOf(o, pool, cell)
           newGood == GoodOf(new, pool, cell)
           newFair == FairOf(new, pool, cell)
<1>1. pool \subseteq AllWorkers
    BY PoolsOfTheLane
<1>2. Score(o, pick, cell) \in 0..100
    BY <1>1, ScoreType DEF NoScore
<1>3. /\ newGood \ {pick} = good \ {pick} /\ newFair \ {pick} = fair \ {pick}
      /\ pick \in good => pick \in newGood
      /\ pick \in fair => pick \in newFair
  <2>1. \A v \in pool \ {pick} :
            /\ GoodEnough(new, v, cell) <=> GoodEnough(o, v, cell)
            /\ AboveHardFloor(new, v, cell) <=> AboveHardFloor(o, v, cell)
    BY DEF GoodEnough, AboveHardFloor
  <2>2. AboveHardFloor(o, pick, cell) => AboveHardFloor(new, pick, cell)
    BY <1>2, Bounds DEF AboveHardFloor
  <2>3. GoodEnough(o, pick, cell) => GoodEnough(new, pick, cell)
    BY <1>2, <2>2, Bounds DEF GoodEnough
  <2> QED BY <2>1, <2>2, <2>3 DEF GoodOf, FairOf
<1>4. /\ good \subseteq fair /\ fair \subseteq pool /\ \A w \in fair : Score(o, w, cell) \in 0..100
      /\ newGood \subseteq newFair /\ newFair \subseteq pool /\ \A w \in newFair : Score(new, w, cell) \in 0..100
    BY Candidates
<1>5. pick = IF good # {} THEN Frugal(o, good, cell)
             ELSE IF fair # {} THEN Best(o, fair, cell) ELSE CheapestOf(AutoPool, pool)
    BY SelectIs
<1>6. Select(pool, new, cell).worker =
          IF newGood # {} THEN Frugal(new, newGood, cell)
          ELSE IF newFair # {} THEN Best(new, newFair, cell) ELSE CheapestOf(AutoPool, pool)
    BY SelectIs
<1>7. newGood # {} /\ pick \in newGood /\ (\A v \in newGood \ {pick} : Cheaper(new, cell, pick, v))
          => Frugal(new, newGood, cell) = pick
    BY <1>4, FrugalIsFirst
<1>8. newFair # {} /\ pick \in newFair /\ (\A v \in newFair \ {pick} : Worthier(new, cell, pick, v))
          => Best(new, newFair, cell) = pick
    BY <1>4, BestIsFirst
<1>9. CASE good # {}
  <2>1. pick \in good /\ \A v \in good \ {pick} : Cheaper(o, cell, pick, v)
    BY <1>4, <1>5, <1>9, FrugalIsFirst
  <2>2. ASSUME NEW v \in newGood \ {pick} PROVE Cheaper(new, cell, pick, v)
    <3>1. v \in good \ {pick} /\ v \in pool /\ v \in AllWorkers
        BY <1>1, <1>3, <1>4
    <3>2. Score(new, v, cell) = Score(o, v, cell) /\ Score(o, v, cell) \in 0..100
        BY <1>4, <3>1
    <3>3. /\ TCO(pick, Score(o, pick, cell)) \in Nat /\ TCO(pick, Score(new, pick, cell)) \in Nat
          /\ TCO(pick, Score(new, pick, cell)) <= TCO(pick, Score(o, pick, cell))
          /\ TCO(v, Score(o, v, cell)) \in Nat
      <4>1. pick \in AllWorkers
        BY <1>1
      <4>2. /\ TCO(pick, Score(o, pick, cell)) \in Nat /\ TCO(pick, Score(new, pick, cell)) \in Nat
            /\ TCO(pick, Score(new, pick, cell)) <= TCO(pick, Score(o, pick, cell))
        BY <1>2, <4>1, CostsFall
      <4>3. TCO(v, Score(o, v, cell)) \in Nat
        BY <3>1, <3>2, CostsFall
      <4> QED BY <4>2, <4>3
    <3>4. Cheaper(o, cell, pick, v)
        BY <2>1, <3>1
    <3> QED BY <3>2, <3>3, <3>4 DEF Cheaper
  <2> QED BY <1>3, <1>6, <1>7, <2>1, <2>2
<1>10. CASE good = {} /\ fair # {}
  <2>1. pick \in fair /\ \A v \in fair \ {pick} : Worthier(o, cell, pick, v)
    BY <1>4, <1>5, <1>10, BestIsFirst
  <2>2. ASSUME NEW v \in newFair \ {pick} PROVE Worthier(new, cell, pick, v)
    <3>1. v \in fair \ {pick} /\ v \in pool
        BY <1>3, <1>4
    <3>2. Score(new, v, cell) = Score(o, v, cell) /\ Score(o, v, cell) \in 0..100
        BY <1>4, <3>1
    <3>3. Worthier(o, cell, pick, v)
        BY <2>1, <3>1
    <3> QED BY <1>2, <3>2, <3>3 DEF Worthier
  <2>3. newGood \subseteq {pick} /\ pick \in newFair
    BY <1>3, <1>10, <2>1
  <2>4. CASE newGood = {}
    BY <1>6, <1>8, <2>2, <2>3, <2>4
  <2>5. CASE newGood # {}
    BY <1>6, <1>7, <2>3, <2>5
  <2> QED BY <2>4, <2>5
<1>11. CASE good = {} /\ fair = {}
  <2>1. newGood \subseteq {pick} /\ newFair \subseteq {pick}
    BY <1>3, <1>11
  <2>2. CASE newGood # {}
    BY <1>6, <1>7, <2>1, <2>2
  <2>3. CASE newGood = {} /\ newFair # {}
    BY <1>6, <1>8, <2>1, <2>3
  <2>4. CASE newGood = {} /\ newFair = {}
    BY <1>5, <1>6, <1>11, <2>4
  <2> QED BY <2>2, <2>3, <2>4
<1> QED BY <1>9, <1>10, <1>11

\* So it is picked again.
LEMMA PickedAgain ==
    ASSUME NEW o \in OverlayType, NEW pool, pool \subseteq Range(AutoPool), pool # {}, NEW cell \in ParetoCells,
           NEW pick, pick = Select(pool, o, cell).worker, Score(o, pick, cell) # NoScore,
           NEW better \in Better(Score(o, pick, cell))
    PROVE  Select(pool, Rescored(o, pick, cell, better), cell).worker = pick
<1> DEFINE new == Rescored(o, pick, cell, better)
<1>1. pick \in pool /\ pick \in AllWorkers
    BY SelectType, PoolsOfTheLane
<1>2. Score(o, pick, cell) \in 0..100
    BY <1>1, ScoreType DEF NoScore
<1>3. better \in 0..100 /\ Score(o, pick, cell) <= better
    BY <1>2 DEF Better
<1>4. better \in Percent
    BY <1>3 DEF Percent
<1>5. /\ new \in OverlayType /\ Score(new, pick, cell) = better
      /\ \A v \in AllWorkers \ {pick} : Score(new, v, cell) = Score(o, v, cell)
    BY <1>1, <1>4, OthersKeepTheirScore
<1> HIDE DEF new
<1>6. Score(new, pick, cell) \in 0..100 /\ Score(o, pick, cell) <= Score(new, pick, cell)
    BY <1>3, <1>5
<1>7. \A v \in pool \ {pick} : Score(new, v, cell) = Score(o, v, cell)
    BY <1>5, PoolsOfTheLane
<1>8. Select(pool, new, cell).worker = pick
    BY <1>1, <1>5, <1>6, <1>7, PickStays
<1> QED BY <1>8 DEF new

\* A worker who would be chosen is still chosen where its score is better, for
\* every table, pool and price (pareto.py select_worker).
THEOREM BetterIsNoWorse == ParetoSpec => []BetterKeepsThePick
<1>1. ASSUME ParetoTypeOK PROVE BetterKeepsThePick
  <2>1. overlay \in OverlayType
    BY <1>1 DEF OverlayType, ParetoTypeOK
  <2>2. \A pool \in Pools : pool \subseteq Range(AutoPool)
    BY PoolsOfTheLane
  <2> QED BY <2>1, <2>2, PickedAgain DEF BetterKeepsThePick, Rescored
<1> QED BY <1>1, ParetoInductive, PTL DEF ParetoInv

-----------------------------------------------------------------------------
(* The signals and the rules *)

\* The signals of a text by their names, those that are raised, and how strongly.
SignalNames == {"veryHard", "hard", "codeTask", "wordProblem", "puzzle", "analysis", "shortReason",
                "length", "markers"}
Raised(t) == {s \in SignalNames : Signals(t)[s] > 0}
Strengths(t) == {Signals(t)[s] : s \in Raised(t)}

\* An interval from one, and that it is finite.
UpTo(n) == 1..n

\* It is finite.
LEMMA UpToFinite == \A n \in Int : IsFiniteSet(UpTo(n))
    BY FS_Interval DEF UpTo

\* The signals are finitely many.
LEMMA SignalNamesFinite == IsFiniteSet(SignalNames)
<1> DEFINE f == <<"veryHard", "hard", "codeTask", "wordProblem", "puzzle", "analysis", "shortReason",
                  "length", "markers">>
<1>1. f \in Surjection(UpTo(9), SignalNames)
  <2>1. f \in [UpTo(9) -> SignalNames]
    BY DEF SignalNames, UpTo
  <2>2. /\ f[1] = "veryHard" /\ f[2] = "hard" /\ f[3] = "codeTask" /\ f[4] = "wordProblem"
        /\ f[5] = "puzzle" /\ f[6] = "analysis" /\ f[7] = "shortReason" /\ f[8] = "length" /\ f[9] = "markers"
    OBVIOUS
  <2> HIDE DEF f
  <2>3. \A s \in SignalNames : \E i \in UpTo(9) : f[i] = s
    BY <2>2 DEF SignalNames, UpTo
  <2> QED BY <2>1, <2>3 DEF Surjection
<1>2. IsFiniteSet(UpTo(9))
    BY UpToFinite
<1> HIDE DEF f
<1> QED BY <1>1, <1>2, FS_Surjection

\* So are the workers.
LEMMA RuleWorkersFinite == IsFiniteSet(RuleWorkers)
<1> DEFINE f == <<"flash", "m3", "grok", "sol", "opus", "fable">>
<1>1. f \in Surjection(UpTo(6), RuleWorkers)
  <2>1. f \in [UpTo(6) -> RuleWorkers]
    BY DEF RuleWorkers, UpTo
  <2>2. f[1] = "flash" /\ f[2] = "m3" /\ f[3] = "grok" /\ f[4] = "sol" /\ f[5] = "opus" /\ f[6] = "fable"
    OBVIOUS
  <2> HIDE DEF f
  <2>3. \A s \in RuleWorkers : \E i \in UpTo(6) : f[i] = s
    BY <2>2 DEF RuleWorkers, UpTo
  <2> QED BY <2>1, <2>3 DEF Surjection
<1>2. IsFiniteSet(UpTo(6))
    BY UpToFinite
<1> HIDE DEF f
<1> QED BY <1>1, <1>2, FS_Surjection

\* The signals are percentages, of any text.
LEMMA SignalsType ==
    ASSUME NEW t
    PROVE  DOMAIN Signals(t) = SignalNames /\ \A s \in SignalNames : Signals(t)[s] \in 0..95
<1>1. DOMAIN Signals(t) = SignalNames
    BY DEF Signals, SignalNames
<1>2. /\ Signals(t).veryHard \in 0..95 /\ Signals(t).hard \in 0..95 /\ Signals(t).codeTask \in 0..95
      /\ Signals(t).wordProblem \in 0..95 /\ Signals(t).puzzle \in 0..95 /\ Signals(t).analysis \in 0..95
      /\ Signals(t).shortReason \in 0..95 /\ Signals(t).length \in 0..95 /\ Signals(t).markers \in 0..95
    BY DEF Signals
<1> QED BY <1>1, <1>2 DEF SignalNames

\* The highest signal, and how many there are.
LEMMA RaisedType ==
    ASSUME NEW t, Raised(t) # {}
    PROVE  /\ Max(Strengths(t)) \in Strengths(t) /\ Max(Strengths(t)) \in 0..95
           /\ \A n \in Strengths(t) : n <= Max(Strengths(t))
           /\ Cardinality(Raised(t)) \in Nat /\ IsFiniteSet(Raised(t))
<1>1. IsFiniteSet(Raised(t)) /\ Cardinality(Raised(t)) \in Nat
    BY SignalNamesFinite, FS_Subset, FS_CardinalityType DEF Raised
<1>2. Strengths(t) \subseteq 0..95 /\ Strengths(t) # {}
    BY SignalsType DEF Strengths, Raised
<1>3. IsFiniteSet(Strengths(t))
  <2> DEFINE f == [s \in Raised(t) |-> Signals(t)[s]]
  <2>1. f \in Surjection(Raised(t), Strengths(t))
    BY DEF Strengths, Surjection
  <2> HIDE DEF f
  <2> QED BY <1>1, <2>1, FS_Surjection
<1>4. Strengths(t) \subseteq Nat
    BY <1>2
<1>5. Max(Strengths(t)) \in Strengths(t) /\ \A n \in Strengths(t) : n <= Max(Strengths(t))
    BY <1>2, <1>3, <1>4, MaxExists
<1> QED BY <1>1, <1>2, <1>5

\* More words of the lists that raise a bonus raise it no less, and by 15 at most.
LEMMA BonusType == ASSUME NEW n \in Nat, NEW m \in Nat, n <= m PROVE Bonus(n) \in 0..15 /\ Bonus(n) <= Bonus(m)
    BY DEF Bonus

\* The difficulty ends at 100.
LEMMA Capped == ASSUME NEW n \in Nat PROVE Min({100, n}) = IF n <= 100 THEN n ELSE 100
<1> DEFINE S == {100, n}
<1>1. Min(S) \in S /\ \A m \in S : Min(S) <= m
  <2>1. S \subseteq Nat /\ S # {}
    OBVIOUS
  <2> HIDE DEF S
  <2> QED BY <2>1, MinExists
<1> QED BY <1>1

\* The difficulty: the strongest signal and the bonus for the others
\* (estimate_difficulty).
LEMMA DifficultyIs ==
    ASSUME NEW t
    PROVE  /\ Raised(t) = {} => Difficulty(t) = 0
           /\ Raised(t) # {} => LET d == Max(Strengths(t)) + Bonus(Cardinality(Raised(t)))
                                IN  Difficulty(t) = IF d <= 100 THEN d ELSE 100
           /\ Difficulty(t) \in 0..100
<1> DEFINE d == Max(Strengths(t)) + Bonus(Cardinality(Raised(t)))
<1>1. Raised(t) = {s \in DOMAIN Signals(t) : Signals(t)[s] > 0}
    BY SignalsType DEF Raised
<1>2. Difficulty(t) = IF Raised(t) = {} THEN 0 ELSE Min({100, d})
    BY <1>1 DEF Difficulty, Strengths
<1>3. CASE Raised(t) = {}
    BY <1>2, <1>3
<1>4. CASE Raised(t) # {}
  <2>1. d \in Nat
    BY <1>4, RaisedType, BonusType
  <2> HIDE DEF d
  <2>2. Difficulty(t) = IF d <= 100 THEN d ELSE 100
    BY <1>2, <1>4, <2>1, Capped
  <2> QED BY <1>4, <2>1, <2>2 DEF d
<1> QED BY <1>3, <1>4

-----------------------------------------------------------------------------
\* The pickers of the ladder name a worker that is enabled, or none.
LEMMA Pickers ==
    /\ MidUpper \in {"grok", "m3", "sol", None} /\ (MidUpper # None => Enabled(MidUpper))
    /\ MidUpper = "sol" => ~rules.solOff
    /\ MidLower = IF Enabled("m3") THEN "m3" ELSE MidUpper
    /\ Hard \in {"opus", "m3", "flash", None} /\ (Hard # None => Enabled(Hard))
    /\ Enabled("m3") => Hard \in {"opus", "m3"}
BY DEF MidUpper, MidLower, Hard, Healthy, None

\* The pool is of enabled workers and is not empty, and of it one is chosen.
LEMMA CalibratedType ==
    ASSUME rules \in Environments, NEW d
    PROVE  Calibrated(d) \in Pool /\ Pool \subseteq rules.enabled /\ rules.enabled \subseteq RuleWorkers
<1>1. rules.enabled # {} /\ rules.enabled \subseteq RuleWorkers /\ rules.table \in [RuleWorkers -> [Levels -> -1..100]]
    BY RuleAssumption DEF RuleEnvironments
<1>2. Pool \subseteq rules.enabled /\ Pool # {}
    BY <1>1 DEF Pool, Eligible
<1>3. ASSUME NEW ws, ws \subseteq Pool, ws # {}
      PROVE  Cheapest(ws) \in ws
  <2>1. {Price[w] : w \in ws} \subseteq Nat /\ {Price[w] : w \in ws} # {}
    BY <1>1, <1>2, <1>3 DEF Price, RuleWorkers
  <2>2. \E n \in {Price[w] : w \in ws} : \A m \in {Price[w] : w \in ws} : n <= m
    BY <2>1, LeastExists
  <2>3. \E w \in ws : \A v \in ws : Price[w] <= Price[v]
    BY <2>2
  <2> QED BY <2>3 DEF Cheapest
<1>4. \A v \in Pool : Quality(v, Level(d)) \in -1..100
    BY <1>1, <1>2 DEF Quality, Level, Levels
<1> DEFINE passable == {w \in Pool : Quality(w, Level(d)) >= 40}
           values == {Quality(w, Level(d)) : w \in passable}
           best == {w \in passable : Quality(w, Level(d)) = Max(values)}
<1>5. ASSUME passable # {} PROVE best # {}
  <2>1. IsFiniteSet(values)
    <3> DEFINE f == [w \in passable |-> Quality(w, Level(d))]
    <3>1. f \in Surjection(passable, values)
        BY DEF Surjection
    <3>2. IsFiniteSet(passable)
        BY <1>1, <1>2, RuleWorkersFinite, FS_Subset
    <3> HIDE DEF f, passable, values
    <3> QED BY <3>1, <3>2, FS_Surjection
  <2>2. values \subseteq Nat /\ values # {}
    BY <1>4, <1>5
  <2>3. Max(values) \in values
    <3> HIDE DEF values
    <3> QED BY <2>1, <2>2, MaxExists
  <2> QED BY <2>3
<1>6. \E w \in Pool : \A v \in Pool : Price[v] <= Price[w]
  <2> DEFINE prices == {Price[w] : w \in Pool}
             f == [w \in Pool |-> Price[w]]
  <2>1. prices \subseteq Nat /\ prices # {}
    BY <1>1, <1>2 DEF Price, RuleWorkers
  <2>2. IsFiniteSet(prices)
    <3>1. f \in Surjection(Pool, prices)
        BY DEF Surjection
    <3>2. IsFiniteSet(Pool)
        BY <1>1, <1>2, RuleWorkersFinite, FS_Subset
    <3> HIDE DEF f, prices
    <3> QED BY <3>1, <3>2, FS_Surjection
  <2>3. Max(prices) \in prices /\ \A n \in prices : n <= Max(prices)
    <3> HIDE DEF prices
    <3> QED BY <2>1, <2>2, MaxExists
  <2> QED BY <2>3
<1> DEFINE good == {w \in Pool : Quality(w, Level(d)) >= 70}
           near == {w \in Pool : Quality(w, Level(d)) >= 60}
<1>7. good # {} => Cheapest(good) \in Pool
    BY <1>3
<1>8. near # {} => Cheapest(near) \in Pool
    BY <1>3
<1>9. passable # {} => Cheapest(best) \in Pool
  <2> SUFFICES ASSUME passable # {} PROVE Cheapest(best) \in Pool
    OBVIOUS
  <2>1. best # {} /\ best \subseteq Pool
    BY <1>5
  <2> HIDE DEF best
  <2> QED BY <1>3, <2>1
<1>10. (CHOOSE w \in Pool : \A v \in Pool : Price[v] <= Price[w]) \in Pool
    BY <1>6
<1>11. Calibrated(d) = IF good # {} THEN Cheapest(good) ELSE IF near # {} THEN Cheapest(near)
                       ELSE IF passable # {} THEN Cheapest(best)
                       ELSE CHOOSE w \in Pool : \A v \in Pool : Price[v] <= Price[w]
    BY DEF Calibrated
<1> HIDE DEF good, near, passable, best
<1>12. Calibrated(d) \in Pool
    BY <1>7, <1>8, <1>9, <1>10, <1>11
<1> QED BY <1>1, <1>2, <1>12

\* What Size() folds: the lengths over a set of words, from one word to the next.
NextWord(s) == CHOOSE w \in s : TRUE
Sum(g, s) == IF s = {} THEN 0 ELSE LengthOf[NextWord(s)] + g[s \ {NextWord(s)}]
Sums(g, words) == g = [s \in SUBSET words |-> Sum(g, s)]

\* The size of finitely many words is a natural.
LEMMA SizeType ==
    ASSUME NEW words, IsFiniteSet(words), words \subseteq Vocabulary
    PROVE  Size(words) \in Nat
<1> DEFINE h == CHOOSE g : Sums(g, words)
           o == [base |-> 0, pick |-> [s \in SUBSET words |-> NextWord(s)],
                 step |-> [nw \in Nat \X words |-> LengthOf[nw[2]] + nw[1]]]
<1>1. Size(words) = h[words]
    BY DEF Size, FoldSet, MapThenFoldSet, Sums, Sum, NextWord
<1>2. \A s \in SUBSET words : s # {} => NextWord(s) \in s /\ LengthOf[NextWord(s)] \in Nat
    BY RuleAssumption DEF NextWord
<1>3. IsFold(o, words, Nat)
    BY <1>2, RuleAssumption DEF IsFold
<1>4. PICK g \in [SUBSET words -> Nat] : Folds(o, g, words)
  <2> HIDE DEF o
  <2> QED BY <1>3, FoldExists
<1>5. ASSUME NEW s \in SUBSET words
      PROVE  Folded(o, g, s) = Sum(g, s)
  <2>1. s # {} => o.step[<<g[s \ {NextWord(s)}], NextWord(s)>>] = LengthOf[NextWord(s)] + g[s \ {NextWord(s)}]
    BY <1>2
  <2> QED BY <2>1 DEF Folded, Sum
<1> HIDE DEF o
<1>6. Sums(g, words)
    BY <1>4, <1>5 DEF Folds, Sums
<1>7. Sums(h, words)
    BY <1>6
<1> HIDE DEF h
<1>8. h[{}] \in Nat
    BY <1>7 DEF Sums, Sum
<1>9. ASSUME NEW s \in SUBSET words, s # {}
      PROVE  \E r \in SUBSET s : r # s /\ (h[r] \in Nat => h[s] \in Nat)
  <2> DEFINE r == s \ {NextWord(s)}
  <2>1. r \in SUBSET s /\ r # s /\ LengthOf[NextWord(s)] \in Nat
    BY <1>2, <1>9
  <2>2. h[s] = LengthOf[NextWord(s)] + h[r]
    BY <1>7, <1>9 DEF Sums, Sum
  <2>3. h[r] \in Nat => h[s] \in Nat
    BY <2>1, <2>2
  <2> QED BY <2>1, <2>3
<1>10. \A s \in SUBSET words : h[s] \in Nat
    BY <1>8, <1>9, FoldKeeps
<1> QED BY <1>1, <1>10

\* The longer of two.
LEMMA Longer == ASSUME NEW n \in Nat, NEW m \in Nat PROVE Max({n, m}) = IF n >= m THEN n ELSE m
<1>1. \E x \in {n, m} : \A y \in {n, m} : x >= y
    OBVIOUS
<1> QED BY <1>1 DEF Max

\* The text is one, of finitely many words, and the environment one of those.
RuleInv == RuleTypeOK /\ IsFiniteSet(text.words)

\* It is so of the empty text.
LEMMA RuleInitInv == RuleInit => RuleInv
<1> SUFFICES ASSUME RuleInit PROVE RuleInv
    OBVIOUS
<1>1. Min(Lengths) \in Lengths
    BY RuleAssumption, MinExists
<1>2. IsFiniteSet({}) /\ Cardinality({}) = 0
    BY FS_EmptySet
<1>3. text = [words |-> {}, len |-> Min(Lengths), question |-> FALSE] /\ rules \in Environments
    BY DEF RuleInit
<1>4. 0 <= MaxWords
    BY RuleAssumption
<1>5. {} \in {s \in SUBSET Vocabulary : Cardinality(s) <= MaxWords}
    BY <1>2, <1>4
<1> QED BY <1>1, <1>2, <1>3, <1>5 DEF RuleInv, RuleTypeOK, Texts

\* Of what a step does to the text: it has its words and perhaps one more, it is
\* no shorter, and asks if it did.
Longest(old, new) ==
    /\ old.words \subseteq new.words /\ old.len <= new.len /\ (old.question => new.question)

\* The same, of a step after which a question may ask no more.
Goes(old, new) == (old.question => new.question) => Longest(old, new)

\* A step keeps it so, makes the text no smaller, and leaves the environment.
LEMMA RuleStepInv ==
    RuleInv /\ [RuleNext]_ruleVars => RuleInv' /\ Goes(text, text') /\ rules' = rules
<1> SUFFICES ASSUME RuleInv, [RuleNext]_ruleVars PROVE RuleInv' /\ Goes(text, text') /\ rules' = rules
    OBVIOUS
<1> USE DEF RuleInv, RuleTypeOK, Longest, Goes
<1>1. /\ text = [words |-> text.words, len |-> text.len, question |-> text.question]
      /\ text.words \subseteq Vocabulary /\ Cardinality(text.words) <= MaxWords
      /\ text.len \in Lengths /\ text.question \in BOOLEAN /\ text.len \in Nat
    BY RuleAssumption DEF Texts
<1>2. ASSUME NEW n \in Nat, AtLeast(n) # {}
      PROVE  Min(AtLeast(n)) \in Lengths /\ n <= Min(AtLeast(n))
  <2>1. AtLeast(n) \subseteq Nat
    BY RuleAssumption DEF AtLeast
  <2>2. Min(AtLeast(n)) \in AtLeast(n)
    BY <1>2, <2>1, MinExists
  <2> QED BY <2>2 DEF AtLeast
<1>3. ASSUME NEW w \in Vocabulary, Says(w) PROVE RuleInv' /\ Goes(text, text') /\ rules' = rules
  <2> DEFINE words == text.words \cup {w}
             most == Max({text.len, Size(words)})
  <2>1. IsFiniteSet(words) /\ words \subseteq Vocabulary
    BY <1>1, FS_AddElement
  <2>2. /\ Cardinality(words) <= MaxWords /\ AtLeast(Size(words)) # {}
        /\ \E asks \in BOOLEAN : text' = [words |-> words, len |-> Min(AtLeast(most)), question |-> asks]
        /\ rules' = rules
    BY <1>3 DEF Says
  <2>3. Size(words) \in Nat
    BY <2>1, SizeType
  <2>4. most \in Nat /\ text.len <= most /\ AtLeast(most) # {}
    <3>1. most = IF text.len >= Size(words) THEN text.len ELSE Size(words)
      BY <1>1, <2>3, Longer
    <3> HIDE DEF most
    <3>2. PICK l \in Lengths : l >= Size(words)
      BY <2>2 DEF AtLeast
    <3> QED BY <1>1, <2>3, <3>1, <3>2, RuleAssumption DEF AtLeast
  <2> HIDE DEF most
  <2>5. Min(AtLeast(most)) \in Lengths /\ most <= Min(AtLeast(most))
    BY <1>2, <2>4
  <2>6. PICK asks \in BOOLEAN : text' = [words |-> words, len |-> Min(AtLeast(most)), question |-> asks]
    BY <2>2
  <2>7. text.len <= Min(AtLeast(most))
    BY <1>1, <2>4, <2>5, RuleAssumption
  <2> HIDE DEF words
  <2> QED BY <1>1, <2>1, <2>2, <2>5, <2>6, <2>7 DEF Texts, words
<1>4. CASE GoesOn
  <2>1. /\ AtLeast(text.len + 1) # {} /\ rules' = rules
        /\ \E asks \in BOOLEAN :
              text' = [text EXCEPT !.len = Min(AtLeast(text.len + 1)), !.question = asks]
    BY <1>4 DEF GoesOn
  <2>2. Min(AtLeast(text.len + 1)) \in Lengths /\ text.len + 1 <= Min(AtLeast(text.len + 1))
    BY <1>1, <1>2, <2>1
  <2>3. PICK asks \in BOOLEAN :
            text' = [words |-> text.words, len |-> Min(AtLeast(text.len + 1)), question |-> asks]
    BY <1>1, <2>1
  <2>4. text.len <= Min(AtLeast(text.len + 1))
    BY <1>1, <2>2, RuleAssumption
  <2> QED BY <1>1, <2>1, <2>2, <2>3, <2>4 DEF Texts
<1>5. CASE Wonders
  <2>1. text' = [words |-> text.words, len |-> text.len, question |-> TRUE] /\ rules' = rules
    BY <1>1, <1>5 DEF Wonders
  <2> QED BY <1>1, <2>1 DEF Texts
<1>6. CASE UNCHANGED ruleVars
    BY <1>1, <1>6 DEF ruleVars
<1> QED BY <1>3, <1>4, <1>5, <1>6 DEF RuleNext

\* The text and the environment are what they should be at every step, and what
\* the rules choose is a worker.
THEOREM RuleTypeCorrect == RuleSpec => []RuleTypeOK
<1>1. RuleSpec => []RuleInv
    BY RuleInitInv, RuleStepInv, PTL DEF RuleSpec
<1> QED BY <1>1, PTL DEF RuleInv

\* The worker for sacred texts: Sol where it is not disabled; a paid one or M3,
\* where M3 is enabled; where the free lane's worker is too, one that is.
LEMMA SacredPicker ==
    /\ SacredOr = "sol" => ~rules.solOff
    /\ Enabled("m3") => SacredOr # "flash"
    /\ Enabled("m3") => SacredOr # None /\ Enabled(SacredOr)
BY Pickers DEF SacredOr, SacredWorker, Or, None

\* A branch's worker w is one of those that the branch may name.
Allowed(t, d, w) ==
    /\ t.len >= 30 /\ d >= 55 /\ Enabled("m3") => w # "flash"
    /\ w = "fable" => Sacred(t) \/ MidUpper = None
    /\ rules.solOff /\ "sol" \notin Pool => w # "sol"
    /\ {"flash", "m3"} \subseteq rules.enabled => w # None /\ w \in rules.enabled

\* Every branch names a worker that may be named.
LEMMA BranchesAllowed ==
    ASSUME rules \in Environments, NEW t, NEW type, NEW d \in 0..100
    PROVE  /\ Allowed(t, d, Or(MidLower, "m3"))
           /\ Allowed(t, d, "m3")
           /\ Allowed(t, d, CodeRoute(t, type, d))
           /\ Allowed(t, d, DesignRoute(t, d))
           /\ Allowed(t, d, AgentRoute(t, d))
           /\ Allowed(t, d, GeneralRoute(t, type, d))
<1>1. Allowed(t, d, Or(MidLower, "m3")) /\ Allowed(t, d, "m3")
    BY Pickers DEF Allowed, Or, None, Enabled
<1>2. Allowed(t, d, Or(Hard, "m3")) \/ (~Enabled("m3") /\ Hard = "flash")
    BY Pickers DEF Allowed, Or, None, Enabled
<1>3. Allowed(t, d, Or(MidUpper, "m3"))
    BY Pickers DEF Allowed, Or, None, Enabled
<1>4. d < 55 => Allowed(t, d, "flash")
    BY DEF Allowed, None, Enabled
<1>5. Sacred(t) => Allowed(t, d, SacredOr)
    BY SacredPicker DEF Allowed, Enabled
<1>6. ~Enabled("m3") => Allowed(t, d, "flash")
    BY DEF Allowed, None, Enabled
<1>7. Allowed(t, d, Or(Hard, "m3"))
    BY <1>2, <1>6, Pickers DEF Or, None
<1>8. d \in Nat
    OBVIOUS
<1>9. Calibrated(d) \in Pool /\ Pool \subseteq rules.enabled /\ Calibrated(d) # None
    BY CalibratedType DEF RuleWorkers, None
<1>10. d < 55 /\ ~(Calibrated(d) \in {"fable", "opus"} /\ ~Sacred(t)) => Allowed(t, d, Calibrated(d))
    BY <1>9 DEF Allowed
<1>11. d < 55 /\ Calibrated(d) \in {"fable", "opus"} => Allowed(t, d, Or(MidUpper, Calibrated(d)))
    BY <1>9, Pickers DEF Allowed, Or, None, Enabled
<1>12. Allowed(t, d, CodeRoute(t, type, d))
  <2>1. d >= 55 => CodeRoute(t, type, d) \in {Or(Hard, "m3"), Or(MidLower, "m3")}
    BY <1>8 DEF CodeRoute
  <2>2. d < 55 => CodeRoute(t, type, d) \in {Or(Hard, "m3"), Or(MidLower, "m3"), "flash"}
    BY DEF CodeRoute
  <2> QED BY <1>1, <1>4, <1>7, <1>8, <2>1, <2>2
<1>13. Allowed(t, d, DesignRoute(t, d))
    BY <1>1, <1>3, <1>5, <1>7 DEF DesignRoute
<1>14. Allowed(t, d, AgentRoute(t, d))
  <2>1. d >= 55 => AgentRoute(t, d) \in {Or(Hard, "m3"), Or(MidLower, "m3")}
    <3>1. d >= 55 => d >= 35
      BY <1>8
    <3> QED BY <3>1 DEF AgentRoute
  <2>2. d < 55 => AgentRoute(t, d) \in {Or(Hard, "m3"), Or(MidLower, "m3"), "flash"}
    BY DEF AgentRoute
  <2> QED BY <1>1, <1>4, <1>7, <1>8, <2>1, <2>2
<1>15. Allowed(t, d, GeneralRoute(t, type, d))
  <2>1. CASE d >= 55
    BY <1>3, <1>5, <1>7, <2>1 DEF GeneralRoute
  <2>2. CASE d < 55
    BY <1>8, <1>10, <1>11, <2>2 DEF GeneralRoute
  <2> QED BY <1>8, <2>1, <2>2
<1> QED BY <1>1, <1>12, <1>13, <1>14, <1>15

\* So does the whole of _difficulty_aware_route().
LEMMA RouteAllowed ==
    ASSUME rules \in Environments, NEW t, t.len \in Nat, NEW type
    PROVE  Allowed(t, Difficulty(t), Route(t, type))
<1> DEFINE d == Difficulty(t)
<1>1. d \in 0..100
    BY DifficultyIs
<1> HIDE DEF d
<1>2. ShortChat(t) => Allowed(t, d, "flash")
  <2>1. ShortChat(t) => t.len < 30
    BY DEF ShortChat
  <2>2. t.len < 30 => ~(t.len >= 30)
    OBVIOUS
  <2> QED BY <2>1, <2>2 DEF Allowed, None
<1>3. Route(t, type) \in
        {"m3", Or(MidLower, "m3"), CodeRoute(t, type, d), DesignRoute(t, d), AgentRoute(t, d),
         GeneralRoute(t, type, d)} \cup IF ShortChat(t) THEN {"flash"} ELSE {}
    BY DEF Route, d
<1> QED BY <1>1, <1>2, <1>3, BranchesAllowed DEF d

\* Whatever branch names the worker, it may be named: for a hard text of more
\* than a line not the free one where M3 is enabled, Fable for sacred texts only
\* (or where no other reasons), Sol not where it is disabled, and none that is
\* not enabled while the two main ones are (_difficulty_aware_route()); whatever
\* the vocabulary, the calibration and the environment.
THEOREM NamedIsAllowed == RuleSpec => []NamedAllowed
<1>1. RuleInv => NamedAllowed
  <2> SUFFICES ASSUME RuleInv PROVE NamedAllowed
    OBVIOUS
  <2>1. rules \in Environments /\ text.len \in Nat
    BY RuleAssumption DEF RuleInv, RuleTypeOK, Texts
  <2>2. Allowed(text, Difficulty(text), Route(text, Type))
    BY <2>1, RouteAllowed
  <2>3. {"flash", "m3"} \subseteq rules.enabled => Forced \in rules.enabled
    BY <2>1, <2>2, RuleAssumption DEF Forced, Allowed, Or
  <2> QED BY <2>2, <2>3 DEF Allowed, NamedAllowed
<1>2. RuleSpec => []RuleInv
    BY RuleInitInv, RuleStepInv, PTL DEF RuleSpec
<1> QED BY <1>1, <1>2, PTL

\* A signal that is for some words is as strong where there are more words.
IsFor(t, s, words, strength) == Signals(t)[s] = IF Has(t, words) THEN strength ELSE 0

\* More words leave such a signal as strong or stronger.
LEMMA SignalGrows ==
    ASSUME NEW t, NEW u, Longest(t, u), NEW s, NEW words, NEW strength \in Nat,
           IsFor(t, s, words, strength), IsFor(u, s, words, strength)
    PROVE  Signals(t)[s] <= Signals(u)[s]
<1>1. Has(t, words) => Has(u, words)
    BY DEF Has, Longest
<1>2. CASE Has(u, words)
  <2>1. Signals(u)[s] = strength /\ Signals(t)[s] \in {0, strength}
    BY <1>2 DEF IsFor
  <2> QED BY <2>1
<1>3. CASE ~Has(u, words)
  <2>1. Signals(u)[s] = 0 /\ Signals(t)[s] = 0
    BY <1>1, <1>3 DEF IsFor
  <2> QED BY <2>1
<1> QED BY <1>2, <1>3

\* A longer text with more words has every signal as strong.
LEMMA SignalsGrow ==
    ASSUME NEW t, NEW u, Longest(t, u), t.len \in Nat, u.len \in Nat,
           t.question \in BOOLEAN, u.question \in BOOLEAN
    PROVE  \A s \in SignalNames : Signals(t)[s] <= Signals(u)[s]
<1>1. ASSUME NEW words, Has(t, words) PROVE Has(u, words)
    BY <1>1 DEF Has, Longest
<1>2. t.question => u.question
    BY DEF Longest
<1>3. \A w : w \in t.words => w \in u.words
    BY DEF Longest
<1>4. t.len <= u.len
    BY DEF Longest
<1>5. /\ Signals(t).veryHard <= Signals(u).veryHard
      /\ Signals(t).hard <= Signals(u).hard
      /\ Signals(t).codeTask <= Signals(u).codeTask
      /\ Signals(t).puzzle <= Signals(u).puzzle
      /\ Signals(t).analysis <= Signals(u).analysis
      /\ Signals(t).shortReason <= Signals(u).shortReason
      /\ Signals(t).markers <= Signals(u).markers
  <2>1. Signals(t).veryHard <= Signals(u).veryHard
    <3>1. \A v : IsFor(v, "veryHard", {"raft", "paxos", "byzantine", "coq "}, 95)
      BY DEF IsFor, Signals
    <3> QED BY ONLY <3>1, Longest(t, u), SignalGrows
  <2>2. Signals(t).hard <= Signals(u).hard
    <3>1. \A v : IsFor(v, "hard", {"design ", "compare ", "prove ", "cjk prove", "cjk design"}, 70)
      BY DEF IsFor, Signals
    <3> QED BY ONLY <3>1, Longest(t, u), SignalGrows
  <2>3. Signals(t).codeTask <= Signals(u).codeTask
    <3>1. \A v : IsFor(v, "codeTask", {"implement ", "traceback"}, 50)
      BY DEF IsFor, Signals
    <3> QED BY ONLY <3>1, Longest(t, u), SignalGrows
  <2>4. Signals(t).puzzle <= Signals(u).puzzle
    <3>1. \A v : IsFor(v, "puzzle", {"therefore"}, 70)
      BY DEF IsFor, Signals, Has
    <3> QED BY ONLY <3>1, Longest(t, u), SignalGrows
  <2>5. Signals(t).analysis <= Signals(u).analysis
    <3>1. \A v : IsFor(v, "analysis", {"series"}, 65)
      BY DEF IsFor, Signals, Has
    <3> QED BY ONLY <3>1, Longest(t, u), SignalGrows
  <2>6. Signals(t).shortReason <= Signals(u).shortReason
    <3>1. \A v : IsFor(v, "shortReason", {"explain ", "compare "}, 30)
      BY DEF IsFor, Signals
    <3> QED BY ONLY <3>1, Longest(t, u), SignalGrows
  <2>7. Signals(t).markers <= Signals(u).markers
    <3>1. \A v : IsFor(v, "markers", {"def "}, 30)
      BY DEF IsFor, Signals, Has
    <3> QED BY ONLY <3>1, Longest(t, u), SignalGrows
  <2> QED BY <2>1, <2>2, <2>3, <2>4, <2>5, <2>6, <2>7
<1>6. Signals(t).wordProblem <= Signals(u).wordProblem
  <2> DEFINE Puzzles(v) == Has(v, {"byzantine", "theorem", "what is "}) /\ (v.question \/ "1 bullet" \in v.words)
  <2>1. /\ Signals(t).wordProblem = (IF Puzzles(t) THEN 50 ELSE 0)
        /\ Signals(u).wordProblem = (IF Puzzles(u) THEN 50 ELSE 0)
    BY DEF Signals
  <2>2. Puzzles(t) => Puzzles(u)
    BY <1>1, <1>2, <1>3
  <2>3. CASE Puzzles(u)
    <3>1. Signals(u).wordProblem = 50
      BY <2>1, <2>3
    <3>2. Signals(t).wordProblem \in {0, 50}
      BY <2>1
    <3> QED BY <3>1, <3>2
  <2>4. CASE ~Puzzles(u)
    <3>1. Signals(u).wordProblem = 0
      BY <2>1, <2>4
    <3>2. Signals(t).wordProblem = 0
      BY <2>1, <2>2, <2>4
    <3> QED BY <3>1, <3>2
  <2> QED BY <2>3, <2>4
<1>7. Signals(t).length <= Signals(u).length
    BY <1>4 DEF Signals
<1> QED BY <1>5, <1>6, <1>7 DEF SignalNames

\* It is no easier.
LEMMA DifficultyGrows ==
    ASSUME NEW t, NEW u, Longest(t, u), t.len \in Nat, u.len \in Nat,
           t.question \in BOOLEAN, u.question \in BOOLEAN
    PROVE  Difficulty(t) <= Difficulty(u)
<1>1. \A s \in SignalNames :
        Signals(t)[s] \in 0..95 /\ Signals(u)[s] \in 0..95 /\ Signals(t)[s] <= Signals(u)[s]
    BY SignalsGrow, SignalsType
<1>2. Raised(t) \subseteq Raised(u)
    BY <1>1 DEF Raised
<1>3. CASE Raised(t) = {}
    BY <1>3, DifficultyIs
<1>4. CASE Raised(t) # {}
  <2>1. Raised(u) # {}
    BY <1>2, <1>4
  <2> DEFINE m == Max(Strengths(t))
             n == Max(Strengths(u))
             b == Cardinality(Raised(t))
             c == Cardinality(Raised(u))
  <2>2. /\ m \in Strengths(t) /\ m \in 0..95 /\ b \in Nat
        /\ n \in 0..95 /\ (\A k \in Strengths(u) : k <= n) /\ c \in Nat /\ IsFiniteSet(Raised(u))
    BY <1>4, <2>1, RaisedType
  <2>3. m <= n
    <3>1. PICK s \in Raised(t) : m = Signals(t)[s]
      BY <2>2 DEF Strengths
    <3>2. Signals(u)[s] \in Strengths(u) /\ s \in SignalNames
      BY <1>2, <3>1 DEF Strengths, Raised
    <3>3. Signals(u)[s] <= n
      BY <2>2, <3>2
    <3> HIDE DEF m, n
    <3> QED BY <1>1, <2>2, <3>1, <3>2, <3>3
  <2>4. b <= c
    BY <1>2, <2>2, FS_Subset
  <2>5. Bonus(b) \in 0..15 /\ Bonus(c) \in 0..15 /\ Bonus(b) <= Bonus(c)
    <3> HIDE DEF b, c
    <3> QED BY <2>2, <2>4, BonusType
  <2>6. /\ Difficulty(t) = IF m + Bonus(b) <= 100 THEN m + Bonus(b) ELSE 100
        /\ Difficulty(u) = IF n + Bonus(c) <= 100 THEN n + Bonus(c) ELSE 100
    BY <1>4, <2>1, DifficultyIs
  <2> HIDE DEF m, n, b, c
  <2> QED BY <2>2, <2>3, <2>5, <2>6
<1> QED BY <1>3, <1>4

\* It may be sacred where the shorter was, and its answer is no shorter.
LEMMA TokensGrow ==
    ASSUME NEW t, NEW u, Longest(t, u), t.len \in Nat, u.len \in Nat,
           t.question \in BOOLEAN, u.question \in BOOLEAN, ~ShortForm(u)
    PROVE  MaxTokens(t) <= MaxTokens(u)
<1> DEFINE d == Difficulty(t)
           e == Difficulty(u)
           Count(n, b) == IF n >= 90 \/ b THEN 1536
                          ELSE IF n >= 70 THEN 1024 ELSE IF n >= 45 THEN 512 ELSE IF n >= 25 THEN 256 ELSE 128
<1>1. d \in 0..100 /\ e \in 0..100 /\ d <= e
    BY DifficultyGrows, DifficultyIs
<1>2. ASSUME NEW words, Has(t, words) PROVE Has(u, words)
    BY <1>2 DEF Has, Longest
<1>3. Sacred(t) => Sacred(u)
  <2> HIDE DEF d, e
  <2>1. (d >= 90 => e >= 90) /\ (d >= 85 => e >= 85) /\ (d >= 70 => e >= 70)
    BY <1>1
  <2>2. Sacred(t) = (\/ d >= 90 \/ Has(t, {"byzantine", "coq ", "lean4"})
                     \/ d >= 70 /\ Has(t, {"crdt", "paxos"})
                     \/ d >= 85 /\ Has(t, {"prove ", "theorem", "cjk prove"}))
    BY DEF Sacred, d
  <2>3. Sacred(u) = (\/ e >= 90 \/ Has(u, {"byzantine", "coq ", "lean4"})
                     \/ e >= 70 /\ Has(u, {"crdt", "paxos"})
                     \/ e >= 85 /\ Has(u, {"prove ", "theorem", "cjk prove"}))
    BY DEF Sacred, e
  <2> QED BY <1>2, <2>1, <2>2, <2>3
<1>4. /\ ~("1 bullet" \in t.words) /\ ~("one word" \in t.words)
      /\ ~("1 bullet" \in u.words) /\ ~("one word" \in u.words)
    BY DEF ShortForm, Has, Longest
<1>5. MaxTokens(t) = Count(d, Sacred(t)) /\ MaxTokens(u) = Count(e, Sacred(u))
    BY <1>4 DEF MaxTokens
<1> HIDE DEF d, e
<1>6. CASE Sacred(u)
    BY <1>5, <1>6
<1>7. CASE ~Sacred(u)
  <2>1. ~Sacred(t)
    BY <1>3, <1>7
  <2>2. Count(d, FALSE) <= Count(e, FALSE)
    BY <1>1
  <2> QED BY <1>5, <1>7, <2>1, <2>2
<1> QED BY <1>6, <1>7

\* What the ladder chooses of four workers, for a text of that type; but for an
\* easy one that calibration gives to a worker.
Climbed(t, type, lower, upper, hard, sacred) ==
    LET d == Difficulty(t)
    IN  IF type = "agent-tool-heavy" THEN lower
        ELSE IF Picture(t) THEN "m3"
        ELSE IF ShortChat(t) THEN "flash"
        ELSE IF CJK(t) THEN lower
        ELSE IF type \in {"code", "debug"} \/ Has(t, CodeWords)
             THEN IF d >= 75 \/ t.len >= 200 THEN hard
                  ELSE IF type = "debug" \/ d >= 35 \/ t.len >= 80 THEN lower ELSE "flash"
        ELSE IF Has(t, DesignWords)
             THEN IF ~HardSignal(t) THEN lower
                  ELSE IF Sacred(t) THEN sacred
                  ELSE IF d >= 78 \/ ArchHeavy(t) \/ t.len >= 140 THEN hard ELSE upper
        ELSE IF type = "agent"
             THEN IF d >= 75 THEN hard
                  ELSE IF d >= 35 \/ t.len >= 70 \/ Has(t, {"step by step", "refactor "}) THEN lower
                  ELSE "flash"
        ELSE IF Sacred(t) THEN sacred
        ELSE IF d >= 78 /\ ~(ReasonRoute(t, type) /\ d < 90) THEN hard ELSE upper

\* A longer text is sacred where the shorter was.
LEMMA SacredGrows ==
    ASSUME NEW t, NEW u, Longest(t, u), t.len \in Nat, u.len \in Nat,
           t.question \in BOOLEAN, u.question \in BOOLEAN, Sacred(t)
    PROVE  Sacred(u)
<1> DEFINE d == Difficulty(t)
           e == Difficulty(u)
<1>1. d \in 0..100 /\ e \in 0..100 /\ d <= e
    BY DifficultyGrows, DifficultyIs
<1>2. ASSUME NEW words, Has(t, words) PROVE Has(u, words)
    BY <1>2 DEF Has, Longest
<1>3. /\ Sacred(t) = (\/ d >= 90 \/ Has(t, {"byzantine", "coq ", "lean4"})
                      \/ d >= 70 /\ Has(t, {"crdt", "paxos"})
                      \/ d >= 85 /\ Has(t, {"prove ", "theorem", "cjk prove"}))
      /\ Sacred(u) = (\/ e >= 90 \/ Has(u, {"byzantine", "coq ", "lean4"})
                      \/ e >= 70 /\ Has(u, {"crdt", "paxos"})
                      \/ e >= 85 /\ Has(u, {"prove ", "theorem", "cjk prove"}))
    BY DEF Sacred, d, e
<1> HIDE DEF d, e
<1>4. (d >= 90 => e >= 90) /\ (d >= 85 => e >= 85) /\ (d >= 70 => e >= 70)
    BY <1>1
<1> QED BY <1>2, <1>3, <1>4

\* With the same words and no shorter it climbs no less.
LEMMA ClimbsHigher ==
    ASSUME NEW t, NEW u, Longest(t, u), t.words = u.words, t.len \in Nat, u.len \in Nat,
           t.question \in BOOLEAN, u.question \in BOOLEAN,
           NEW type, NEW lower, NEW upper, NEW hard, NEW sacred,
           1 <= Rung(lower), Rung(lower) <= Rung(upper), Rung(upper) <= Rung(hard), Rung(hard) <= Rung(sacred)
    PROVE  Rung(Climbed(t, type, lower, upper, hard, sacred))
               <= Rung(Climbed(u, type, lower, upper, hard, sacred))
<1> DEFINE d == Difficulty(t)
           e == Difficulty(u)
<1>1. d \in 0..100 /\ e \in 0..100 /\ d <= e /\ t.len <= u.len
    BY DifficultyGrows, DifficultyIs DEF Longest
<1>2. Sacred(t) => Sacred(u)
    BY SacredGrows
<1>3. /\ Picture(t) = Picture(u) /\ CJK(t) = CJK(u) /\ ArchHeavy(t) = ArchHeavy(u)
      /\ ReasonRoute(t, type) = ReasonRoute(u, type)
      /\ \A words : Has(t, words) = Has(u, words)
    BY DEF Picture, CJK, ArchHeavy, ReasonRoute, Has, Counts
<1>4. (HardSignal(t) => HardSignal(u)) /\ (ShortChat(u) => ShortChat(t))
  <2>1. \A n : Counts(t, n) = Counts(u, n)
    BY DEF Counts
  <2>2. (t.len >= 100 => u.len >= 100) /\ (t.len >= 60 => u.len >= 60) /\ (u.len < 30 => t.len < 30)
    BY <1>1
  <2> QED BY <1>3, <2>1, <2>2 DEF HardSignal, ShortChat
<1>5. Rung("flash") = 0 /\ Rung("m3") = 1
    BY DEF Rung
<1>6. \A w : Rung(w) \in -1..4
    BY DEF Rung
<1>7. /\ d >= 75 => e >= 75
      /\ d >= 35 => e >= 35
      /\ d >= 78 => e >= 78
      /\ e < 90 => d < 90
      /\ t.len >= 200 => u.len >= 200
      /\ t.len >= 140 => u.len >= 140
      /\ t.len >= 80 => u.len >= 80
      /\ t.len >= 70 => u.len >= 70
    BY <1>1
<1> DEFINE C(v) == Climbed(v, type, lower, upper, hard, sacred)
           Code == type \in {"code", "debug"} \/ Has(t, CodeWords)
           Design == Has(t, DesignWords)
<1>8. CASE type = "agent-tool-heavy" \/ Picture(t)
  <2>1. C(t) = C(u)
    BY <1>3, <1>8 DEF Climbed
  <2> QED BY <1>6, <2>1
<1>9. CASE ~(type = "agent-tool-heavy" \/ Picture(t)) /\ ShortChat(t)
  <2>1. C(t) = "flash"
    BY <1>9 DEF Climbed
  <2>2. C(u) \in {"m3", "flash", lower, upper, hard, sacred}
    BY DEF Climbed
  <2>3. \A w \in {"m3", "flash", lower, upper, hard, sacred} : Rung(w) >= 0
    BY <1>5, <1>6
  <2> QED BY <1>5, <2>1, <2>2, <2>3
<1>10. CASE ~(type = "agent-tool-heavy" \/ Picture(t)) /\ ~ShortChat(t) /\ CJK(t)
    BY <1>3, <1>4, <1>6, <1>10 DEF Climbed
<1> DEFINE Rest == ~(type = "agent-tool-heavy" \/ Picture(t)) /\ ~ShortChat(t) /\ ~CJK(t)
<1>11. CASE Rest /\ Code
  <2> DEFINE K(v, n) == IF n >= 75 \/ v.len >= 200 THEN hard
                        ELSE IF type = "debug" \/ n >= 35 \/ v.len >= 80 THEN lower ELSE "flash"
  <2>1. C(t) = K(t, d) /\ C(u) = K(u, e)
    BY <1>3, <1>4, <1>11 DEF Climbed
  <2> HIDE DEF C, d, e
  <2>2. Rung(K(t, d)) <= Rung(K(u, e))
    BY <1>5, <1>6, <1>7
  <2> QED BY <2>1, <2>2 DEF C
<1>12. CASE Rest /\ ~Code /\ Design
  <2> DEFINE K(v, n) == IF ~HardSignal(v) THEN lower
                        ELSE IF Sacred(v) THEN sacred
                        ELSE IF n >= 78 \/ ArchHeavy(v) \/ v.len >= 140 THEN hard ELSE upper
  <2>1. C(t) = K(t, d) /\ C(u) = K(u, e)
    BY <1>3, <1>4, <1>12 DEF Climbed
  <2> HIDE DEF C, d, e
  <2>2. Rung(K(t, d)) <= Rung(K(u, e))
    BY <1>2, <1>3, <1>4, <1>6, <1>7
  <2> QED BY <2>1, <2>2 DEF C
<1>13. CASE Rest /\ ~Code /\ ~Design /\ type = "agent"
  <2> DEFINE long == Has(t, {"step by step", "refactor "})
             K(v, n) == IF n >= 75 THEN hard
                        ELSE IF n >= 35 \/ v.len >= 70 \/ long THEN lower ELSE "flash"
  <2>1. C(t) = K(t, d) /\ C(u) = K(u, e)
    BY <1>3, <1>4, <1>13 DEF Climbed
  <2> HIDE DEF long
  <2> HIDE DEF C, d, e
  <2>2. Rung(K(t, d)) <= Rung(K(u, e))
    BY <1>3, <1>5, <1>6, <1>7
  <2> QED BY <2>1, <2>2 DEF C
<1>14. CASE Rest /\ ~Code /\ ~Design /\ type # "agent"
  <2> DEFINE K(v, n) == IF Sacred(v) THEN sacred
                        ELSE IF n >= 78 /\ ~(ReasonRoute(v, type) /\ n < 90) THEN hard ELSE upper
  <2>1. C(t) = K(t, d) /\ C(u) = K(u, e)
    BY <1>3, <1>4, <1>14 DEF Climbed
  <2> HIDE DEF C, d, e
  <2>2. Rung(K(t, d)) <= Rung(K(u, e))
    BY <1>2, <1>3, <1>6, <1>7
  <2> QED BY <2>1, <2>2 DEF C
<1> QED BY <1>8, <1>9, <1>10, <1>11, <1>12, <1>13, <1>14

\* A step with the same words leaves the type.
LEMMA TypeStays == ASSUME rules' = rules, text'.words = text.words PROVE Type' = Type
<1>1. \A words : Has(text', words) = Has(text, words) /\ Counts(text', words) = Counts(text, words)
    BY DEF Has, Counts
<1>2. TextType(text') = TextType(text)
  <2>1. CJK(text') = CJK(text) /\ PureReason(text') = PureReason(text) /\ Toolish(text') = Toolish(text)
    BY <1>1 DEF CJK, PureReason, Toolish
  <2>2. AgentWork(text') = AgentWork(text)
    <3>1. \A w : w \in text'.words <=> w \in text.words
      OBVIOUS
    <3>2. /\ PureReason(text') <=> PureReason(text)
          /\ Toolish(text') <=> Toolish(text)
          /\ Has(text', Acts) <=> Has(text, Acts)
          /\ Counts(text', Acts) = Counts(text, Acts)
      BY <1>1, <2>1
    <3> QED BY <3>1, <3>2 DEF AgentWork
  <2>3. Classified(text') = Classified(text)
    BY <1>1 DEF Classified
  <2> QED BY <2>1, <2>2, <2>3 DEF TextType
<1> QED BY <1>2 DEF Type

\* More never counts less: whatever word is added, in whatever list, however the
\* text goes on and where it comes to ask, it is no easier (_query_difficulty())
\* and its answer no shorter (_recommended_max_tokens()); with the same words its
\* worker is of no lower rung (_difficulty_aware_route()), where Opus is enabled
\* and calibration does not choose it. For every vocabulary, every length and
\* every environment; but a question that asks no more loses its signal.
THEOREM MoreIsNoEasier == RuleSpec => MoreNeverCountsLess
<1> DEFINE P == (text.question => text'.question) =>
                  /\ Difficulty(text') >= Difficulty(text)
                  /\ ~ShortForm(text') => MaxTokens(text') >= MaxTokens(text)
                  /\ text'.words = text.words /\ Enabled("opus") /\ OnLadder(text, Type) =>
                        Rung(Route(text, Type)') >= Rung(Route(text, Type))
<1>1. RuleInv /\ [RuleNext]_ruleVars => [P]_ruleVars
  <2> SUFFICES ASSUME RuleInv, [RuleNext]_ruleVars, text.question => text'.question
               PROVE  /\ Difficulty(text') >= Difficulty(text)
                      /\ ~ShortForm(text') => MaxTokens(text') >= MaxTokens(text)
                      /\ text'.words = text.words /\ Enabled("opus") /\ OnLadder(text, Type) =>
                            Rung(Route(text, Type)') >= Rung(Route(text, Type))
    OBVIOUS
  <2>1. RuleInv' /\ Longest(text, text') /\ rules' = rules /\ rules \in Environments
    BY RuleStepInv DEF Goes, RuleInv, RuleTypeOK
  <2>2. text.len \in Nat /\ text'.len \in Nat /\ text.question \in BOOLEAN /\ text'.question \in BOOLEAN
    BY <2>1, RuleAssumption DEF RuleInv, RuleTypeOK, Texts
  <2>3. Difficulty(text) \in 0..100 /\ Difficulty(text') \in 0..100
    BY DifficultyIs
  <2>4. Difficulty(text) <= Difficulty(text')
    BY <2>1, <2>2, DifficultyGrows
  <2>5. ~ShortForm(text') => MaxTokens(text) <= MaxTokens(text')
    BY <2>1, <2>2, TokensGrow
  <2>6. MaxTokens(text) \in Nat /\ MaxTokens(text') \in Nat
    BY DEF MaxTokens
  <2>7. Difficulty(text') >= Difficulty(text)
    BY <2>3, <2>4
  <2>8. ASSUME text'.words = text.words, Enabled("opus"), OnLadder(text, Type)
        PROVE  Rung(Route(text, Type)') >= Rung(Route(text, Type))
    <3> DEFINE lower == Or(MidLower, "m3")
               upper == Or(MidUpper, "m3")
               hard == Or(Hard, "m3")
    <3>1. Type' = Type
      BY <2>1, <2>8, TypeStays
    <3>2. OnLadder(text', Type)
      <4>1. Difficulty(text) >= 55 => Difficulty(text') >= 55
        BY <2>3, <2>4
      <4> QED BY <2>8, <4>1 DEF OnLadder, Has
    <3>3. ASSUME NEW t, NEW type, OnLadder(t, type)
          PROVE  \/ type \in {"agent-tool-heavy", "agent", "code", "debug"} \/ CJK(t)
                 \/ Has(t, CodeWords) \/ Has(t, DesignWords) \/ Difficulty(t) >= 55
      <4>1. Has(t, CJKWords \cup CodeWords \cup DesignWords) =>
                Has(t, CJKWords) \/ Has(t, CodeWords) \/ Has(t, DesignWords)
        BY DEF Has
      <4> QED BY <3>3, <4>1 DEF OnLadder, CJK
    <3>4. Route(text, Type) = Climbed(text, Type, lower, upper, hard, SacredOr)
      <4> DEFINE d == Difficulty(text)
      <4>1. Difficulty(text) >= 55 => GeneralRoute(text, Type, d) =
              IF Sacred(text) THEN SacredOr
              ELSE IF d >= 78 /\ ~(ReasonRoute(text, Type) /\ d < 90) THEN hard ELSE upper
        BY DEF GeneralRoute
      <4> QED BY <2>8, <3>3, <4>1 DEF Route, Climbed, CodeRoute, DesignRoute, AgentRoute
    <3>5. MidLower' = MidLower /\ MidUpper' = MidUpper /\ Hard' = Hard /\ SacredOr' = SacredOr
      BY <2>1 DEF MidLower, MidUpper, Hard, SacredOr, SacredWorker, Healthy, Enabled, Or
    <3>6. Route(text, Type)' = Climbed(text', Type, lower, upper, hard, SacredOr)
      <4> DEFINE e == Difficulty(text')
      <4>1. lower' = lower /\ upper' = upper /\ hard' = hard
        BY <3>5 DEF Or
      <4>2. Difficulty(text') >= 55 => GeneralRoute(text, Type, Difficulty(text))' =
              IF Sacred(text') THEN SacredOr
              ELSE IF e >= 78 /\ ~(ReasonRoute(text', Type) /\ e < 90) THEN hard ELSE upper
        BY <3>1, <3>5, <4>1 DEF GeneralRoute
      <4>3. CodeRoute(text, Type, Difficulty(text))' =
              IF e >= 75 \/ text'.len >= 200 THEN hard
              ELSE IF Type = "debug" \/ e >= 35 \/ text'.len >= 80 THEN lower ELSE "flash"
        BY <3>1, <4>1 DEF CodeRoute
      <4>4. DesignRoute(text, Difficulty(text))' =
              IF ~HardSignal(text') THEN lower
              ELSE IF Sacred(text') THEN SacredOr
              ELSE IF e >= 78 \/ ArchHeavy(text') \/ text'.len >= 140 THEN hard ELSE upper
        BY <3>5, <4>1 DEF DesignRoute
      <4>5. AgentRoute(text, Difficulty(text))' =
              IF e >= 75 THEN hard
              ELSE IF e >= 35 \/ text'.len >= 70 \/ Has(text', {"step by step", "refactor "}) THEN lower
              ELSE "flash"
        BY <4>1 DEF AgentRoute
      <4> QED BY <3>1, <3>2, <3>3, <4>1, <4>2, <4>3, <4>4, <4>5 DEF Route, Climbed
    <3>7. /\ 1 <= Rung(lower) /\ Rung(lower) <= Rung(upper)
          /\ Rung(upper) <= Rung(hard) /\ Rung(hard) <= Rung(SacredOr)
      <4>1. hard = "opus" /\ SacredOr \in {"fable", "opus"}
        BY <2>8 DEF Hard, SacredOr, SacredWorker, Or, None
      <4>2. upper \in {"m3", "grok", "sol"} /\ lower \in {"m3", upper}
        BY DEF MidUpper, MidLower, Or, None
      <4> HIDE DEF lower, upper, hard
      <4> QED BY <4>1, <4>2 DEF Rung
    <3> HIDE DEF lower, upper, hard
    <3>8. Rung(Route(text, Type)) <= Rung(Route(text, Type)')
      BY <2>1, <2>2, <2>8, <3>4, <3>6, <3>7, ClimbsHigher
    <3>9. \A w : Rung(w) \in -1..4
      BY DEF Rung
    <3> QED BY <3>8, <3>9
  <2> QED BY <2>5, <2>6, <2>7, <2>8
<1>2. RuleSpec => []RuleInv
    BY RuleInitInv, RuleStepInv, PTL DEF RuleSpec
<1> QED BY <1>1, <1>2, PTL DEF RuleSpec, MoreNeverCountsLess

-----------------------------------------------------------------------------
(* Conversations with tools *)

\* The largest of 1..n, and what is left without it.
LEMMA LastIsMax == ASSUME NEW n \in Nat, n > 0 PROVE Max(1..n) = n /\ (1..n) \ {n} = 1..(n - 1)
<1>1. \E x \in 1..n : \A y \in 1..n : x >= y
    OBVIOUS
<1> QED BY <1>1 DEF Max

\* Which is in every set of places of a list.
LEMMA MaxIsIn == ASSUME NEW n \in Nat, NEW s \in SUBSET (1..n), s # {} PROVE Max(s) \in s
<1>1. s \subseteq Nat
    OBVIOUS
<1>2. IsFiniteSet(1..n)
    BY FS_Interval
<1> QED BY <1>1, <1>2, FS_Subset, MaxExists

-----------------------------------------------------------------------------
\* What a conversation is of, and the states of the repair's loop.
AnyMessage == [role : {"user", "assistant", "tool"}, calls : Seq(Nat), id : Nat, body : Int]
PendingCall == [id : Nat, raw : Nat, body : Int]
LoopStates == [out : Seq(AnyMessage), used : SUBSET Nat, counter : Nat, pending : Seq(PendingCall),
               anonymous : Seq(Int)]

\* The list with the results that the active turn will have.
Standins(t) == [i \in DOMAIN t.pending |-> Message("tool", <<>>, t.pending[i].id, 0)]
Closing(t) == t.out \o Standins(t)
IdsUsed(t) == \A j \in DOMAIN t.out : \A k \in DOMAIN t.out[j].calls : t.out[j].calls[k] \in t.used
Tracks(t) == t \in LoopStates /\ IsFiniteSet(t.used) /\ 0 \notin t.used /\ IdsUsed(t)
Good(t) == Tracks(t) /\ IsStrict(Closing(t))

\* fresh_id() finds an id that no call has.
LEMMA FreshIsNew ==
    ASSUME NEW t, Tracks(t), NEW raw \in Nat
    PROVE  /\ FreshId(t, raw).id \in Nat \ ({0} \cup t.used)
           /\ FreshId(t, raw).counter \in Nat
<1> DEFINE c == t.counter
           n == Cardinality(t.used)
           range == (c + 1)..(c + 1 + n)
           new == range \ t.used
<1>1. c \in Nat /\ n \in Nat /\ IsFiniteSet(t.used)
    BY FS_CardinalityType DEF Tracks, LoopStates
<1>2. IsFiniteSet(range) /\ Cardinality(range) = n + 1
  <2> HIDE DEF c, n
  <2>1. c + 1 \in Int /\ c + 1 + n \in Int
    BY <1>1
  <2>2. IsFiniteSet(range) /\ Cardinality(range) = IF c + 1 > c + 1 + n THEN 0 ELSE (c + 1 + n) - (c + 1) + 1
    BY <2>1, FS_Interval
  <2> QED BY <1>1, <2>2
<1>3. ~(range \subseteq t.used)
  <2> SUFFICES ASSUME range \subseteq t.used PROVE FALSE
    OBVIOUS
  <2>1. Cardinality(range) <= n
    BY <1>1, FS_Subset
  <2> HIDE DEF n, range
  <2> QED BY <1>1, <1>2, <2>1
<1>4. new # {} /\ new \subseteq Nat
    BY <1>1, <1>3
<1>5. Min(new) \in new
  <2> HIDE DEF new
  <2> QED BY <1>4, MinExists
<1>6. Min(new) \in Nat \ ({0} \cup t.used)
    BY <1>1, <1>5
<1>7. FreshId(t, raw) = IF raw # 0 /\ raw \notin t.used THEN [id |-> raw, counter |-> c]
                        ELSE [id |-> Min(new), counter |-> Min(new)]
    BY DEF FreshId
<1> HIDE DEF new, c
<1> QED BY <1>1, <1>6, <1>7

-----------------------------------------------------------------------------
\* Lists that differ in their bodies alone are strict alike.
LEMMA SameShape ==
    ASSUME NEW list, NEW like, DOMAIN list = DOMAIN like,
           \A i \in DOMAIN list : /\ like[i].role = list[i].role
                                  /\ like[i].id = list[i].id
                                  /\ like[i].calls = list[i].calls,
           IsStrict(list)
    PROVE  IsStrict(like)
<1>1. Results(like) = Results(list)
    BY DEF Results
<1>2. ASSUME NEW i \in DOMAIN list, NEW j \in DOMAIN list, NEW k
      PROVE  Follows(like, i, j, k) <=> Follows(list, i, j, k)
    BY DEF Follows
<1>3. Results(list) \subseteq DOMAIN list
    BY DEF Results
<1> QED BY <1>1, <1>2, <1>3 DEF IsStrict

\* A strict list stays one when a turn comes to it whose ids are new, with the
\* results of its calls behind it.
Adds(list, m, all) ==
    LET n == Len(list)
        c == Len(m.calls)
    IN  /\ Len(all) = n + 1 + c
        /\ \A i \in 1..n : /\ all[i].role = list[i].role
                           /\ all[i].id = list[i].id
                           /\ all[i].calls = list[i].calls
        /\ all[n + 1].role # "tool" /\ all[n + 1].calls = m.calls
        /\ \A k \in 1..c : all[n + 1 + k].role = "tool" /\ all[n + 1 + k].id = m.calls[k]
                             /\ all[n + 1 + k].calls = <<>>
NewCalls(list, m) ==
    /\ \A k \in DOMAIN m.calls : m.calls[k] # 0
    /\ \A k, l \in DOMAIN m.calls : m.calls[k] = m.calls[l] => k = l
    /\ \A j \in DOMAIN list : \A k \in DOMAIN list[j].calls : \A l \in DOMAIN m.calls :
         list[j].calls[k] # m.calls[l]

\* A strict list stays strict with such a turn and its results.
LEMMA AddedIsStrict ==
    ASSUME NEW list, list \in Seq(AnyMessage), NEW m, m.calls \in Seq(Nat), NEW all, all \in Seq(AnyMessage),
           Adds(list, m, all), NewCalls(list, m), IsStrict(list)
    PROVE  IsStrict(all)
<1> DEFINE n == Len(list)
           c == Len(m.calls)
<1>1. /\ n \in Nat /\ c \in Nat /\ DOMAIN list = 1..n /\ DOMAIN m.calls = 1..c
      /\ DOMAIN all = 1..(n + 1 + c)
    BY LenProperties DEF Adds
<1>2. /\ \A i \in 1..n : i \in DOMAIN all /\ all[i].role = list[i].role /\ all[i].id = list[i].id
                           /\ all[i].calls = list[i].calls
      /\ n + 1 \in DOMAIN all /\ all[n + 1].role # "tool" /\ all[n + 1].calls = m.calls
      /\ \A k \in 1..c : /\ n + 1 + k \in DOMAIN all /\ all[n + 1 + k].role = "tool"
                         /\ all[n + 1 + k].id = m.calls[k] /\ all[n + 1 + k].calls = <<>>
  <2>1. /\ \A i \in 1..n : all[i].role = list[i].role /\ all[i].id = list[i].id /\ all[i].calls = list[i].calls
        /\ all[n + 1].role # "tool" /\ all[n + 1].calls = m.calls
        /\ \A k \in 1..c : all[n + 1 + k].role = "tool" /\ all[n + 1 + k].id = m.calls[k]
                             /\ all[n + 1 + k].calls = <<>>
    BY DEF Adds
  <2> HIDE DEF n, c
  <2>2. (\A i \in 1..n : i \in DOMAIN all) /\ n + 1 \in DOMAIN all /\ \A k \in 1..c : n + 1 + k \in DOMAIN all
    BY <1>1
  <2> QED BY <2>1, <2>2
<1>3. ASSUME NEW i \in DOMAIN all
      PROVE  i \in 1..n \/ i = n + 1 \/ \E k \in 1..c : i = n + 1 + k
  <2> HIDE DEF n, c
  <2>1. CASE i <= n
    BY <1>1, <2>1
  <2>2. CASE i = n + 1
    BY <2>2
  <2>3. CASE i > n + 1
    <3>1. i - (n + 1) \in 1..c /\ i = n + 1 + (i - (n + 1))
      BY <1>1, <2>3
    <3> QED BY <3>1
  <2> QED BY <1>1, <2>1, <2>2, <2>3
<1>4. ASSUME NEW j \in DOMAIN all, NEW k \in DOMAIN all[j].calls
      PROVE  (j \in 1..n /\ k \in DOMAIN list[j].calls) \/ (j = n + 1 /\ k \in 1..c)
  <2> HIDE DEF n, c
  <2>1. CASE j \in 1..n
    BY <1>2, <1>4, <2>1
  <2>2. CASE j = n + 1
    BY <1>1, <1>2, <1>4, <2>2
  <2>3. ASSUME NEW l \in 1..c, j = n + 1 + l PROVE FALSE
    <3>1. all[j].calls = <<>>
      BY <1>2, <2>3
    <3>2. k \in DOMAIN (<<>>)
      BY <1>4, <3>1
    <3> QED BY <3>2
  <2> QED BY <1>3, <2>1, <2>2, <2>3
<1> HIDE DEF n, c
<1>5. Results(list) \subseteq Results(all) \cap 1..n
    BY <1>1, <1>2 DEF Results
<1>6. ASSUME NEW j \in DOMAIN all, NEW k \in DOMAIN all[j].calls
      PROVE  /\ all[j].calls[k] # 0
             /\ \E i \in Results(all) : Follows(all, i, j, k)
  <2>1. CASE j \in 1..n
    <3>1. k \in DOMAIN list[j].calls /\ all[j].calls = list[j].calls
      BY <1>2, <2>1
    <3>2. list[j].calls[k] # 0 /\ \E i \in Results(list) : Follows(list, i, j, k)
      BY <1>1, <2>1, <3>1 DEF IsStrict
    <3>3. PICK i \in Results(list) : Follows(list, i, j, k)
      BY <3>2
    <3>4. i \in Results(all) /\ Follows(all, i, j, k)
      BY <1>2, <1>5, <3>1, <3>3 DEF Follows
    <3> QED BY <3>1, <3>2, <3>4
  <2>2. CASE j = n + 1
    <3>1. k \in 1..c /\ all[j].calls = m.calls
      BY <1>1, <1>2, <2>2
    <3>2. n + 1 + k \in Results(all) /\ Follows(all, n + 1 + k, j, k)
      BY <1>2, <2>2, <3>1 DEF Results, Follows
    <3>3. m.calls[k] # 0
      BY <1>1, <3>1 DEF NewCalls
    <3> QED BY <3>1, <3>2, <3>3
  <2> QED BY <1>4, <2>1, <2>2
<1>7. ASSUME NEW j \in DOMAIN all, NEW k \in DOMAIN all[j].calls,
             NEW h \in DOMAIN all, NEW l \in DOMAIN all[h].calls, all[h].calls[l] = all[j].calls[k]
      PROVE  h = j /\ l = k
  <2>1. CASE j \in 1..n /\ h \in 1..n
    <3>1. /\ k \in DOMAIN list[j].calls /\ all[j].calls = list[j].calls
          /\ l \in DOMAIN list[h].calls /\ all[h].calls = list[h].calls
      BY <1>2, <2>1
    <3> QED BY <1>1, <1>7, <2>1, <3>1 DEF IsStrict
  <2>2. CASE j = n + 1 /\ h = n + 1
    BY <1>1, <1>2, <1>7, <2>2 DEF NewCalls
  <2>3. CASE j \in 1..n /\ h = n + 1
    <3>1. /\ k \in DOMAIN list[j].calls /\ all[j].calls = list[j].calls /\ j \in DOMAIN list
          /\ l \in DOMAIN m.calls /\ all[h].calls = m.calls
      BY <1>1, <1>2, <1>7, <2>3
    <3> QED BY <1>7, <3>1 DEF NewCalls
  <2>4. CASE h \in 1..n /\ j = n + 1
    <3>1. /\ l \in DOMAIN list[h].calls /\ all[h].calls = list[h].calls /\ h \in DOMAIN list
          /\ k \in DOMAIN m.calls /\ all[j].calls = m.calls
      BY <1>1, <1>2, <1>7, <2>4
    <3> QED BY <1>7, <3>1 DEF NewCalls
  <2> QED BY <1>4, <2>1, <2>2, <2>3, <2>4
<1>8. ASSUME NEW i \in Results(all)
      PROVE  \E j \in DOMAIN all : \E k \in DOMAIN all[j].calls : Follows(all, i, j, k)
  <2>1. i \in DOMAIN all /\ all[i].role = "tool"
    BY DEF Results
  <2>2. CASE i \in 1..n
    <3>1. i \in Results(list)
      BY <1>1, <1>2, <2>1, <2>2 DEF Results
    <3>2. PICK j \in DOMAIN list : \E k \in DOMAIN list[j].calls : Follows(list, i, j, k)
      BY <3>1 DEF IsStrict
    <3>3. PICK k \in DOMAIN list[j].calls : Follows(list, i, j, k)
      BY <3>2
    <3>4. j \in DOMAIN all /\ k \in DOMAIN all[j].calls /\ Follows(all, i, j, k)
      BY <1>1, <1>2, <2>2, <3>3 DEF Follows
    <3> QED BY <3>4
  <2>3. ASSUME NEW k \in 1..c, i = n + 1 + k
        PROVE  \E j \in DOMAIN all : \E l \in DOMAIN all[j].calls : Follows(all, i, j, l)
    <3>1. n + 1 \in DOMAIN all /\ k \in DOMAIN all[n + 1].calls /\ Follows(all, i, n + 1, k)
      BY <1>1, <1>2, <2>3 DEF Follows
    <3> QED BY <3>1
  <2> QED BY <1>2, <1>3, <2>1, <2>2, <2>3
<1> QED BY <1>6, <1>7, <1>8 DEF IsStrict

\* The states of the loop, field by field.
LEMMA LoopStateIs ==
    ASSUME NEW t, t \in LoopStates
    PROVE  /\ t = [out |-> t.out, used |-> t.used, counter |-> t.counter, pending |-> t.pending,
                   anonymous |-> t.anonymous]
           /\ t.out \in Seq(AnyMessage) /\ t.used \subseteq Nat /\ t.counter \in Nat
           /\ t.pending \in Seq(PendingCall) /\ t.anonymous \in Seq(Int)
BY DEF LoopStates

\* A message with the role of a result, and no calls.
LEMMA ResultType ==
    ASSUME NEW id \in Nat, NEW body \in Int
    PROVE  /\ Message("tool", <<>>, id, body) \in AnyMessage
           /\ Message("tool", <<>>, id, body).role = "tool"
           /\ Message("tool", <<>>, id, body).id = id
           /\ Message("tool", <<>>, id, body).calls = <<>>
<1>1. <<>> \in Seq(Nat)
    OBVIOUS
<1> QED BY <1>1 DEF Message, AnyMessage

\* Results, one for each call that is pending, come behind what is out.
Answered(t, results) ==
    /\ DOMAIN results = DOMAIN t.pending
    /\ \A i \in DOMAIN t.pending : \E body \in Int : results[i] = Message("tool", <<>>, t.pending[i].id, body)
    /\ results = [i \in DOMAIN t.pending |-> results[i]]

\* Where the messages and the results are then.
LEMMA AnsweredType ==
    ASSUME NEW t, t \in LoopStates, NEW results, Answered(t, results)
    PROVE  LET all == t.out \o results
               n == Len(t.out)
               c == Len(t.pending)
           IN  /\ n \in Nat /\ c \in Nat /\ DOMAIN t.out = 1..n /\ DOMAIN t.pending = 1..c
               /\ all \in Seq(AnyMessage) /\ Len(all) = n + c /\ DOMAIN all = 1..(n + c)
               /\ \A i \in 1..n : all[i] = t.out[i] /\ t.out[i] \in AnyMessage
               /\ \A k \in 1..c : /\ all[n + k].role = "tool" /\ all[n + k].id = t.pending[k].id
                                  /\ all[n + k].calls = <<>> /\ t.pending[k] \in PendingCall
<1> DEFINE all == t.out \o results
           n == Len(t.out)
           c == Len(t.pending)
<1>1. /\ n \in Nat /\ c \in Nat /\ DOMAIN t.out = 1..n /\ DOMAIN t.pending = 1..c
      /\ t.out \in Seq(AnyMessage) /\ t.pending \in Seq(PendingCall)
      /\ \A i \in 1..n : t.out[i] \in AnyMessage
      /\ \A i \in 1..c : t.pending[i] \in PendingCall
    BY LoopStateIs, LenProperties, ElementOfSeq
<1>2. \A i \in 1..c : /\ results[i] \in AnyMessage /\ results[i].role = "tool"
                      /\ results[i].id = t.pending[i].id /\ results[i].calls = <<>>
  <2> SUFFICES ASSUME NEW i \in 1..c
               PROVE  /\ results[i] \in AnyMessage /\ results[i].role = "tool"
                      /\ results[i].id = t.pending[i].id /\ results[i].calls = <<>>
    OBVIOUS
  <2>1. t.pending[i].id \in Nat
    BY <1>1 DEF PendingCall
  <2>2. PICK body \in Int : results[i] = Message("tool", <<>>, t.pending[i].id, body)
    BY <1>1 DEF Answered
  <2> QED BY <2>1, <2>2, ResultType
<1>3. results \in Seq(AnyMessage) /\ Len(results) = c
  <2>1. results \in [1..c -> AnyMessage]
    BY <1>1, <1>2 DEF Answered
  <2> HIDE DEF c
  <2> QED BY <1>1, <2>1
<1>4. /\ all \in Seq(AnyMessage) /\ Len(all) = n + c
      /\ \A i \in 1..(n + c) : all[i] = IF i <= n THEN t.out[i] ELSE results[i - n]
  <2>1. t.out \in Seq(AnyMessage) /\ results \in Seq(AnyMessage) /\ Len(results) = c
    BY <1>1, <1>3
  <2>2. /\ all \in Seq(AnyMessage) /\ Len(all) = n + Len(results)
        /\ \A i \in 1..(n + Len(results)) : all[i] = IF i <= n THEN t.out[i] ELSE results[i - n]
    BY ONLY <2>1, ConcatProperties
  <2> HIDE DEF all, n, c
  <2> QED BY <2>1, <2>2
<1>5. DOMAIN all = 1..(n + c)
    BY <1>4, LenProperties
<1> HIDE DEF n, c, all
<1>6. \A k \in 1..c : all[n + k] = results[k]
  <2> SUFFICES ASSUME NEW k \in 1..c PROVE all[n + k] = results[k]
    OBVIOUS
  <2>1. n + k \in 1..(n + c) /\ ~(n + k <= n) /\ (n + k) - n = k
    BY <1>1
  <2> QED BY <1>4, <2>1
<1>7. \A i \in 1..n : all[i] = t.out[i]
    BY <1>1, <1>4
<1>8. \A k \in 1..c : /\ all[n + k].role = "tool" /\ all[n + k].id = t.pending[k].id
                      /\ all[n + k].calls = <<>> /\ t.pending[k] \in PendingCall
    BY <1>1, <1>2, <1>6
<1> QED BY <1>1, <1>4, <1>5, <1>7, <1>8 DEF n, c, all

\* The stand-ins are such results.
LEMMA StandinsAnswer == ASSUME NEW t, t \in LoopStates PROVE Answered(t, Standins(t))
    BY DEF Answered, Standins

\* Whatever results a turn gets, what is out is as strict as with stand-ins.
LEMMA AnsweredIsStrict ==
    ASSUME NEW t, Good(t), NEW results, Answered(t, results)
    PROVE  IsStrict(t.out \o results)
<1> DEFINE all == t.out \o results
           like == Closing(t)
           n == Len(t.out)
           c == Len(t.pending)
<1>1. t \in LoopStates /\ IsStrict(like)
    BY DEF Good, Tracks
<1>2. /\ n \in Nat /\ c \in Nat /\ DOMAIN all = 1..(n + c)
      /\ \A i \in 1..n : all[i] = t.out[i]
      /\ \A k \in 1..c : /\ all[n + k].role = "tool" /\ all[n + k].id = t.pending[k].id
                         /\ all[n + k].calls = <<>>
    BY <1>1, AnsweredType
<1>3. /\ DOMAIN like = 1..(n + c)
      /\ \A i \in 1..n : like[i] = t.out[i]
      /\ \A k \in 1..c : /\ like[n + k].role = "tool" /\ like[n + k].id = t.pending[k].id
                         /\ like[n + k].calls = <<>>
    BY <1>1, StandinsAnswer, AnsweredType DEF Closing
<1> HIDE DEF all, like, n, c
<1>4. ASSUME NEW i \in 1..(n + c)
      PROVE  all[i].role = like[i].role /\ all[i].id = like[i].id /\ all[i].calls = like[i].calls
  <2>1. CASE i <= n
    BY <1>2, <1>3, <2>1
  <2>2. CASE i > n
    <3>1. i - n \in 1..c /\ n + (i - n) = i
      BY <1>2, <2>2
    <3>2. PICK k \in 1..c : i = n + k
      BY <3>1
    <3> QED BY <1>2, <1>3, <3>2
  <2> QED BY <1>2, <2>1, <2>2
<1>5. IsStrict(all)
    BY <1>1, <1>2, <1>3, <1>4, SameShape
<1> QED BY <1>5 DEF all

\* What is out when nothing is pending.
Quiet(t) == Tracks(t) /\ t.pending = <<>> /\ IsStrict(t.out)

\* With nothing pending, what is good is what is strict already.
LEMMA QuietIsGood == ASSUME NEW t, Tracks(t), t.pending = <<>> PROVE Good(t) <=> IsStrict(t.out)
<1>1. t \in LoopStates
    BY DEF Tracks
<1>2. Standins(t) = <<>>
    BY DEF Standins
<1>3. t.out \o <<>> = t.out
    BY <1>1, LoopStateIs, ConcatEmptySeq
<1> QED BY <1>2, <1>3 DEF Good, Closing

\* The bodies of the results that flush_pending() adds.
ResultOf(t, i) ==
    LET rank == Cardinality(Unanswered(t) \cap 1..i)
    IN  IF i \notin Unanswered(t) THEN t.pending[i].body
        ELSE IF rank <= Len(t.anonymous) THEN t.anonymous[rank] ELSE Unavailable

\* What a pending call is answered with.
LEMMA ResultOfType ==
    ASSUME NEW t, t \in LoopStates, NEW i \in DOMAIN t.pending
    PROVE  ResultOf(t, i) \in Int
<1> DEFINE rank == Cardinality(Unanswered(t) \cap 1..i)
<1>1. i \in Nat /\ i > 0 /\ t.pending[i] \in PendingCall /\ t.anonymous \in Seq(Int)
    BY LoopStateIs, LenProperties, ElementOfSeq
<1>2. i \in Unanswered(t) => rank \in Nat \ {0}
  <2> SUFFICES ASSUME i \in Unanswered(t) PROVE rank \in Nat \ {0}
    OBVIOUS
  <2>1. IsFiniteSet(1..i)
    BY <1>1, FS_Interval
  <2>2. IsFiniteSet(Unanswered(t) \cap 1..i)
    BY <2>1, FS_Subset
  <2>3. Unanswered(t) \cap 1..i # {}
    BY <1>1
  <2> QED BY <2>2, <2>3, FS_CardinalityType, FS_EmptySet
<1>3. CASE i \notin Unanswered(t)
    BY <1>1, <1>3 DEF ResultOf, PendingCall
<1>4. CASE i \in Unanswered(t)
  <2> HIDE DEF rank
  <2>1. ResultOf(t, i) = IF rank <= Len(t.anonymous) THEN t.anonymous[rank] ELSE Unavailable
    BY <1>4 DEF ResultOf, rank
  <2>2. rank <= Len(t.anonymous) => t.anonymous[rank] \in Int
    BY <1>1, <1>2, <1>4, ElementOfSeq
  <2> QED BY <2>1, <2>2 DEF Unavailable
<1> QED BY <1>3, <1>4

\* With its results, a turn is over: nothing is pending, what is out is strict, and
\* the ids in use stay.
Over(t, results, left) ==
    [out |-> t.out \o results, used |-> t.used, counter |-> t.counter, pending |-> <<>>, anonymous |-> left]

\* So it is, since no result is of a call that is not pending.
LEMMA OverIsQuiet ==
    ASSUME NEW t, Good(t), NEW results, Answered(t, results), NEW left \in Seq(Int)
    PROVE  Quiet(Over(t, results, left))
<1> DEFINE out == t.out \o results
           n == Len(t.out)
           c == Len(t.pending)
           u == Over(t, results, left)
<1>1. t \in LoopStates
    BY DEF Good, Tracks
<1>2. /\ n \in Nat /\ c \in Nat /\ DOMAIN t.out = 1..n /\ out \in Seq(AnyMessage) /\ DOMAIN out = 1..(n + c)
      /\ \A i \in 1..n : out[i] = t.out[i]
      /\ \A k \in 1..c : out[n + k].calls = <<>>
    BY <1>1, AnsweredType
<1>3. IsStrict(out)
    BY AnsweredIsStrict
<1>4. u = [out |-> out, used |-> t.used, counter |-> t.counter, pending |-> <<>>, anonymous |-> left]
    BY DEF Over
<1> HIDE DEF out, n, c, u
<1>5. u \in LoopStates
  <2>1. <<>> \in Seq(PendingCall)
    OBVIOUS
  <2> QED BY <1>1, <1>2, <1>4, <2>1, LoopStateIs DEF LoopStates
<1>6. ASSUME NEW j \in DOMAIN out, NEW k \in DOMAIN out[j].calls
      PROVE  out[j].calls[k] \in t.used
  <2>1. CASE j <= n
    <3>1. j \in DOMAIN t.out /\ out[j] = t.out[j]
      BY <1>2, <2>1
    <3> QED BY <1>6, <3>1 DEF Good, Tracks, IdsUsed
  <2>2. CASE j > n
    <3>1. j - n \in 1..c /\ n + (j - n) = j
      BY <1>2, <2>2
    <3>2. out[j].calls = <<>>
      BY <1>2, <3>1
    <3>3. k \in DOMAIN (<<>>)
      BY <1>6, <3>2
    <3> QED BY <3>3
  <2> QED BY <1>2, <2>1, <2>2
<1>7. Tracks(u)
    BY <1>4, <1>5, <1>6 DEF Good, Tracks, IdsUsed
<1> QED BY <1>3, <1>4, <1>7 DEF Quiet, u

\* flush_pending() ends a turn.
LEMMA FlushedIsQuiet == ASSUME NEW t, Good(t) PROVE Quiet(Flushed(t))
<1>1. t \in LoopStates
    BY DEF Good, Tracks
<1>2. CASE t.pending = <<>>
    BY <1>2, QuietIsGood DEF Good, Flushed, Quiet
<1>3. CASE t.pending # <<>>
  <2> DEFINE results == [i \in DOMAIN t.pending |-> Message("tool", <<>>, t.pending[i].id, ResultOf(t, i))]
  <2>1. Flushed(t) = [t EXCEPT !.out = t.out \o results, !.pending = <<>>, !.anonymous = <<>>]
    BY <1>3 DEF Flushed, ResultOf
  <2>2. Answered(t, results)
    BY <1>1, ResultOfType DEF Answered
  <2>3. <<>> \in Seq(Int)
    OBVIOUS
  <2> HIDE DEF results
  <2>4. Flushed(t) = Over(t, results, <<>>)
    BY <1>1, <2>1 DEF LoopStates, Over
  <2> QED BY <2>2, <2>3, <2>4, OverIsQuiet
<1> QED BY <1>2, <1>3

\* Nor does an answer that may end the turn undo it (the length check before
\* flush_pending()).
LEMMA FlushedIfWholeIsGood == ASSUME NEW t, Good(t) PROVE Good(FlushedIfWhole(t))
    BY FlushedIsQuiet, QuietIsGood DEF FlushedIfWhole, Quiet

-----------------------------------------------------------------------------
\* While a turn takes its calls: their ids are in use, each once, and by none of
\* the turns before.
Taking(t) ==
    /\ Tracks(t) /\ IsStrict(t.out)
    /\ \A k \in DOMAIN t.pending : t.pending[k].id \in t.used
    /\ \A k, l \in DOMAIN t.pending : t.pending[k].id = t.pending[l].id => k = l
    /\ \A j \in DOMAIN t.out : \A k \in DOMAIN t.out[j].calls : \A l \in DOMAIN t.pending :
         t.out[j].calls[k] # t.pending[l].id

\* A turn begins where nothing is pending.
LEMMA QuietTakes == ASSUME NEW t, Quiet(t) PROVE Taking(t)
<1>1. DOMAIN t.pending = {}
    BY DEF Quiet
<1> QED BY <1>1 DEF Quiet, Taking

\* A call more has an id of its own.
LEMMA TakingGoesOn ==
    ASSUME NEW t, Taking(t), NEW raw \in Nat
    PROVE  /\ Taking(TakesCall(t, raw))
           /\ TakesCall(t, raw).out = t.out /\ TakesCall(t, raw).anonymous = t.anonymous
           /\ TakesCall(t, raw).pending = Append(t.pending, [id |-> FreshId(t, raw).id, raw |-> raw, body |-> 0])
           /\ TakesCall(t, raw).used = t.used \cup {FreshId(t, raw).id}
           /\ TakesCall(t, raw).counter = FreshId(t, raw).counter
<1> DEFINE fresh == FreshId(t, raw)
           call == [id |-> fresh.id, raw |-> raw, body |-> 0]
           u == TakesCall(t, raw)
           c == Len(t.pending)
<1>1. t \in LoopStates /\ IsFiniteSet(t.used) /\ 0 \notin t.used /\ IdsUsed(t) /\ Tracks(t)
    BY DEF Taking, Tracks
<1>2. fresh.id \in Nat /\ fresh.id # 0 /\ fresh.id \notin t.used /\ fresh.counter \in Nat
    BY <1>1, FreshIsNew
<1>3. u = [Takes(t, fresh) EXCEPT !.pending = Append(@, call)]
    BY DEF TakesCall
<1> HIDE DEF fresh, u
<1>4. u = [out |-> t.out, used |-> t.used \cup {fresh.id}, counter |-> fresh.counter,
           pending |-> Append(t.pending, call), anonymous |-> t.anonymous]
    BY <1>1, <1>3 DEF Takes, LoopStates
<1>5. call \in PendingCall
    BY <1>2 DEF PendingCall
<1>6. /\ t.pending \in Seq(PendingCall) /\ c \in Nat /\ DOMAIN t.pending = 1..c
      /\ Append(t.pending, call) \in Seq(PendingCall) /\ DOMAIN Append(t.pending, call) = 1..(c + 1)
      /\ \A k \in 1..c : Append(t.pending, call)[k] = t.pending[k]
      /\ Append(t.pending, call)[c + 1] = call
    BY <1>1, <1>5, LoopStateIs
<1>7. u \in LoopStates
    BY <1>1, <1>2, <1>4, <1>6, LoopStateIs DEF LoopStates
<1>8. IsFiniteSet(u.used) /\ 0 \notin u.used
    BY <1>1, <1>2, <1>4, FS_AddElement
<1>9. Tracks(u)
    BY <1>1, <1>4, <1>7, <1>8 DEF Tracks, IdsUsed
<1> DEFINE more == Append(t.pending, call)
<1>10. call.id = fresh.id
    OBVIOUS
<1> HIDE DEF more, call, c
<1>11. \A k \in DOMAIN more : (k \in DOMAIN t.pending /\ more[k] = t.pending[k]) \/ (k = c + 1 /\ more[k].id = fresh.id)
    BY <1>6, <1>10 DEF more
<1>12. \A k \in DOMAIN t.pending : t.pending[k].id \in t.used
    BY DEF Taking
<1>13. \A k \in DOMAIN more : more[k].id \in u.used
    BY <1>4, <1>11, <1>12
<1>14. \A k, l \in DOMAIN more : more[k].id = more[l].id => k = l
    BY <1>2, <1>11, <1>12 DEF Taking
<1>15. \A j \in DOMAIN t.out : \A k \in DOMAIN t.out[j].calls : \A l \in DOMAIN more :
         t.out[j].calls[k] # more[l].id
    BY <1>1, <1>2, <1>11 DEF Taking, IdsUsed
<1>16. u.out = t.out /\ u.pending = more
    BY <1>4 DEF more
<1>17. IsStrict(u.out)
    BY <1>16 DEF Taking
<1>18. Taking(u)
    BY <1>9, <1>13, <1>14, <1>15, <1>16, <1>17 DEF Taking
<1> QED BY <1>4, <1>18 DEF u, fresh, call

\* A turn that has taken its calls is out.
LEMMA TurnIsOut ==
    ASSUME NEW t, Taking(t), NEW m, m \in AnyMessage, m.role # "tool",
           m.calls = [i \in DOMAIN t.pending |-> t.pending[i].id]
    PROVE  Good([t EXCEPT !.out = Append(@, m)])
<1> DEFINE n == Len(t.out)
           c == Len(t.pending)
           u == [t EXCEPT !.out = Append(@, m)]
           all == Closing(u)
<1>1. t \in LoopStates /\ Tracks(t) /\ IsStrict(t.out)
    BY DEF Taking, Tracks
<1>2. /\ n \in Nat /\ t.out \in Seq(AnyMessage) /\ DOMAIN t.out = 1..n
      /\ c \in Nat /\ t.pending \in Seq(PendingCall) /\ DOMAIN t.pending = 1..c
    BY <1>1, LoopStateIs, LenProperties
<1>3. /\ Append(t.out, m) \in Seq(AnyMessage) /\ Len(Append(t.out, m)) = n + 1
      /\ (\A i \in 1..n : Append(t.out, m)[i] = t.out[i]) /\ Append(t.out, m)[n + 1] = m
    BY <1>2
<1>4. u = [out |-> Append(t.out, m), used |-> t.used, counter |-> t.counter, pending |-> t.pending,
           anonymous |-> t.anonymous]
  <2> DEFINE out == Append(t.out, m)
  <2> HIDE DEF out
  <2>1. [t EXCEPT !.out = out] = [out |-> out, used |-> t.used, counter |-> t.counter, pending |-> t.pending,
                                  anonymous |-> t.anonymous]
    BY <1>1 DEF LoopStates
  <2> QED BY <2>1 DEF out
<1>5. u \in LoopStates
  <2> HIDE DEF u
  <2> QED BY <1>1, <1>3, <1>4, LoopStateIs DEF LoopStates
<1>6. m.calls \in Seq(Nat) /\ Len(m.calls) = c /\ \A k \in 1..c : m.calls[k] = t.pending[k].id
  <2>1. m.calls \in Seq(Nat)
    BY DEF AnyMessage
  <2>2. DOMAIN m.calls = 1..c /\ \A k \in 1..c : m.calls[k] = t.pending[k].id
    BY <1>2
  <2> HIDE DEF c
  <2> QED BY <1>2, <2>1, <2>2, LenProperties
<1>7. Standins(u) = Standins(t) /\ u.pending = t.pending /\ u.out = Append(t.out, m) /\ u.used = t.used
    BY <1>4 DEF Standins
<1>8. /\ all \in Seq(AnyMessage) /\ Len(all) = n + 1 + c
      /\ \A i \in 1..(n + 1) : all[i] = Append(t.out, m)[i]
      /\ \A k \in 1..c : all[n + 1 + k].role = "tool" /\ all[n + 1 + k].id = t.pending[k].id
                           /\ all[n + 1 + k].calls = <<>>
  <2>1. Answered(u, Standins(u))
    BY <1>5, StandinsAnswer
  <2> DEFINE p == Len(u.out)
             d == Len(u.pending)
  <2>2. p = n + 1 /\ d = c
    BY <1>3, <1>7
  <2> HIDE DEF u
  <2>3. /\ all \in Seq(AnyMessage) /\ Len(all) = p + d
        /\ \A i \in 1..p : all[i] = u.out[i]
        /\ \A k \in 1..d : /\ all[p + k].role = "tool" /\ all[p + k].id = u.pending[k].id
                           /\ all[p + k].calls = <<>>
    <3> DEFINE results == Standins(u)
    <3>1. all = u.out \o results /\ Answered(u, results)
      BY <2>1 DEF Closing
    <3> HIDE DEF results
    <3>2. /\ u.out \o results \in Seq(AnyMessage) /\ Len(u.out \o results) = p + d
          /\ \A i \in 1..p : (u.out \o results)[i] = u.out[i]
          /\ \A k \in 1..d : /\ (u.out \o results)[p + k].role = "tool"
                             /\ (u.out \o results)[p + k].id = u.pending[k].id
                             /\ (u.out \o results)[p + k].calls = <<>>
      BY ONLY <1>5, <3>1, AnsweredType
    <3> HIDE DEF all, p, d
    <3> QED BY <3>1, <3>2
  <2> HIDE DEF n, c, p, d, all
  <2> QED BY <1>7, <2>2, <2>3
<1> HIDE DEF u, all
<1>9. Adds(t.out, m, all)
  <2> HIDE DEF n, c
  <2>1. \A i \in 1..n : i \in 1..(n + 1) /\ all[i] = t.out[i]
    BY <1>2, <1>3, <1>8
  <2>2. n + 1 \in 1..(n + 1) /\ all[n + 1] = m
    BY <1>2, <1>3, <1>8
  <2>3. /\ Len(all) = n + 1 + c
        /\ \A i \in 1..n : /\ all[i].role = t.out[i].role /\ all[i].id = t.out[i].id
                           /\ all[i].calls = t.out[i].calls
        /\ all[n + 1].role # "tool" /\ all[n + 1].calls = m.calls
    BY <1>8, <2>1, <2>2
  <2>4. \A k \in 1..c : all[n + 1 + k].role = "tool" /\ all[n + 1 + k].id = m.calls[k]
                           /\ all[n + 1 + k].calls = <<>>
    BY <1>6, <1>8
  <2>5. c = Len(m.calls)
    BY <1>6
  <2> QED BY <2>3, <2>4, <2>5 DEF Adds, n
<1>10. NewCalls(t.out, m)
  <2>1. DOMAIN m.calls = DOMAIN t.pending /\ \A k \in DOMAIN t.pending : m.calls[k] = t.pending[k].id
    OBVIOUS
  <2>2. \A k \in DOMAIN t.pending : t.pending[k].id # 0
    BY DEF Taking, Tracks
  <2> QED BY <2>1, <2>2 DEF NewCalls, Taking
<1>11. IsStrict(all)
    BY <1>1, <1>2, <1>6, <1>8, <1>9, <1>10, AddedIsStrict
<1>12. ASSUME NEW j \in DOMAIN u.out, NEW k \in DOMAIN u.out[j].calls
       PROVE  u.out[j].calls[k] \in u.used
  <2>1. DOMAIN u.out = 1..(n + 1)
    BY <1>3, <1>7
  <2> HIDE DEF n, c
  <2>2. CASE j \in 1..n
    <3>1. j \in DOMAIN t.out /\ u.out[j] = t.out[j]
      BY <1>2, <1>3, <1>7, <2>2
    <3> QED BY <1>1, <1>7, <1>12, <3>1 DEF Tracks, IdsUsed
  <2>3. CASE j = n + 1
    <3>1. u.out[j] = m
      BY <1>3, <1>7, <2>3
    <3>2. k \in DOMAIN t.pending /\ u.out[j].calls[k] = t.pending[k].id
      BY <1>12, <3>1
    <3> QED BY <1>7, <3>2 DEF Taking
  <2> QED BY <1>2, <2>1, <2>2, <2>3
<1>13. Tracks(u)
    BY <1>1, <1>5, <1>7, <1>12 DEF Tracks, IdsUsed
<1> QED BY <1>11, <1>13 DEF Good, all, u

\* emit_orphan() leaves nothing pending.
LEMMA OrphanIsQuiet ==
    ASSUME NEW t, Quiet(t), NEW m, m.id \in Nat, m.body \in Int
    PROVE  Quiet(Orphan(t, m))
<1> DEFINE fresh == FreshId(t, m.id)
           call == [id |-> fresh.id, raw |-> m.id, body |-> 0]
           u == TakesCall(t, m.id)
           turn == Message("assistant", <<fresh.id>>, 0, 0)
           result == Message("tool", <<>>, fresh.id, m.body)
           v == [u EXCEPT !.out = Append(@, turn)]
           results == <<result>>
<1>1. t \in LoopStates /\ Tracks(t) /\ t.pending = <<>>
    BY DEF Quiet, Tracks
<1>2. fresh.id \in Nat /\ fresh.counter \in Nat
    BY <1>1, FreshIsNew
<1>3. /\ Taking(u) /\ u.out = t.out /\ u.anonymous = t.anonymous /\ u.pending = <<call>>
      /\ u.used = t.used \cup {fresh.id} /\ u.counter = fresh.counter
    BY <1>1, QuietTakes, TakingGoesOn
<1>4. u \in LoopStates
    BY <1>3 DEF Taking, Tracks
<1> HIDE DEF u
<1>5. turn \in AnyMessage /\ turn.role # "tool" /\ turn.calls = <<fresh.id>>
  <2>1. <<fresh.id>> \in Seq(Nat)
    BY <1>2
  <2> QED BY <2>1 DEF Message, AnyMessage
<1>6. turn.calls = [i \in DOMAIN u.pending |-> u.pending[i].id]
  <2>1. call.id = fresh.id
    OBVIOUS
  <2>2. DOMAIN u.pending = {1} /\ u.pending[1] = call
    BY <1>3
  <2> HIDE DEF call
  <2>3. \A i \in DOMAIN u.pending : u.pending[i].id = fresh.id
    BY <2>1, <2>2
  <2>4. [i \in DOMAIN u.pending |-> u.pending[i].id] = [i \in {1} |-> fresh.id]
    BY <2>2, <2>3
  <2>5. <<fresh.id>> = [i \in {1} |-> fresh.id]
    OBVIOUS
  <2> QED BY <1>5, <2>4, <2>5
<1> HIDE DEF turn
<1>7. Good(v)
    BY <1>3, <1>5, <1>6, TurnIsOut
<1>8. v = [out |-> Append(t.out, turn), used |-> t.used \cup {fresh.id}, counter |-> fresh.counter,
           pending |-> <<call>>, anonymous |-> t.anonymous]
  <2> DEFINE out == Append(t.out, turn)
  <2> HIDE DEF out, call
  <2>1. [u EXCEPT !.out = out] = [out |-> out, used |-> t.used \cup {fresh.id}, counter |-> fresh.counter,
           pending |-> <<call>>, anonymous |-> t.anonymous]
    <3>1. u = [out |-> t.out, used |-> t.used \cup {fresh.id}, counter |-> fresh.counter,
               pending |-> <<call>>, anonymous |-> t.anonymous]
      BY <1>3, <1>4, LoopStateIs
    <3> DEFINE used == t.used \cup {fresh.id}
               pending == <<call>>
    <3> HIDE DEF used, pending
    <3>2. u = [out |-> t.out, used |-> used, counter |-> fresh.counter, pending |-> pending,
               anonymous |-> t.anonymous]
      BY <3>1 DEF used, pending
    <3>3. [u EXCEPT !.out = out] = [out |-> out, used |-> used, counter |-> fresh.counter,
                                    pending |-> pending, anonymous |-> t.anonymous]
      BY <3>2
    <3> QED BY <3>3 DEF used, pending
  <2> QED BY <1>3, <2>1 DEF out
<1> HIDE DEF v
<1>9. Answered(v, results)
  <2>1. DOMAIN v.pending = {1} /\ v.pending[1].id = fresh.id
    BY <1>8
  <2>2. DOMAIN results = {1} /\ results[1] = result /\ results = [i \in {1} |-> results[i]]
    OBVIOUS
  <2> QED BY <2>1, <2>2 DEF Answered
<1>10. t.anonymous \in Seq(Int) /\ t.out \in Seq(AnyMessage)
    BY <1>1, LoopStateIs
<1>11. result \in AnyMessage
    BY <1>2, ResultType
<1> HIDE DEF fresh, result
<1>12. Append(t.out, turn) \o <<result>> = t.out \o <<turn, result>>
    BY <1>5, <1>10, <1>11
<1>13. Orphan(t, m) = [Takes(t, fresh) EXCEPT !.out = @ \o <<turn, result>>]
    BY DEF Orphan, fresh, turn, result
<1>14. Orphan(t, m) = [out |-> t.out \o <<turn, result>>, used |-> t.used \cup {fresh.id},
                       counter |-> fresh.counter, pending |-> <<>>, anonymous |-> t.anonymous]
    BY <1>1, <1>13 DEF Takes, LoopStates
<1>15. Over(v, results, t.anonymous) = Orphan(t, m)
    BY <1>8, <1>12, <1>14 DEF Over
<1> HIDE DEF results
<1> QED BY <1>7, <1>9, <1>10, <1>15, OverIsQuiet

\* What changes no id of a pending call, and nothing that is out, is as good.
LEMMA SameIds ==
    ASSUME NEW t, Good(t), NEW u, u \in LoopStates, u.out = t.out, u.used = t.used,
           DOMAIN u.pending = DOMAIN t.pending, \A i \in DOMAIN t.pending : u.pending[i].id = t.pending[i].id
    PROVE  Good(u)
<1>1. Standins(u) = Standins(t)
    BY DEF Standins
<1> QED BY <1>1 DEF Good, Tracks, IdsUsed, Closing

\* A result is taken, by the active turn or as one without a call.
LEMMA AnswerIsGood ==
    ASSUME NEW t, Good(t), NEW m, m \in AnyMessage
    PROVE  Good(Answer(t, m))
<1>1. t \in LoopStates /\ m.id \in Nat /\ m.body \in Int
    BY DEF Good, Tracks, AnyMessage
<1>2. /\ t.pending \in Seq(PendingCall) /\ t.anonymous \in Seq(Int)
      /\ Len(t.pending) \in Nat /\ DOMAIN t.pending = 1..Len(t.pending)
    BY <1>1, LoopStateIs, LenProperties
<1>3. CASE m.id = 0 /\ t.pending # <<>>
  <2> DEFINE more == Append(t.anonymous, m.body)
             u == [t EXCEPT !.anonymous = more]
  <2>1. more \in Seq(Int)
    BY <1>1, <1>2
  <2> HIDE DEF more
  <2>2. u = [out |-> t.out, used |-> t.used, counter |-> t.counter, pending |-> t.pending, anonymous |-> more]
    <3>1. t = [out |-> t.out, used |-> t.used, counter |-> t.counter, pending |-> t.pending,
               anonymous |-> t.anonymous]
      BY <1>1, LoopStateIs
    <3> QED BY <3>1
  <2>3. u \in LoopStates /\ u.out = t.out /\ u.used = t.used /\ u.pending = t.pending
    BY <1>1, <2>1, <2>2, LoopStateIs DEF LoopStates
  <2>4. Answer(t, m) = FlushedIfWhole(u)
    BY <1>3 DEF Answer, more
  <2> HIDE DEF u
  <2> QED BY <2>3, <2>4, SameIds, FlushedIfWholeIsGood
<1>4. CASE m.id # 0 /\ Targets(t, m.id) # {}
  <2> DEFINE x == Min(Targets(t, m.id))
             answered == [t.pending EXCEPT ![x].body = m.body]
             u == [t EXCEPT !.pending = answered]
  <2>1. x \in DOMAIN t.pending
    <3>1. Targets(t, m.id) \subseteq Nat /\ Targets(t, m.id) \subseteq DOMAIN t.pending
      BY <1>2 DEF Targets
    <3> QED BY <1>4, <3>1, MinExists
  <2> HIDE DEF x
  <2>2. /\ DOMAIN answered = DOMAIN t.pending
        /\ \A i \in DOMAIN t.pending : answered[i] \in PendingCall /\ answered[i].id = t.pending[i].id
    <3>1. \A i \in DOMAIN t.pending : t.pending[i] \in PendingCall
      BY <1>2, ElementOfSeq
    <3> QED BY <1>1, <2>1, <3>1 DEF PendingCall
  <2>3. answered = [i \in DOMAIN t.pending |-> answered[i]]
    OBVIOUS
  <2> HIDE DEF answered
  <2>4. answered \in Seq(PendingCall)
    <3>1. answered \in [1..Len(t.pending) -> PendingCall]
      BY <1>2, <2>2, <2>3
    <3> QED BY <1>2, <3>1
  <2>5. u = [out |-> t.out, used |-> t.used, counter |-> t.counter, pending |-> answered,
             anonymous |-> t.anonymous]
    BY <1>1 DEF LoopStates
  <2>6. u \in LoopStates /\ u.out = t.out /\ u.used = t.used /\ u.pending = answered
    BY <1>1, <2>4, <2>5, LoopStateIs DEF LoopStates
  <2>7. Answer(t, m) = FlushedIfWhole(u)
    <3>1. [t EXCEPT !.pending[x].body = m.body] = u
      BY DEF answered
    <3> QED BY <1>4, <3>1 DEF Answer, x
  <2> HIDE DEF u
  <2> QED BY <2>2, <2>6, <2>7, SameIds, FlushedIfWholeIsGood
<1>5. CASE ~(m.id = 0 /\ t.pending # <<>>) /\ ~(m.id # 0 /\ Targets(t, m.id) # {})
  <2>1. Answer(t, m) = Orphan(Flushed(t), m)
    BY <1>5 DEF Answer
  <2>2. Quiet(Orphan(Flushed(t), m))
    BY <1>1, FlushedIsQuiet, OrphanIsQuiet
  <2> QED BY <2>1, <2>2, QuietIsGood DEF Quiet
<1> QED BY <1>3, <1>4, <1>5

-----------------------------------------------------------------------------
\* What FoldLeft() computes: over sets of places of a list, the last of them last.
FoldedSoFar(base, step, g, s) == IF s = {} THEN base ELSE step[<<g[s \ {Max(s)}], Max(s)>>]
FoldsOver(n, base, step, g) == \A s \in SUBSET (1..n) : g[s] = FoldedSoFar(base, step, g, s)

\* What it computes exists, by the smallest set of places that has no fold.
LEMMA FoldOverListExists ==
    ASSUME NEW n, NEW T, NEW base, NEW step, IsLoop(n, T, base, step)
    PROVE  \E g \in [SUBSET (1..n) -> T] : FoldsOver(n, base, step, g)
<1> DEFINE o == [base |-> base, step |-> step, pick |-> [s \in SUBSET (1..n) |-> Max(s)]]
<1>1. IsFiniteSet(1..n)
    BY FS_Interval DEF IsLoop
<1>2. IsFold(o, 1..n, T)
    BY <1>1, MaxIsIn DEF IsFold, IsLoop
<1>3. \A g : \A s \in SUBSET (1..n) : Folded(o, g, s) = FoldedSoFar(base, step, g, s)
    BY DEF Folded, FoldedSoFar
<1> HIDE DEF o
<1>4. PICK g \in [SUBSET (1..n) -> T] : Folds(o, g, 1..n)
    BY <1>2, FoldExists
<1>5. \A s \in SUBSET (1..n) : g[s] = Folded(o, g, s)
    BY <1>4 DEF Folds
<1> QED BY <1>3, <1>5 DEF FoldsOver

\* By the smallest number for which it would not hold.
LEMMA ToTheEnd ==
    ASSUME NEW n \in Nat, NEW S, 0 \in S, \A k \in 1..n : k - 1 \in S => k \in S
    PROVE  \A k \in 0..n : k \in S
<1> DEFINE Bad == (0..n) \ S
<1> SUFFICES ASSUME Bad # {} PROVE FALSE
    OBVIOUS
<1>1. Bad \subseteq Nat
    OBVIOUS
<1>2. Min(Bad) \in Bad /\ \A m \in Bad : Min(Bad) <= m
  <2> HIDE DEF Bad
  <2> QED BY <1>1, MinExists
<1> DEFINE b == Min(Bad)
<1> HIDE DEF b
<1>3. b \in Bad /\ \A m \in Bad : b <= m
    BY <1>2 DEF b
<1>4. b \in 1..n /\ b - 1 \in 0..n
    BY <1>3
<1>5. b - 1 \notin Bad
    BY <1>3, <1>4
<1> QED BY <1>3, <1>4, <1>5

\* The fold of Turn().
TakesOver(calls, base, g) ==
    g = [s \in SUBSET DOMAIN calls |-> IF s = {} THEN base ELSE TakesCall(g[s \ {Max(s)}], calls[Max(s)])]

\* One call more at a time, from the first to the last.
Taken(calls, base, run) ==
    /\ DOMAIN run = 0..Len(calls) /\ run[0] = base
    /\ \A k \in 1..Len(calls) : run[k] = TakesCall(run[k - 1], calls[k])

\* So FoldLeft() takes them, from a state that is kept to one that is.
LEMMA CallsRun ==
    ASSUME NEW t, Quiet(t), NEW calls, calls \in Seq(Nat)
    PROVE  \E run : /\ Taken(calls, t, run) /\ run[Len(calls)] = FoldLeft(TakesCall, t, calls)
                    /\ \A k \in 0..Len(calls) : run[k] \in LoopStates /\ Taking(run[k])
<1> DEFINE n == Len(calls)
           h == CHOOSE g : TakesOver(calls, t, g)
           T == {u \in LoopStates : Taking(u)}
           step == [ui \in T \X (1..n) |-> TakesCall(ui[1], calls[ui[2]])]
           run == [k \in 0..n |-> h[1..k]]
<1>1. n \in Nat /\ DOMAIN calls = 1..n /\ \A i \in 1..n : calls[i] \in Nat
    BY LenProperties, ElementOfSeq
<1>2. FoldLeft(TakesCall, t, calls) = h[1..n]
    BY <1>1 DEF FoldLeft, MapThenFoldSet, TakesOver
<1>3. t \in T
    BY QuietTakes DEF Quiet, Tracks
<1>4. \A u \in T : \A i \in 1..n : TakesCall(u, calls[i]) \in T
    BY <1>1, TakingGoesOn DEF Taking, Tracks
<1>5. IsLoop(n, T, t, step)
    BY <1>1, <1>3, <1>4 DEF IsLoop
<1> HIDE DEF n, T
<1>6. PICK g \in [SUBSET (1..n) -> T] : FoldsOver(n, t, step, g)
  <2> HIDE DEF step
  <2> QED BY <1>5, FoldOverListExists
<1>7. ASSUME NEW s \in SUBSET (1..n), s # {} PROVE Max(s) \in 1..n /\ s \ {Max(s)} \in SUBSET (1..n)
    BY <1>1, <1>7, MaxIsIn
<1>8. TakesOver(calls, t, g)
  <2>1. ASSUME NEW s \in SUBSET (1..n)
        PROVE  g[s] = IF s = {} THEN t ELSE TakesCall(g[s \ {Max(s)}], calls[Max(s)])
    BY <1>6, <1>7 DEF FoldsOver, FoldedSoFar
  <2> QED BY <1>1, <1>6, <2>1 DEF TakesOver
<1>9. TakesOver(calls, t, h)
    BY <1>8
<1> HIDE DEF h
<1>10. h[{}] = t
    BY <1>9 DEF TakesOver
<1>11. ASSUME NEW k \in 1..n PROVE h[1..k] = TakesCall(h[1..(k - 1)], calls[k])
  <2>1. Max(1..k) = k /\ (1..k) \ {k} = 1..(k - 1)
    BY <1>1, LastIsMax
  <2>2. 1..k \in SUBSET DOMAIN calls /\ 1 \in 1..k
    BY <1>1
  <2>3. h[1..k] = TakesCall(h[(1..k) \ {Max(1..k)}], calls[Max(1..k)])
    BY <1>9, <2>2 DEF TakesOver
  <2> QED BY <2>1, <2>3
<1>12. 1..0 = {}
    OBVIOUS
<1>13. Taken(calls, t, run)
    BY <1>1, <1>10, <1>11, <1>12 DEF Taken, n
<1>14. \A k \in 0..n : run[k] \in T
  <2> DEFINE S == {k \in 0..n : run[k] \in T}
  <2>1. 0 \in S
    BY <1>1, <1>3, <1>10, <1>12
  <2>2. \A k \in 1..n : k - 1 \in S => k \in S
    BY <1>1, <1>4, <1>11
  <2> HIDE DEF S
  <2>3. \A k \in 0..n : k \in S
    BY <1>1, <2>1, <2>2, ToTheEnd
  <2> QED BY <2>3 DEF S
<1>15. run[n] = FoldLeft(TakesCall, t, calls)
    BY <1>1, <1>2
<1> QED BY <1>13, <1>14, <1>15 DEF n, T

\* A turn that takes all its calls is as good as taking one.
LEMMA AllCallsTaken ==
    ASSUME NEW t, Quiet(t), NEW calls, calls \in Seq(Nat)
    PROVE  Taking(FoldLeft(TakesCall, t, calls))
<1>1. Len(calls) \in 0..Len(calls)
    BY LenProperties
<1> QED BY <1>1, CallsRun

\* Any other message ends the active turn, and is out with its calls.
LEMMA TurnIsGood ==
    ASSUME NEW t, Good(t), NEW m, m \in AnyMessage, m.role # "tool"
    PROVE  Good(Turn(t, m))
<1> DEFINE turn == FoldLeft(TakesCall, Flushed(t), m.calls)
           ids == [i \in DOMAIN turn.pending |-> turn.pending[i].id]
           said == [m EXCEPT !.calls = ids]
<1>1. Taking(turn)
  <2>1. m.calls \in Seq(Nat)
    BY DEF AnyMessage
  <2> QED BY <2>1, FlushedIsQuiet, AllCallsTaken
<1>2. Turn(t, m) = [turn EXCEPT !.out = Append(@, said)]
    BY DEF Turn
<1> HIDE DEF turn
<1>3. turn.pending \in Seq(PendingCall) /\ Len(turn.pending) \in Nat
      /\ DOMAIN turn.pending = 1..Len(turn.pending)
    BY <1>1, LoopStateIs, LenProperties DEF Taking, Tracks
<1>4. ids \in Seq(Nat)
  <2>1. \A i \in 1..Len(turn.pending) : turn.pending[i].id \in Nat
    <3>1. \A i \in 1..Len(turn.pending) : turn.pending[i] \in PendingCall
      BY <1>3, ElementOfSeq
    <3> QED BY <3>1 DEF PendingCall
  <2> QED BY <1>3, <2>1
<1> HIDE DEF ids
<1>5. said \in AnyMessage /\ said.role # "tool" /\ said.calls = ids
    BY <1>4 DEF AnyMessage
<1> HIDE DEF said
<1> QED BY <1>1, <1>2, <1>5, TurnIsOut DEF ids

\* The fold of Normalized().
Step(t, m) == IF m.role = "tool" THEN Answer(t, m) ELSE Turn(t, m)
Normalizes(messages, g) ==
    g = [s \in SUBSET DOMAIN messages |->
           IF s = {} THEN Start ELSE Step(g[s \ {Max(s)}], messages[Max(s)])]

\* One message more at a time, from the first to the last.
Repaired(messages, run) ==
    /\ DOMAIN run = 0..Len(messages) /\ run[0] = Start
    /\ \A k \in 1..Len(messages) : run[k] = Step(run[k - 1], messages[k])

\* Nothing is wrong before anything is heard.
LEMMA StartIsGood == Start \in LoopStates /\ Good(Start)
<1>1. Start \in LoopStates
  <2>1. <<>> \in Seq(AnyMessage) /\ <<>> \in Seq(PendingCall) /\ <<>> \in Seq(Int)
    OBVIOUS
  <2> QED BY <2>1 DEF Start, LoopStates
<1>2. Tracks(Start)
    BY <1>1, FS_EmptySet DEF Tracks, Start, IdsUsed
<1>3. IsStrict(Start.out)
    BY DEF Start, IsStrict, Results
<1> QED BY <1>1, <1>2, <1>3, QuietIsGood DEF Start

\* So normalize_tool_protocol() hears them, and each step leaves what the next needs.
LEMMA NormalizedRun ==
    ASSUME NEW messages, messages \in Seq(AnyMessage)
    PROVE  \E run : /\ Repaired(messages, run) /\ Normalized(messages) = Flushed(run[Len(messages)]).out
                    /\ \A k \in 0..Len(messages) : run[k] \in LoopStates /\ Good(run[k])
<1> DEFINE n == Len(messages)
           h == CHOOSE g : Normalizes(messages, g)
           T == {t \in LoopStates : Good(t)}
           step == [ti \in T \X (1..n) |-> Step(ti[1], messages[ti[2]])]
           run == [k \in 0..n |-> h[1..k]]
<1>1. n \in Nat /\ DOMAIN messages = 1..n /\ \A i \in 1..n : messages[i] \in AnyMessage
    BY LenProperties, ElementOfSeq
<1>2. Normalized(messages) = Flushed(h[1..n]).out
    BY <1>1 DEF Normalized, FoldLeft, MapThenFoldSet, Normalizes, Step
<1>3. Start \in T
    BY StartIsGood
<1>4. \A t \in T : \A i \in 1..n : Step(t, messages[i]) \in T
    BY <1>1, AnswerIsGood, TurnIsGood DEF Step, Good, Tracks
<1>5. IsLoop(n, T, Start, step)
    BY <1>1, <1>3, <1>4 DEF IsLoop
<1> HIDE DEF n, T
<1>6. PICK g \in [SUBSET (1..n) -> T] : FoldsOver(n, Start, step, g)
  <2> HIDE DEF step
  <2> QED BY <1>5, FoldOverListExists
<1>7. ASSUME NEW s \in SUBSET (1..n), s # {} PROVE Max(s) \in 1..n /\ s \ {Max(s)} \in SUBSET (1..n)
    BY <1>1, <1>7, MaxIsIn
<1>8. Normalizes(messages, g)
  <2>1. ASSUME NEW s \in SUBSET (1..n)
        PROVE  g[s] = IF s = {} THEN Start ELSE Step(g[s \ {Max(s)}], messages[Max(s)])
    BY <1>6, <1>7 DEF FoldsOver, FoldedSoFar
  <2> QED BY <1>1, <1>6, <2>1 DEF Normalizes
<1>9. Normalizes(messages, h)
    BY <1>8
<1> HIDE DEF h
<1>10. h[{}] = Start
    BY <1>9 DEF Normalizes
<1>11. ASSUME NEW k \in 1..n PROVE h[1..k] = Step(h[1..(k - 1)], messages[k])
  <2>1. Max(1..k) = k /\ (1..k) \ {k} = 1..(k - 1)
    BY <1>1, LastIsMax
  <2>2. 1..k \in SUBSET DOMAIN messages /\ 1 \in 1..k
    BY <1>1
  <2>3. h[1..k] = Step(h[(1..k) \ {Max(1..k)}], messages[Max(1..k)])
    BY <1>9, <2>2 DEF Normalizes
  <2> QED BY <2>1, <2>3
<1>12. 1..0 = {}
    OBVIOUS
<1>13. Repaired(messages, run)
    BY <1>1, <1>10, <1>11, <1>12 DEF Repaired, n
<1>14. \A k \in 0..n : run[k] \in T
  <2> DEFINE S == {k \in 0..n : run[k] \in T}
  <2>1. 0 \in S
    BY <1>1, <1>3, <1>10, <1>12
  <2>2. \A k \in 1..n : k - 1 \in S => k \in S
    BY <1>1, <1>4, <1>11
  <2> HIDE DEF S
  <2>3. \A k \in 0..n : k \in S
    BY <1>1, <2>1, <2>2, ToTheEnd
  <2> QED BY <2>3 DEF S
<1>15. Normalized(messages) = Flushed(run[n]).out
    BY <1>1, <1>2
<1> QED BY <1>13, <1>14, <1>15 DEF n, T

\* Of every conversation, whatever its ids, the repaired one is strict
\* (normalize_tool_protocol()).
THEOREM NormalizedIsStrict ==
    ASSUME NEW messages, messages \in Seq(AnyMessage)
    PROVE  IsStrict(Normalized(messages)) /\ Normalized(messages) \in Seq(AnyMessage)
<1> DEFINE n == Len(messages)
<1>1. n \in 0..n
    BY LenProperties
<1>2. PICK run : /\ Normalized(messages) = Flushed(run[n]).out
                 /\ \A k \in 0..n : run[k] \in LoopStates /\ Good(run[k])
    BY NormalizedRun
<1>3. Quiet(Flushed(run[n]))
    BY <1>1, <1>2, FlushedIsQuiet
<1> QED BY <1>2, <1>3, LoopStateIs DEF Quiet, Tracks

-----------------------------------------------------------------------------
\* The fold of Raw(): what an item makes of the messages before it.
Comes(items, raw, i) ==
    CASE items[i].role = "call" /\ i > 1 /\ items[i - 1].role = "call" ->
           [raw EXCEPT ![Len(raw)].calls = Append(@, items[i].id)]
      [] items[i].role = "call" /\ (i = 1 \/ items[i - 1].role # "call") ->
           Append(raw, Message("assistant", <<items[i].id>>, 0, items[i].body))
      [] items[i].role = "empty" -> raw
      [] OTHER -> Append(raw, items[i])
PlacesOf(items) == [i \in DOMAIN items |-> i]
GathersOver(items, g) ==
    g = [s \in SUBSET DOMAIN PlacesOf(items) |->
           IF s = {} THEN <<>> ELSE Comes(items, g[s \ {Max(s)}], PlacesOf(items)[Max(s)])]

\* What the Responses API can say.
AnyItem == [role : {"user", "assistant", "tool", "call", "empty"}, calls : Seq(Nat), id : Nat, body : Int]

\* An item more leaves a list of messages.
LEMMA ComesType ==
    ASSUME NEW items, items \in Seq(AnyItem), NEW raw \in Seq(AnyMessage), NEW i \in DOMAIN items
    PROVE  Comes(items, raw, i) \in Seq(AnyMessage)
<1>1. items[i] \in AnyItem /\ i \in Nat /\ i > 0
    BY LenProperties, ElementOfSeq
<1>2. CASE items[i].role \notin {"call", "empty"}
  <2>1. items[i] \in AnyMessage
    BY <1>1, <1>2 DEF AnyItem, AnyMessage
  <2> QED BY <1>2, <2>1 DEF Comes
<1>3. CASE items[i].role = "call" /\ i > 1 /\ items[i - 1].role = "call"
  <2> DEFINE n == Len(raw)
             more == [raw EXCEPT ![n].calls = Append(@, items[i].id)]
  <2>1. n \in Nat /\ DOMAIN raw = 1..n /\ \A k \in 1..n : raw[k] \in AnyMessage
    BY LenProperties, ElementOfSeq
  <2>2. items[i].id \in Nat
    BY <1>1 DEF AnyItem
  <2>3. \A k \in 1..n : Append(raw[k].calls, items[i].id) \in Seq(Nat)
    BY <2>1, <2>2 DEF AnyMessage
  <2>4. \A k \in 1..n : more[k] \in AnyMessage
    BY <2>1, <2>3 DEF AnyMessage
  <2>5. more \in [1..n -> AnyMessage]
    <3>1. more = [k \in 1..n |-> more[k]]
      BY <2>1
    <3> HIDE DEF more
    <3> QED BY <2>4, <3>1
  <2>6. Comes(items, raw, i) = more
    BY <1>3 DEF Comes
  <2> QED BY <2>1, <2>5, <2>6
<1>4. CASE items[i].role = "call" /\ ~(i > 1 /\ items[i - 1].role = "call")
  <2>1. i = 1 \/ items[i - 1].role # "call"
    BY <1>1, <1>4
  <2>2. Message("assistant", <<items[i].id>>, 0, items[i].body) \in AnyMessage
    <3>1. items[i].id \in Nat /\ items[i].body \in Int
      BY <1>1 DEF AnyItem
    <3>2. <<items[i].id>> \in Seq(Nat)
      BY <3>1
    <3> QED BY <3>1, <3>2 DEF Message, AnyMessage
  <2>3. Comes(items, raw, i) = Append(raw, Message("assistant", <<items[i].id>>, 0, items[i].body))
    BY <1>4, <2>1 DEF Comes
  <2> QED BY <2>2, <2>3
<1>5. CASE items[i].role = "empty"
    BY <1>5 DEF Comes
<1> QED BY <1>2, <1>3, <1>4, <1>5

\* One item more at a time, from the first to the last.
Gathered(items, run) ==
    /\ DOMAIN run = 0..Len(items) /\ run[0] = <<>>
    /\ \A k \in 1..Len(items) : run[k] = Comes(items, run[k - 1], k)

\* So _responses_input_to_messages() takes them, from messages to messages.
LEMMA RawRun ==
    ASSUME NEW items, items \in Seq(AnyItem)
    PROVE  \E run : /\ Gathered(items, run) /\ Raw(items) = run[Len(items)]
                    /\ \A k \in 0..Len(items) : run[k] \in Seq(AnyMessage)
<1> DEFINE n == Len(items)
           h == CHOOSE g : GathersOver(items, g)
           T == Seq(AnyMessage)
           step == [ri \in T \X (1..n) |-> Comes(items, ri[1], ri[2])]
           run == [k \in 0..n |-> h[1..k]]
<1>1. n \in Nat /\ DOMAIN items = 1..n /\ DOMAIN PlacesOf(items) = 1..n /\ \A i \in 1..n : PlacesOf(items)[i] = i
    BY LenProperties DEF PlacesOf
<1>2. Raw(items) = h[DOMAIN PlacesOf(items)]
    BY DEF Raw, FoldLeft, MapThenFoldSet, GathersOver, PlacesOf, Comes
<1>3. <<>> \in T
    OBVIOUS
<1>4. \A r \in T : \A i \in 1..n : Comes(items, r, i) \in T
    BY <1>1, ComesType
<1>5. IsLoop(n, T, <<>>, step)
    BY <1>1, <1>3, <1>4 DEF IsLoop
<1> HIDE DEF n, T
<1>6. PICK g \in [SUBSET (1..n) -> T] : FoldsOver(n, <<>>, step, g)
  <2> HIDE DEF step
  <2> QED BY <1>5, FoldOverListExists
<1>7. ASSUME NEW s \in SUBSET (1..n), s # {} PROVE Max(s) \in 1..n /\ s \ {Max(s)} \in SUBSET (1..n)
    BY <1>1, <1>7, MaxIsIn
<1>8. GathersOver(items, g)
  <2>1. ASSUME NEW s \in SUBSET (1..n)
        PROVE  g[s] = IF s = {} THEN <<>> ELSE Comes(items, g[s \ {Max(s)}], PlacesOf(items)[Max(s)])
    BY <1>1, <1>6, <1>7 DEF FoldsOver, FoldedSoFar
  <2> QED BY <1>1, <1>6, <2>1 DEF GathersOver
<1>9. GathersOver(items, h)
    BY <1>8
<1> HIDE DEF h
<1>10. h[{}] = <<>>
    BY <1>9 DEF GathersOver
<1>11. ASSUME NEW k \in 1..n PROVE h[1..k] = Comes(items, h[1..(k - 1)], k)
  <2>1. Max(1..k) = k /\ (1..k) \ {k} = 1..(k - 1)
    BY <1>1, LastIsMax
  <2>2. 1..k \in SUBSET DOMAIN PlacesOf(items) /\ 1 \in 1..k
    BY <1>1
  <2>3. h[1..k] = Comes(items, h[(1..k) \ {Max(1..k)}], PlacesOf(items)[Max(1..k)])
    BY <1>9, <2>2 DEF GathersOver
  <2> QED BY <1>1, <2>1, <2>3
<1>12. 1..0 = {}
    OBVIOUS
<1>13. Gathered(items, run)
    BY <1>1, <1>10, <1>11, <1>12 DEF Gathered, n
<1>14. \A k \in 0..n : run[k] \in T
  <2> DEFINE S == {k \in 0..n : run[k] \in T}
  <2>1. 0 \in S
    BY <1>1, <1>3, <1>10, <1>12
  <2>2. \A k \in 1..n : k - 1 \in S => k \in S
    BY <1>1, <1>4, <1>11
  <2> HIDE DEF S
  <2>3. \A k \in 0..n : k \in S
    BY <1>1, <2>1, <2>2, ToTheEnd
  <2> QED BY <2>3 DEF S
<1>15. Raw(items) = run[n]
    BY <1>1, <1>2
<1> QED BY <1>13, <1>14, <1>15 DEF n, T

\* Items become messages (_responses_input_to_messages()).
LEMMA RawType ==
    ASSUME NEW items, items \in Seq(AnyItem)
    PROVE  Raw(items) \in Seq(AnyMessage)
<1>1. Len(items) \in 0..Len(items)
    BY LenProperties
<1> QED BY <1>1, RawRun

\* An empty question is a message.
LEMMA SpokenType ==
    ASSUME NEW messages \in Seq(AnyMessage)
    PROVE  Spoken(messages) \in Seq(AnyMessage)
<1>1. Message("user", <<>>, 0, 0) \in AnyMessage
  <2>1. <<>> \in Seq(Nat)
    OBVIOUS
  <2> QED BY <2>1 DEF Message, AnyMessage
<1> QED BY <1>1 DEF Spoken

-----------------------------------------------------------------------------
\* The conversation is a list of what its API can say.
ToolInv == ToolTypeOK /\ heard \in Seq(AnyItem)

\* Of the chat API it has messages only.
LEMMA LettersType ==
    ASSUME NEW body \in Int
    PROVE  Letters(body) \subseteq AnyItem /\ (api # "responses" => Letters(body) \subseteq AnyMessage)
<1>1. <<>> \in Seq(Nat) /\ 0 \in Nat
    OBVIOUS
<1>2. \A calls \in Turns : calls \in Seq(Nat)
    BY ToolAssumption, SeqMonotonic
<1>3. \A id \in CallIds : id \in Nat
    BY ToolAssumption
<1>4. \A calls \in Seq(Nat) : \A id \in Nat :
        /\ \A role \in {"user", "assistant", "tool", "call", "empty"} : Message(role, calls, id, body) \in AnyItem
        /\ \A role \in {"user", "assistant", "tool"} : Message(role, calls, id, body) \in AnyMessage
    BY DEF Message, AnyItem, AnyMessage
<1>5. \A l \in Letters(body) :
        \/ \E role \in {"user", "assistant"} : l = Message(role, <<>>, 0, body)
        \/ \E id \in CallIds : l = Message("tool", <<>>, id, body)
        \/ api = "responses" /\ \E id \in CallIds : l = Message("call", <<>>, id, body)
        \/ api = "responses" /\ l = Message("empty", <<>>, 0, body)
        \/ \E calls \in Turns : l = Message("assistant", calls, 0, body)
    BY DEF Letters
<1>6. ASSUME NEW l \in Letters(body) PROVE l \in AnyItem /\ (api # "responses" => l \in AnyMessage)
  <2>1. CASE \E role \in {"user", "assistant"} : l = Message(role, <<>>, 0, body)
    BY <1>1, <1>4, <2>1
  <2>2. CASE \E id \in CallIds : l = Message("tool", <<>>, id, body)
    BY <1>1, <1>3, <1>4, <2>2
  <2>3. CASE api = "responses" /\ \E id \in CallIds : l = Message("call", <<>>, id, body)
    BY <1>1, <1>3, <1>4, <2>3
  <2>4. CASE \E calls \in Turns : l = Message("assistant", calls, 0, body)
    BY <1>1, <1>2, <1>4, <2>4
  <2>5. CASE api = "responses" /\ l = Message("empty", <<>>, 0, body)
    BY <1>1, <1>4, <2>5
  <2> QED BY <1>5, <2>1, <2>2, <2>3, <2>4, <2>5
<1> QED BY <1>6

\* It is so before anything is heard.
LEMMA ToolInitInv == ToolInit => ToolInv
<1>1. <<>> \in Seq(AnyItem) /\ Len(<<>>) = 0 /\ DOMAIN (<<>>) = {}
    OBVIOUS
<1> QED BY <1>1, ToolAssumption DEF ToolInit, ToolInv, ToolTypeOK

\* A message more keeps it so.
LEMMA ToolStepInv == ToolInv /\ [ToolNext]_toolVars => ToolInv'
<1> SUFFICES ASSUME ToolInv, [ToolNext]_toolVars PROVE ToolInv'
    OBVIOUS
<1> USE DEF ToolInv, ToolTypeOK
<1>1. CASE ToolNext
  <2> DEFINE n == Len(heard)
  <2>1. PICK m \in Letters(n + 1) : heard' = Append(heard, m) /\ api' = api /\ n < MaxHeard
    BY <1>1 DEF ToolNext, Hears
  <2>2. n \in Nat /\ DOMAIN heard = 1..n
    BY LenProperties
  <2>3. m \in AnyItem
    BY <2>1, <2>2, LettersType
  <2>4. /\ heard' \in Seq(AnyItem) /\ Len(heard') = n + 1 /\ DOMAIN heard' = 1..(n + 1)
        /\ (\A i \in 1..n : heard'[i] = heard[i]) /\ heard'[n + 1] = m
    BY <2>1, <2>2, <2>3
  <2>5. \A i : Letters(i)' = Letters(i)
    BY <2>1 DEF Letters
  <2> HIDE DEF n
  <2>6. \A i \in DOMAIN heard' : heard'[i] \in Letters(i)
    BY <2>1, <2>2, <2>4
  <2> QED BY <2>1, <2>2, <2>4, <2>5, <2>6, ToolAssumption
<1>2. CASE UNCHANGED toolVars
    BY <1>2 DEF toolVars, Letters
<1> QED BY <1>1, <1>2

\* The conversation is of messages that clients send, at every step.
THEOREM ToolTypeCorrect == ToolSpec => []ToolTypeOK
<1>1. ToolSpec => []ToolInv
    BY ToolInitInv, ToolStepInv, PTL DEF ToolSpec
<1> QED BY <1>1, PTL DEF ToolInv

\* "An assistant tool-call turn is immediately followed by exactly one tool result
\* per call, in declaration order", with ids that are not missing and not used
\* twice, and no result stands anywhere else (tool_protocol.py): of every
\* conversation, of any length and with any ids, over both APIs.
THEOREM SentIsStrict == ToolSpec => []Strict
<1>1. ToolInv => Strict
  <2> SUFFICES ASSUME ToolInv PROVE IsStrict(Sent)
    BY DEF Strict
  <2>1. heard \in Seq(AnyItem) /\ \A i \in DOMAIN heard : heard[i] \in Letters(i)
    BY DEF ToolInv, ToolTypeOK
  <2>2. CASE api = "chat"
    <3>1. Len(heard) \in Nat /\ DOMAIN heard = 1..Len(heard) /\ heard = [i \in 1..Len(heard) |-> heard[i]]
      BY <2>1, LenProperties
    <3>2. \A i \in 1..Len(heard) : heard[i] \in AnyMessage
      BY <2>1, <2>2, <3>1, LettersType
    <3>3. heard \in [1..Len(heard) -> AnyMessage]
      BY <3>1, <3>2
    <3>4. heard \in Seq(AnyMessage)
      BY <3>1, <3>3
    <3> QED BY <2>2, <3>4, NormalizedIsStrict DEF Sent
  <2>3. CASE api # "chat"
    <3>1. Raw(heard) \in Seq(AnyMessage)
      BY <2>1, RawType
    <3>2. Spoken(Normalized(Raw(heard))) \in Seq(AnyMessage)
      BY <3>1, NormalizedIsStrict, SpokenType
    <3> QED BY <2>3, <3>2, NormalizedIsStrict DEF Sent
  <2> QED BY <2>2, <2>3
<1>2. ToolSpec => []ToolInv
    BY ToolInitInv, ToolStepInv, PTL DEF ToolSpec
<1> QED BY <1>1, <1>2, PTL

-----------------------------------------------------------------------------
(* What flush_pending() answers the pending calls with *)

\* The rank of a place among those that are picked.
Rank(U, i) == Cardinality(U \cap 1..i)

\* Ranks are numbers up to that of the places picked, in the order of the places.
LEMMA RanksGrow ==
    ASSUME NEW c \in Nat, NEW U \in SUBSET (1..c)
    PROVE  /\ IsFiniteSet(U) /\ Cardinality(U) \in Nat
           /\ \A i \in U : Rank(U, i) \in 1..Cardinality(U)
           /\ \A i, j \in U : i < j => Rank(U, i) < Rank(U, j)
<1>1. IsFiniteSet(U) /\ Cardinality(U) \in Nat
  <2>1. IsFiniteSet(1..c)
    BY FS_Interval
  <2> QED BY <2>1, FS_Subset, FS_CardinalityType
<1>2. ASSUME NEW i \in U
      PROVE  Rank(U, i) \in 1..Cardinality(U)
  <2> DEFINE V == U \cap 1..i
  <2>1. V \subseteq U /\ i \in V
    OBVIOUS
  <2> HIDE DEF V
  <2>2. IsFiniteSet(V) /\ Cardinality(V) \in Nat /\ Cardinality(V) <= Cardinality(U)
    BY <1>1, <2>1, FS_Subset, FS_CardinalityType
  <2>3. Cardinality(V) # 0
    BY <2>1, <2>2, FS_EmptySet
  <2>4. Rank(U, i) = Cardinality(V)
    BY DEF Rank, V
  <2> QED BY <1>1, <2>2, <2>3, <2>4
<1>3. ASSUME NEW i \in U, NEW j \in U, i < j
      PROVE  Rank(U, i) < Rank(U, j)
  <2> DEFINE V == U \cap 1..i
             W == U \cap 1..j
  <2>1. V \subseteq W /\ j \in W /\ j \notin V /\ W \subseteq U
    BY <1>3
  <2> HIDE DEF V, W
  <2>2. IsFiniteSet(W) /\ Cardinality(V) \in Nat /\ Cardinality(W) \in Nat
    BY <1>1, <2>1, FS_Subset, FS_CardinalityType
  <2>3. Cardinality(V) <= Cardinality(W) /\ (Cardinality(V) = Cardinality(W) => V = W)
    BY <2>1, <2>2, FS_Subset
  <2>4. Rank(U, i) = Cardinality(V) /\ Rank(U, j) = Cardinality(W)
    BY DEF Rank, V, W
  <2> QED BY <2>1, <2>2, <2>3, <2>4
<1> QED BY <1>1, <1>2, <1>3

\* Each place picked has a rank of its own.
LEMMA RanksDiffer ==
    ASSUME NEW c \in Nat, NEW U \in SUBSET (1..c), NEW i \in U, NEW j \in U, Rank(U, i) = Rank(U, j)
    PROVE  i = j
<1>1. ~(Rank(U, i) < Rank(U, j)) /\ ~(Rank(U, j) < Rank(U, i))
  <2>1. Rank(U, i) \in 1..Cardinality(U) /\ Cardinality(U) \in Nat
    BY RanksGrow
  <2> QED BY <2>1
<1>2. ~(i < j) /\ ~(j < i)
    BY <1>1, RanksGrow
<1>3. i \in Nat /\ j \in Nat
    OBVIOUS
<1> QED BY <1>2, <1>3

\* And each such number is the rank of one.
LEMMA RanksAreAll ==
    ASSUME NEW c \in Nat, NEW U \in SUBSET (1..c), NEW r \in 1..Cardinality(U)
    PROVE  \E i \in U : Rank(U, i) = r
<1> DEFINE n == Cardinality(U)
           f == [i \in U |-> Rank(U, i)]
           R == 1..n
<1>1. IsFiniteSet(U) /\ n \in Nat /\ f \in [U -> R]
    BY RanksGrow
<1>2. \A i, j \in U : f[i] = f[j] => i = j
    BY RanksDiffer
<1>3. f \in Injection(U, R)
  <2> HIDE DEF f, R
  <2> QED BY <1>1, <1>2 DEF Injection, IsInjective
<1>4. IsFiniteSet(R) /\ Cardinality(R) = n
  <2>1. IsFiniteSet(1..n) /\ Cardinality(1..n) = n
    BY <1>1, FS_Interval
  <2> QED BY <2>1
<1>5. f \in Surjection(U, R)
  <2> HIDE DEF f, R, n
  <2> QED BY <1>1, <1>3, <1>4, FS_Injection DEF n
<1>6. PICK i \in U : f[i] = r
  <2> HIDE DEF f
  <2> QED BY <1>5 DEF Surjection
<1> QED BY <1>6

-----------------------------------------------------------------------------
(* What becomes of a message *)

\* A message that is out, as it came.
From(x, m) == x.body = m.body /\ x.role = m.role /\ Len(x.calls) = Len(m.calls)

\* Each message has a body of its own, later ones a larger one.
Numbered(messages) ==
    /\ \A i \in DOMAIN messages : messages[i].body > 0 /\ (messages[i].role = "tool" => messages[i].calls = <<>>)
    /\ \A i, j \in DOMAIN messages : i < j => messages[i].body < messages[j].body

\* The bodies that are out, those of results that wait for the end of their turn,
\* and those of results that wait and named no call.
Said(t) == {t.out[i].body : i \in DOMAIN t.out}
Waiting(t) == {t.pending[i].body : i \in DOMAIN t.pending} \ {0}
Unnamed(t) == {t.anonymous[i] : i \in DOMAIN t.anonymous}
Bodies(messages, k) == {messages[p].body : p \in 1..k}
ToolBodies(messages, k) == {messages[p].body : p \in {q \in 1..k : messages[q].role = "tool"}}

\* No body is at two places; what is out, what waits and what waits unnamed differ.
Once(t) ==
    /\ \A i, j \in DOMAIN t.out : t.out[i].body = t.out[j].body /\ t.out[i].body > 0 => i = j
    /\ \A i, j \in DOMAIN t.pending : t.pending[i].body = t.pending[j].body /\ t.pending[i].body # 0 => i = j
    /\ \A i, j \in DOMAIN t.anonymous : t.anonymous[i] = t.anonymous[j] => i = j
    /\ Said(t) \cap Waiting(t) = {} /\ Said(t) \cap Unnamed(t) = {} /\ Waiting(t) \cap Unnamed(t) = {}

\* They are the bodies of the first k messages, each out as it came, and only
\* results wait.
Whole(t, messages, k) ==
    /\ (Said(t) \ {0, Unavailable}) \cup Waiting(t) \cup Unnamed(t) = Bodies(messages, k)
    /\ \A i \in DOMAIN t.out : t.out[i].body > 0 => \E p \in 1..k : From(t.out[i], messages[p])
    /\ Waiting(t) \cup Unnamed(t) \subseteq ToolBodies(messages, k)

\* The client's messages other than results are out in their order.
InOrder(t) == \A i, j \in DOMAIN t.out :
    /\ i < j
    /\ t.out[i].role # "tool" /\ t.out[i].body # 0
    /\ t.out[j].role # "tool" /\ t.out[j].body # 0
    => t.out[i].body < t.out[j].body

\* The open turn has a call more than results; a result that is out is no turn; and
\* all that is carried from one message to the next.
Room(t) == IF t.pending = <<>> THEN t.anonymous = <<>> ELSE Len(t.anonymous) < Cardinality(Unanswered(t))
Plain(t) == \A i \in DOMAIN t.out : t.out[i].role = "tool" => t.out[i].body # 0 /\ t.out[i].calls = <<>>
Carries(t, messages, k) == Once(t) /\ Whole(t, messages, k) /\ InOrder(t) /\ Plain(t) /\ Room(t)

\* Where the results of a turn are, once it is over.
LEMMA FlushedOut ==
    ASSUME NEW t, t \in LoopStates, t.pending # <<>>
    PROVE  LET u == Flushed(t)
               n == Len(t.out)
               c == Len(t.pending)
           IN  /\ u \in LoopStates
               /\ u.pending = <<>> /\ u.anonymous = <<>> /\ u.used = t.used /\ u.counter = t.counter
               /\ n \in Nat /\ c \in Nat /\ DOMAIN t.out = 1..n /\ DOMAIN t.pending = 1..c
               /\ Len(u.out) = n + c /\ DOMAIN u.out = 1..(n + c)
               /\ \A i \in 1..n : u.out[i] = t.out[i] /\ t.out[i] \in AnyMessage
               /\ \A k \in 1..c : u.out[n + k] = Message("tool", <<>>, t.pending[k].id, ResultOf(t, k))
<1> DEFINE results == [i \in DOMAIN t.pending |-> Message("tool", <<>>, t.pending[i].id, ResultOf(t, i))]
           u == Flushed(t)
           n == Len(t.out)
           c == Len(t.pending)
           all == t.out \o results
<1>1. u = [t EXCEPT !.out = all, !.pending = <<>>, !.anonymous = <<>>]
    BY DEF Flushed, ResultOf
<1>2. Answered(t, results)
    BY ResultOfType DEF Answered
<1>3. \A k \in DOMAIN t.pending : results[k] = Message("tool", <<>>, t.pending[k].id, ResultOf(t, k))
    OBVIOUS
<1>4. DOMAIN results = DOMAIN t.pending
    OBVIOUS
<1> HIDE DEF results, u
<1>5. /\ n \in Nat /\ c \in Nat /\ DOMAIN t.out = 1..n /\ DOMAIN t.pending = 1..c
      /\ all \in Seq(AnyMessage) /\ Len(all) = n + c /\ DOMAIN all = 1..(n + c)
      /\ \A i \in 1..n : all[i] = t.out[i] /\ t.out[i] \in AnyMessage
    BY <1>2, AnsweredType
<1>6. \A k \in 1..c : all[n + k] = results[k]
  <2>1. t.out \in Seq(AnyMessage) /\ results \in Seq(AnyMessage) /\ Len(results) = c
    <3>1. \A k \in 1..c : results[k] \in AnyMessage
      <4>1. \A k \in 1..c : t.pending[k].id \in Nat /\ ResultOf(t, k) \in Int
        <5>1. \A k \in 1..c : t.pending[k] \in PendingCall
          BY <1>5, LoopStateIs, ElementOfSeq
        <5> QED BY <1>5, <5>1, ResultOfType DEF PendingCall
      <4> QED BY <1>3, <1>5, <4>1, ResultType
    <3>2. results \in [1..c -> AnyMessage]
      BY <1>2, <1>5, <3>1 DEF Answered
    <3> HIDE DEF c
    <3> QED BY <1>5, <3>2, LoopStateIs
  <2>2. \A i \in 1..(n + Len(results)) : all[i] = IF i <= n THEN t.out[i] ELSE results[i - n]
    BY ONLY <2>1, ConcatProperties
  <2> HIDE DEF n, c, all
  <2>3. ASSUME NEW k \in 1..c PROVE n + k \in 1..(n + c) /\ ~(n + k <= n) /\ (n + k) - n = k
    BY <1>5
  <2> QED BY <2>1, <2>2, <2>3
<1>7. u = [out |-> all, used |-> t.used, counter |-> t.counter, pending |-> <<>>, anonymous |-> <<>>]
    BY <1>1 DEF LoopStates
<1>8. u \in LoopStates
  <2>1. <<>> \in Seq(PendingCall) /\ <<>> \in Seq(Int)
    OBVIOUS
  <2> HIDE DEF all
  <2> QED BY <1>5, <1>7, <2>1, LoopStateIs DEF LoopStates
<1> HIDE DEF all
<1>9. /\ u.pending = <<>> /\ u.anonymous = <<>> /\ u.used = t.used /\ u.counter = t.counter /\ u.out = all
    BY <1>7
<1>10. \A k \in 1..c : u.out[n + k] = Message("tool", <<>>, t.pending[k].id, ResultOf(t, k))
    BY <1>3, <1>5, <1>6, <1>9
<1> QED BY <1>5, <1>8, <1>9, <1>10 DEF u

\* A call is answered by its own result, else by one that named no call, in the
\* order of those that have none, else by the stand-in.
LEMMA ResultsAre ==
    ASSUME NEW t, t \in LoopStates, NEW i \in DOMAIN t.pending
    PROVE  /\ t.pending[i].body # 0 => ResultOf(t, i) = t.pending[i].body
           /\ t.pending[i].body = 0 =>
                LET r == Rank(Unanswered(t), i)
                IN  ResultOf(t, i) = IF r \in DOMAIN t.anonymous THEN t.anonymous[r] ELSE Unavailable
<1> DEFINE r == Rank(Unanswered(t), i)
           c == Len(t.pending)
<1>1. c \in Nat /\ DOMAIN t.pending = 1..c /\ DOMAIN t.anonymous = 1..Len(t.anonymous) /\ Len(t.anonymous) \in Nat
    BY LoopStateIs, LenProperties
<1>2. Unanswered(t) \in SUBSET (1..c)
    BY <1>1 DEF Unanswered
<1>3. i \in Unanswered(t) => r \in 1..Cardinality(Unanswered(t)) /\ Cardinality(Unanswered(t)) \in Nat
  <2> HIDE DEF c
  <2> QED BY <1>1, <1>2, RanksGrow
<1>4. i \in Unanswered(t) <=> t.pending[i].body = 0
    BY DEF Unanswered
<1>5. ResultOf(t, i) = IF i \notin Unanswered(t) THEN t.pending[i].body
                       ELSE IF r <= Len(t.anonymous) THEN t.anonymous[r] ELSE Unavailable
    BY DEF ResultOf, Rank
<1> HIDE DEF r
<1>6. t.pending[i].body = 0 => ResultOf(t, i) = IF r \in DOMAIN t.anonymous THEN t.anonymous[r] ELSE Unavailable
    BY <1>1, <1>3, <1>4, <1>5
<1> QED BY <1>4, <1>5, <1>6 DEF r

\* The results that wait are no more than the calls without one.
Fits(t) == IF t.pending = <<>> THEN t.anonymous = <<>> ELSE Len(t.anonymous) <= Cardinality(Unanswered(t))

\* So each that named no call finds one.
LEMMA UnnamedAreUsed ==
    ASSUME NEW t, t \in LoopStates, t.pending # <<>>, Fits(t), NEW r \in DOMAIN t.anonymous
    PROVE  \E i \in DOMAIN t.pending : ResultOf(t, i) = t.anonymous[r]
<1> DEFINE c == Len(t.pending)
           U == Unanswered(t)
<1>1. c \in Nat /\ DOMAIN t.pending = 1..c /\ DOMAIN t.anonymous = 1..Len(t.anonymous) /\ Len(t.anonymous) \in Nat
    BY LoopStateIs, LenProperties
<1>2. U \in SUBSET (1..c)
    BY <1>1 DEF Unanswered
<1> HIDE DEF c
<1>3. Cardinality(U) \in Nat /\ Len(t.anonymous) <= Cardinality(U)
    BY <1>1, <1>2, RanksGrow DEF Fits
<1> HIDE DEF U
<1>4. r \in 1..Cardinality(U)
    BY <1>1, <1>3
<1>5. PICK i \in U : Rank(U, i) = r
    BY <1>1, <1>2, <1>4, RanksAreAll
<1>6. i \in DOMAIN t.pending /\ t.pending[i].body = 0
    BY DEF U, Unanswered
<1>7. ResultOf(t, i) = IF Rank(U, i) \in DOMAIN t.anonymous THEN t.anonymous[Rank(U, i)] ELSE Unavailable
    BY <1>6, ResultsAre DEF U
<1> QED BY <1>5, <1>6, <1>7

\* What is carried, with a turn that may be whole.
Full(t, messages, k) == Once(t) /\ Whole(t, messages, k) /\ InOrder(t) /\ Plain(t) /\ Fits(t)
Conversation(messages) == messages \in Seq(AnyMessage) /\ Numbered(messages)

\* Results have bodies and make no calls.
LEMMA ToolsAre ==
    ASSUME NEW messages, Conversation(messages), NEW k \in 0..Len(messages)
    PROVE  /\ \A p \in 1..k : messages[p] \in AnyMessage /\ messages[p].body \in Nat /\ messages[p].body > 0
           /\ \A b \in ToolBodies(messages, k) :
                /\ b \in Nat /\ b > 0
                /\ \E p \in 1..k : messages[p].role = "tool" /\ messages[p].body = b /\ messages[p].calls = <<>>
<1>1. Len(messages) \in Nat /\ DOMAIN messages = 1..Len(messages)
      /\ \A p \in 1..Len(messages) : messages[p] \in AnyMessage
    BY LenProperties, ElementOfSeq DEF Conversation
<1>2. \A p \in 1..k : p \in DOMAIN messages /\ messages[p] \in AnyMessage
    BY <1>1
<1>3. \A p \in 1..k : messages[p].body \in Nat /\ messages[p].body > 0
  <2>1. \A p \in 1..k : messages[p].body \in Int /\ messages[p].body > 0
    BY <1>2 DEF Conversation, Numbered, AnyMessage
  <2> QED BY <2>1
<1>4. ASSUME NEW b \in ToolBodies(messages, k)
      PROVE  /\ b \in Nat /\ b > 0
             /\ \E p \in 1..k : messages[p].role = "tool" /\ messages[p].body = b /\ messages[p].calls = <<>>
  <2>1. PICK p \in 1..k : messages[p].role = "tool" /\ messages[p].body = b
    BY <1>4 DEF ToolBodies
  <2>2. messages[p].calls = <<>>
    BY <1>2, <2>1 DEF Conversation, Numbered
  <2> QED BY <1>3, <2>1, <2>2
<1> QED BY <1>2, <1>3, <1>4

\* What the calls of a turn are answered with: all that waits, each result once.
LEMMA ResultsOnce ==
    ASSUME NEW t, t \in LoopStates, t.pending # <<>>, Fits(t), Once(t),
           \A b \in Waiting(t) \cup Unnamed(t) : b \in Nat /\ b > 0
    PROVE  /\ {ResultOf(t, i) : i \in DOMAIN t.pending} \ {Unavailable} = Waiting(t) \cup Unnamed(t)
           /\ \A i, j \in DOMAIN t.pending : ResultOf(t, i) = ResultOf(t, j) /\ ResultOf(t, i) > 0 => i = j
<1> DEFINE U == Unanswered(t)
           c == Len(t.pending)
           R(i) == Rank(U, i)
<1>1. c \in Nat /\ DOMAIN t.pending = 1..c
    BY LoopStateIs, LenProperties
<1>2. U \in SUBSET (1..c) /\ \A i \in DOMAIN t.pending : i \in U <=> t.pending[i].body = 0
    BY <1>1 DEF Unanswered
<1>3. ASSUME NEW i \in DOMAIN t.pending
      PROVE  \/ t.pending[i].body # 0 /\ ResultOf(t, i) = t.pending[i].body /\ ResultOf(t, i) \in Waiting(t)
             \/ i \in U /\ ResultOf(t, i) = Unavailable
             \/ i \in U /\ R(i) \in DOMAIN t.anonymous /\ ResultOf(t, i) = t.anonymous[R(i)]
                        /\ ResultOf(t, i) \in Unnamed(t)
  <2>1. CASE t.pending[i].body # 0
    BY <2>1, ResultsAre DEF Waiting
  <2>2. CASE t.pending[i].body = 0
    <3>1. ResultOf(t, i) = IF R(i) \in DOMAIN t.anonymous THEN t.anonymous[R(i)] ELSE Unavailable
      BY <2>2, ResultsAre
    <3> HIDE DEF R
    <3>2. R(i) \in DOMAIN t.anonymous => t.anonymous[R(i)] \in Unnamed(t)
      BY DEF Unnamed
    <3> QED BY <1>2, <2>2, <3>1, <3>2
  <2> QED BY <2>1, <2>2
<1>4. \A i, j \in U : R(i) = R(j) => i = j
  <2> HIDE DEF c, U
  <2> QED BY <1>1, <1>2, RanksDiffer
<1> HIDE DEF U, R
<1>5. ASSUME NEW i \in DOMAIN t.pending, NEW j \in DOMAIN t.pending,
             ResultOf(t, i) = ResultOf(t, j), ResultOf(t, i) > 0
      PROVE  i = j
  <2>1. ResultOf(t, i) # Unavailable /\ ResultOf(t, j) # Unavailable
    BY <1>5 DEF Unavailable
  <2>2. CASE ResultOf(t, i) \in Waiting(t)
    <3>1. ResultOf(t, i) \notin Unnamed(t) /\ ResultOf(t, j) \notin Unnamed(t)
      BY <1>5, <2>2 DEF Once
    <3>2. t.pending[i].body = t.pending[j].body /\ t.pending[i].body # 0
      BY <1>3, <1>5, <2>1, <3>1
    <3> QED BY <3>2 DEF Once
  <2>3. CASE ResultOf(t, i) \notin Waiting(t)
    <3>1. /\ i \in U /\ R(i) \in DOMAIN t.anonymous /\ ResultOf(t, i) = t.anonymous[R(i)]
          /\ j \in U /\ R(j) \in DOMAIN t.anonymous /\ ResultOf(t, j) = t.anonymous[R(j)]
      BY <1>3, <1>5, <2>1, <2>3
    <3>2. R(i) = R(j)
      BY <1>5, <3>1 DEF Once
    <3> QED BY <1>4, <3>1, <3>2
  <2> QED BY <2>2, <2>3
<1>6. ASSUME NEW b \in Waiting(t) PROVE \E i \in DOMAIN t.pending : ResultOf(t, i) = b
  <2>1. PICK i \in DOMAIN t.pending : t.pending[i].body = b /\ b # 0
    BY <1>6 DEF Waiting
  <2>2. ResultOf(t, i) = t.pending[i].body
    BY <2>1, ResultsAre
  <2> QED BY <2>1, <2>2
<1>7. ASSUME NEW b \in Unnamed(t) PROVE \E i \in DOMAIN t.pending : ResultOf(t, i) = b
  <2>1. PICK r \in DOMAIN t.anonymous : t.anonymous[r] = b
    BY <1>7 DEF Unnamed
  <2>2. \E i \in DOMAIN t.pending : ResultOf(t, i) = t.anonymous[r]
    BY UnnamedAreUsed
  <2> QED BY <2>1, <2>2
<1>8. Unavailable \notin Waiting(t) \cup Unnamed(t)
    BY DEF Unavailable
<1>9. {ResultOf(t, i) : i \in DOMAIN t.pending} \ {Unavailable} = Waiting(t) \cup Unnamed(t)
    BY <1>3, <1>6, <1>7, <1>8
<1> QED BY <1>5, <1>9

\* flush_pending() keeps all that was carried, and nothing waits any more.
LEMMA FlushedKeeps ==
    ASSUME NEW messages, Conversation(messages), NEW k \in 0..Len(messages),
           NEW t, t \in LoopStates, Full(t, messages, k)
    PROVE  /\ Full(Flushed(t), messages, k) /\ Flushed(t) \in LoopStates
           /\ Flushed(t).pending = <<>> /\ Flushed(t).anonymous = <<>>
<1>1. CASE t.pending = <<>>
    BY <1>1 DEF Flushed, Full, Fits
<1>2. CASE t.pending # <<>>
  <2> DEFINE u == Flushed(t)
             n == Len(t.out)
             c == Len(t.pending)
             New == {ResultOf(t, i) : i \in DOMAIN t.pending}
  <2>1. /\ u \in LoopStates /\ u.pending = <<>> /\ u.anonymous = <<>>
        /\ n \in Nat /\ c \in Nat /\ DOMAIN t.out = 1..n /\ DOMAIN t.pending = 1..c
        /\ DOMAIN u.out = 1..(n + c)
        /\ \A i \in 1..n : u.out[i] = t.out[i] /\ t.out[i] \in AnyMessage
        /\ \A i \in 1..c : u.out[n + i] = Message("tool", <<>>, t.pending[i].id, ResultOf(t, i))
    BY <1>2, FlushedOut
  <2>2. \A b \in Waiting(t) \cup Unnamed(t) : b \in Nat /\ b > 0 /\ b \in ToolBodies(messages, k)
    BY ToolsAre DEF Full, Whole
  <2>3. /\ New \ {Unavailable} = Waiting(t) \cup Unnamed(t)
        /\ \A i, j \in DOMAIN t.pending : ResultOf(t, i) = ResultOf(t, j) /\ ResultOf(t, i) > 0 => i = j
    BY <1>2, <2>2, ResultsOnce DEF Full
  <2>4. \A i \in 1..c : ResultOf(t, i) \in New
    BY <2>1
  <2> HIDE DEF u, New
  <2>5. \A i \in 1..c : /\ u.out[n + i].body = ResultOf(t, i) /\ u.out[n + i].role = "tool"
                        /\ u.out[n + i].calls = <<>>
    <3> SUFFICES ASSUME NEW i \in 1..c
                 PROVE  /\ u.out[n + i].body = ResultOf(t, i) /\ u.out[n + i].role = "tool"
                        /\ u.out[n + i].calls = <<>>
      OBVIOUS
    <3> DEFINE x == u.out[n + i]
               id == t.pending[i].id
               body == ResultOf(t, i)
    <3>1. x = Message("tool", <<>>, id, body)
      BY <2>1
    <3> HIDE DEF x, id, body
    <3>2. x.body = body /\ x.role = "tool" /\ x.calls = <<>>
      BY <3>1 DEF Message
    <3> QED BY <3>2 DEF x, body
  <2> HIDE DEF n, c
  <2>6. ASSUME NEW x \in DOMAIN u.out
        PROVE  \/ x \in 1..n /\ x \in DOMAIN t.out /\ u.out[x] = t.out[x]
               \/ \E i \in 1..c : x = n + i /\ i \in DOMAIN t.pending
    <3>1. CASE x <= n
      BY <2>1, <3>1
    <3>2. CASE x > n
      <4>1. x - n \in 1..c /\ x = n + (x - n)
        BY <2>1, <3>2
      <4> QED BY <2>1, <4>1
    <3> QED BY <2>1, <3>1, <3>2
  <2>7. \A i \in 1..c : n + i \in DOMAIN u.out
    BY <2>1
  <2>8. \A i \in 1..n : i \in DOMAIN u.out
    BY <2>1
  <2>9. Said(u) = Said(t) \cup New
    <3>1. Said(u) \subseteq Said(t) \cup New
      BY <2>4, <2>5, <2>6 DEF Said
    <3>2. Said(t) \subseteq Said(u)
      BY <2>1, <2>8 DEF Said
    <3>3. New \subseteq Said(u)
      BY <2>1, <2>5, <2>7 DEF Said, New
    <3> QED BY <3>1, <3>2, <3>3
  <2>10. Waiting(u) = {} /\ Unnamed(u) = {}
    BY <2>1 DEF Waiting, Unnamed
  <2>11. Said(t) \cap (Waiting(t) \cup Unnamed(t)) = {}
    BY DEF Full, Once
  <2>12. Once(u)
    <3>1. ASSUME NEW x \in DOMAIN u.out, NEW y \in DOMAIN u.out,
                 u.out[x].body = u.out[y].body, u.out[x].body > 0
          PROVE  x = y
      <4>1. CASE x \in 1..n /\ y \in 1..n
        <5>1. x \in DOMAIN t.out /\ y \in DOMAIN t.out /\ t.out[x].body = t.out[y].body /\ t.out[x].body > 0
          BY <2>1, <3>1, <4>1
        <5> QED BY <5>1 DEF Full, Once
      <4>2. ASSUME NEW i \in 1..c, NEW j \in 1..c, x = n + i, y = n + j
            PROVE  x = y
        <5>1. ResultOf(t, i) = ResultOf(t, j) /\ ResultOf(t, i) > 0
          BY <2>5, <3>1, <4>2
        <5>2. i = j
          BY <2>1, <2>3, <5>1
        <5> QED BY <4>2, <5>2
      <4>3. ASSUME NEW a \in 1..n, NEW i \in 1..c, u.out[a].body = u.out[n + i].body, u.out[a].body > 0
            PROVE  FALSE
        <5>1. u.out[a].body \in Said(t)
          BY <2>1, <4>3 DEF Said
        <5>2. u.out[a].body \in New /\ u.out[a].body # Unavailable
          BY <2>4, <2>5, <4>3 DEF Unavailable
        <5> QED BY <2>3, <2>11, <5>1, <5>2
      <4> QED BY <2>6, <3>1, <4>1, <4>2, <4>3
    <3>2. DOMAIN u.pending = {} /\ DOMAIN u.anonymous = {}
      BY <2>1
    <3> QED BY <2>10, <3>1, <3>2 DEF Once
  <2>13. Whole(u, messages, k)
    <3>1. 0 \notin Waiting(t) \cup Unnamed(t) /\ Unavailable \notin Waiting(t) \cup Unnamed(t)
      BY <2>2 DEF Unavailable
    <3>2. (Said(t) \ {0, Unavailable}) \cup (Waiting(t) \cup Unnamed(t)) = Bodies(messages, k)
      BY DEF Full, Whole
    <3>3. (Said(u) \ {0, Unavailable}) \cup Waiting(u) \cup Unnamed(u) = Bodies(messages, k)
      BY <2>3, <2>9, <2>10, <3>1, <3>2
    <3>4. ASSUME NEW x \in DOMAIN u.out, u.out[x].body > 0
          PROVE  \E p \in 1..k : From(u.out[x], messages[p])
      <4>1. CASE x \in 1..n
        <5>1. x \in DOMAIN t.out /\ t.out[x].body > 0 /\ u.out[x] = t.out[x]
          BY <2>1, <3>4, <4>1
        <5> QED BY <5>1 DEF Full, Whole
      <4>2. ASSUME NEW i \in 1..c, x = n + i PROVE \E p \in 1..k : From(u.out[x], messages[p])
        <5>1. u.out[x].body = ResultOf(t, i) /\ u.out[x].role = "tool" /\ u.out[x].calls = <<>>
          BY <2>5, <4>2
        <5>2. ResultOf(t, i) \in ToolBodies(messages, k)
          BY <2>2, <2>3, <2>4, <3>4, <5>1 DEF Unavailable
        <5>3. PICK p \in 1..k : messages[p].role = "tool" /\ messages[p].body = ResultOf(t, i)
                                /\ messages[p].calls = <<>>
          BY <5>2, ToolsAre
        <5> QED BY <5>1, <5>3 DEF From
      <4> QED BY <2>6, <4>1, <4>2
    <3> QED BY <2>10, <3>3, <3>4 DEF Whole
  <2>14. InOrder(u)
    <3> SUFFICES ASSUME NEW x \in DOMAIN u.out, NEW y \in DOMAIN u.out, x < y,
                        u.out[x].role # "tool" /\ u.out[x].body # 0,
                        u.out[y].role # "tool" /\ u.out[y].body # 0
                 PROVE  u.out[x].body < u.out[y].body
      BY DEF InOrder
    <3>1. x \in 1..n /\ y \in 1..n
      BY <2>5, <2>6
    <3>2. x \in DOMAIN t.out /\ y \in DOMAIN t.out /\ u.out[x] = t.out[x] /\ u.out[y] = t.out[y]
      BY <2>1, <3>1
    <3> QED BY <3>2 DEF Full, InOrder
  <2>15. Fits(u)
    BY <2>1 DEF Fits
  <2>16. Plain(u)
    <3>1. \A i \in 1..c : ResultOf(t, i) # 0
      BY <2>2, <2>3, <2>4 DEF Unavailable
    <3>2. ASSUME NEW x \in 1..n PROVE u.out[x].role = "tool" => u.out[x].body # 0 /\ u.out[x].calls = <<>>
      BY <2>1 DEF Full, Plain
    <3> QED BY <2>5, <2>6, <3>1, <3>2 DEF Plain
  <2> QED BY <2>1, <2>12, <2>13, <2>14, <2>15, <2>16 DEF Full, u
<1> QED BY <1>1, <1>2

\* A message more has a body that nothing has had.
LEMMA NewBody ==
    ASSUME NEW messages, Conversation(messages), NEW k \in 1..Len(messages),
           NEW t, Whole(t, messages, k - 1)
    PROVE  /\ messages[k] \in AnyMessage /\ messages[k].body \in Nat /\ messages[k].body > 0
           /\ messages[k].body \notin Said(t) \cup Waiting(t) \cup Unnamed(t)
           /\ Bodies(messages, k) = Bodies(messages, k - 1) \cup {messages[k].body}
           /\ ToolBodies(messages, k) = ToolBodies(messages, k - 1)
                                          \cup {b \in {messages[k].body} : messages[k].role = "tool"}
           /\ \A x : (\E p \in 1..(k - 1) : From(x, messages[p])) => \E p \in 1..k : From(x, messages[p])
<1> DEFINE b == messages[k].body
<1>1. Len(messages) \in Nat /\ DOMAIN messages = 1..Len(messages)
    BY LenProperties DEF Conversation
<1>2. messages[k] \in AnyMessage /\ b \in Nat /\ b > 0
  <2>1. k \in 0..Len(messages) /\ k \in 1..k
    BY <1>1
  <2> QED BY <2>1, ToolsAre
<1>3. \A p \in 1..(k - 1) : p \in DOMAIN messages /\ k \in DOMAIN messages /\ p < k /\ p \in 1..k
    BY <1>1
<1>4. \A p \in 1..(k - 1) : messages[p].body < b
    BY <1>3 DEF Conversation, Numbered
<1>5. k - 1 \in 0..Len(messages)
    BY <1>1
<1>6. \A p \in 1..(k - 1) : messages[p].body \in Nat
    BY <1>5, ToolsAre
<1> HIDE DEF b
<1>7. \A p \in 1..(k - 1) : messages[p].body # b
    BY <1>2, <1>4, <1>6
<1>8. b \notin Bodies(messages, k - 1)
    BY <1>7 DEF Bodies
<1>9. b \notin Said(t) \cup Waiting(t) \cup Unnamed(t)
  <2>1. b # 0 /\ b # Unavailable
    BY <1>2 DEF Unavailable
  <2>2. (Said(t) \ {0, Unavailable}) \cup Waiting(t) \cup Unnamed(t) = Bodies(messages, k - 1)
    BY DEF Whole
  <2> QED BY <1>8, <2>1, <2>2
<1>10. 1..k = (1..(k - 1)) \cup {k}
    BY <1>1
<1> QED BY <1>2, <1>9, <1>10 DEF Bodies, ToolBodies, b

\* What is out besides, with what was carried when nothing waited.
LEMMA OutGrows ==
    ASSUME NEW messages, Conversation(messages), NEW k \in 1..Len(messages),
           NEW t, t \in LoopStates, Full(t, messages, k - 1), t.pending = <<>>, t.anonymous = <<>>,
           NEW u, u \in LoopStates, NEW e \in {1, 2},
           DOMAIN u.out = 1..(Len(t.out) + e),
           \A i \in 1..Len(t.out) : u.out[i] = t.out[i],
           \A i \in (Len(t.out) + 1)..(Len(t.out) + e - 1) : u.out[i].body = 0 /\ u.out[i].role # "tool",
           From(u.out[Len(t.out) + e], messages[k]),
           u.out[Len(t.out) + e].calls = <<>> \/ u.out[Len(t.out) + e].role # "tool",
           \A i \in DOMAIN u.pending : u.pending[i].body = 0, u.anonymous = <<>>
    PROVE  Once(u) /\ Whole(u, messages, k) /\ InOrder(u) /\ Plain(u)
<1> DEFINE n == Len(t.out)
           b == messages[k].body
           last == n + e
<1>1. n \in Nat /\ DOMAIN t.out = 1..n
    BY LoopStateIs, LenProperties
<1>2. /\ b \in Nat /\ b > 0 /\ b \notin Said(t) \cup Waiting(t) \cup Unnamed(t)
      /\ Bodies(messages, k) = Bodies(messages, k - 1) \cup {b}
      /\ \A x : (\E p \in 1..(k - 1) : From(x, messages[p])) => \E p \in 1..k : From(x, messages[p])
    BY NewBody DEF Full
<1>3. Waiting(u) = {} /\ Unnamed(u) = {} /\ Waiting(t) = {} /\ Unnamed(t) = {}
    BY DEF Waiting, Unnamed
<1>4. /\ DOMAIN u.out = 1..last /\ last \in DOMAIN u.out /\ last \in Nat
      /\ \A i \in 1..n : i \in DOMAIN u.out /\ u.out[i] = t.out[i]
      /\ u.out[last].body = b /\ From(u.out[last], messages[k])
    BY <1>1 DEF From
<1>5. ASSUME NEW x \in DOMAIN u.out
      PROVE  \/ x \in 1..n /\ x \in DOMAIN t.out /\ u.out[x] = t.out[x]
             \/ u.out[x].body = 0 /\ u.out[x].role # "tool"
             \/ x = last
  <2>1. CASE x <= n
    BY <1>1, <1>4, <2>1
  <2>2. CASE x > n /\ x # last
    <3>1. x \in (n + 1)..(n + e - 1)
      BY <1>1, <1>4, <2>2
    <3> QED BY <3>1
  <2> QED BY <1>1, <1>4, <2>1, <2>2
<1>6. u.out[last].body \notin Said(t)
    BY <1>2, <1>4
<1>7. u.out[last].calls = <<>> \/ u.out[last].role # "tool"
    OBVIOUS
<1> HIDE DEF n, last
<1>8. Said(t) \subseteq Said(u) /\ b \in Said(u) /\ Said(u) \subseteq Said(t) \cup {0, b}
  <2>1. Said(t) \subseteq Said(u)
    BY <1>1, <1>4 DEF Said
  <2>2. b \in Said(u)
    BY <1>4 DEF Said
  <2>3. Said(u) \subseteq Said(t) \cup {0, b}
    BY <1>4, <1>5 DEF Said
  <2> QED BY <2>1, <2>2, <2>3
<1>9. Once(u)
  <2>1. ASSUME NEW x \in DOMAIN u.out, NEW y \in DOMAIN u.out,
               u.out[x].body = u.out[y].body, u.out[x].body > 0
        PROVE  x = y
    <3>1. ASSUME NEW a \in DOMAIN t.out, u.out[a] = t.out[a], u.out[a].body = u.out[last].body
          PROVE  FALSE
      BY <1>6, <3>1 DEF Said
    <3>2. CASE x \in DOMAIN t.out /\ y \in DOMAIN t.out
      <4>1. t.out[x].body = t.out[y].body /\ t.out[x].body > 0
        BY <1>1, <1>4, <2>1, <3>2
      <4> QED BY <3>2, <4>1 DEF Full, Once
    <3>3. u.out[x].body # 0 /\ u.out[y].body # 0
      BY <2>1
    <3> QED BY <1>5, <2>1, <3>1, <3>2, <3>3
  <2>2. \A i, j \in DOMAIN u.pending : u.pending[i].body = u.pending[j].body /\ u.pending[i].body # 0 => i = j
    OBVIOUS
  <2>3. DOMAIN u.anonymous = {}
    OBVIOUS
  <2> QED BY <1>3, <2>1, <2>2, <2>3 DEF Once
<1>10. Whole(u, messages, k)
  <2>1. (Said(t) \ {0, Unavailable}) = Bodies(messages, k - 1)
    BY <1>3 DEF Full, Whole
  <2>2. b # 0 /\ b # Unavailable
    BY <1>2 DEF Unavailable
  <2>3. (Said(u) \ {0, Unavailable}) = Bodies(messages, k)
    BY <1>2, <1>8, <2>1, <2>2
  <2>4. ASSUME NEW x \in DOMAIN u.out, u.out[x].body > 0
        PROVE  \E p \in 1..k : From(u.out[x], messages[p])
    <3>1. CASE x \in DOMAIN t.out /\ u.out[x] = t.out[x]
      <4>1. \E p \in 1..(k - 1) : From(u.out[x], messages[p])
        BY <2>4, <3>1 DEF Full, Whole
      <4> QED BY <1>2, <4>1
    <3>2. CASE x = last
      <4>1. k \in 1..k
        OBVIOUS
      <4> QED BY <1>4, <3>2, <4>1
    <3> QED BY <1>5, <2>4, <3>1, <3>2
  <2> QED BY <1>3, <2>3, <2>4 DEF Whole
<1>11. InOrder(u)
  <2> SUFFICES ASSUME NEW x \in DOMAIN u.out, NEW y \in DOMAIN u.out, x < y,
                      u.out[x].role # "tool" /\ u.out[x].body # 0,
                      u.out[y].role # "tool" /\ u.out[y].body # 0
               PROVE  u.out[x].body < u.out[y].body
    BY DEF InOrder
  <2>1. CASE x \in DOMAIN t.out /\ y \in DOMAIN t.out
    <3>1. u.out[x] = t.out[x] /\ u.out[y] = t.out[y]
      BY <1>1, <1>4, <2>1
    <3> QED BY <2>1, <3>1 DEF Full, InOrder
  <2>2. CASE x \in DOMAIN t.out /\ u.out[x] = t.out[x] /\ y = last
    <3>1. t.out[x].body \in Said(t)
      BY <2>2 DEF Said
    <3>2. t.out[x].body # Unavailable => t.out[x].body \in Bodies(messages, k - 1)
      BY <2>2, <3>1 DEF Full, Whole
    <3>3. t.out[x].body \in Bodies(messages, k - 1) => t.out[x].body < b
      <4>1. \A p \in 1..(k - 1) : messages[p].body < b
        <5>1. DOMAIN messages = 1..Len(messages) /\ Len(messages) \in Nat
          BY LenProperties DEF Conversation
        <5>2. \A p \in 1..(k - 1) : p \in DOMAIN messages /\ k \in DOMAIN messages /\ p < k
          BY <5>1
        <5> QED BY <5>2 DEF Conversation, Numbered
      <4> QED BY <4>1 DEF Bodies
    <3> QED BY <1>2, <1>4, <2>2, <3>2, <3>3 DEF Unavailable
  <2>3. CASE x = last
    BY <1>4, <2>3
  <2> QED BY <1>5, <2>1, <2>2, <2>3
<1>12. Plain(u)
    BY <1>2, <1>4, <1>5, <1>7 DEF Full, Plain
<1> QED BY <1>9, <1>10, <1>11, <1>12

\* A turn ends when each of its calls has a result.
LEMMA FlushedIfWholeKeeps ==
    ASSUME NEW messages, Conversation(messages), NEW k \in 0..Len(messages),
           NEW t, t \in LoopStates, Full(t, messages, k)
    PROVE  FlushedIfWhole(t) \in LoopStates /\ Carries(FlushedIfWhole(t), messages, k)
<1>1. CASE Cardinality(Unanswered(t)) = Len(t.anonymous)
  <2>1. FlushedIfWhole(t) = Flushed(t)
    BY <1>1 DEF FlushedIfWhole
  <2> QED BY <2>1, FlushedKeeps DEF Full, Carries, Room
<1>2. CASE Cardinality(Unanswered(t)) # Len(t.anonymous)
  <2>1. FlushedIfWhole(t) = t
    BY <1>2 DEF FlushedIfWhole
  <2>2. Cardinality(Unanswered(t)) \in Nat /\ Len(t.anonymous) \in Nat
    <3>1. DOMAIN t.pending = 1..Len(t.pending) /\ Len(t.pending) \in Nat /\ Len(t.anonymous) \in Nat
      BY LoopStateIs, LenProperties
    <3>2. Unanswered(t) \in SUBSET (1..Len(t.pending))
      BY <3>1 DEF Unanswered
    <3> QED BY <3>1, <3>2, RanksGrow
  <2>3. Room(t)
    BY <1>2, <2>2 DEF Full, Fits, Room
  <2> QED BY <2>1, <2>3 DEF Full, Carries
<1> QED BY <1>1, <1>2

\* The calls of a turn that begins: each waits, under the id it came with.
LEMMA AllTaken ==
    ASSUME NEW t, Quiet(t), NEW calls, calls \in Seq(Nat)
    PROVE  LET turn == FoldLeft(TakesCall, t, calls)
           IN  /\ turn \in LoopStates /\ Taking(turn)
               /\ turn.out = t.out /\ turn.anonymous = t.anonymous
               /\ Len(turn.pending) = Len(calls) /\ DOMAIN turn.pending = DOMAIN calls
               /\ \A i \in DOMAIN calls : turn.pending[i].raw = calls[i] /\ turn.pending[i].body = 0
<1> DEFINE n == Len(calls)
<1>1. PICK run : /\ Taken(calls, t, run) /\ run[n] = FoldLeft(TakesCall, t, calls)
                 /\ \A k \in 0..n : run[k] \in LoopStates /\ Taking(run[k])
    BY CallsRun
<1>2. n \in Nat /\ DOMAIN calls = 1..n /\ \A i \in 1..n : calls[i] \in Nat
    BY LenProperties, ElementOfSeq
<1> DEFINE Are(k) == /\ run[k].out = t.out /\ run[k].anonymous = t.anonymous /\ Len(run[k].pending) = k
                     /\ \A i \in 1..k : run[k].pending[i].raw = calls[i] /\ run[k].pending[i].body = 0
           S == {k \in 0..n : Are(k)}
<1>3. 0 \in S
  <2>1. run[0] = t /\ t.pending = <<>>
    BY <1>1 DEF Taken, Quiet
  <2>2. Are(0)
    BY <2>1
  <2> QED BY <1>2, <2>2
<1>4. ASSUME NEW k \in 1..n, k - 1 \in S PROVE k \in S
  <2> DEFINE v == run[k - 1]
             call == [id |-> FreshId(v, calls[k]).id, raw |-> calls[k], body |-> 0]
  <2>1. k - 1 \in 0..n /\ Are(k - 1)
    BY <1>2, <1>4
  <2>2. v \in LoopStates /\ Taking(v) /\ calls[k] \in Nat
    BY <1>1, <1>2, <2>1
  <2>3. run[k] = TakesCall(v, calls[k])
    BY <1>1 DEF Taken
  <2>4. /\ run[k].out = v.out /\ run[k].anonymous = v.anonymous
        /\ run[k].pending = Append(v.pending, call)
    <3> HIDE DEF v
    <3> QED BY <2>2, <2>3, TakingGoesOn
  <2>5. call.raw = calls[k] /\ call.body = 0
    OBVIOUS
  <2>6. call \in PendingCall
    <3>1. FreshId(v, calls[k]).id \in Nat
      <4> HIDE DEF v
      <4> QED BY <2>2, FreshIsNew DEF Taking
    <3> QED BY <2>2, <3>1 DEF PendingCall
  <2> HIDE DEF call
  <2>7. v.pending \in Seq(PendingCall) /\ Len(v.pending) = k - 1
    <3>1. Len(v.pending) = k - 1
      BY <2>1
    <3> HIDE DEF v
    <3> QED BY <2>2, <3>1, LoopStateIs
  <2>8. /\ Len(Append(v.pending, call)) = k
        /\ \A i \in 1..(k - 1) : Append(v.pending, call)[i] = v.pending[i]
        /\ Append(v.pending, call)[k] = call
    <3> HIDE DEF v
    <3> QED BY <2>6, <2>7
  <2>9. ASSUME NEW i \in 1..k PROVE run[k].pending[i].raw = calls[i] /\ run[k].pending[i].body = 0
    <3>1. CASE i = k
      BY <2>4, <2>5, <2>8, <3>1
    <3>2. CASE i # k
      <4>1. i \in 1..(k - 1)
        BY <3>2
      <4> QED BY <2>1, <2>4, <2>8, <4>1
    <3> QED BY <3>1, <3>2
  <2>10. Are(k)
    BY <2>1, <2>4, <2>8, <2>9
  <2> QED BY <2>10
<1> HIDE DEF S
<1>5. \A k \in 0..n : k \in S
    BY <1>2, <1>3, <1>4, ToTheEnd
<1>6. Are(n) /\ run[n] \in LoopStates /\ Taking(run[n])
  <2>1. n \in 0..n
    BY <1>2
  <2> QED BY <1>1, <1>5, <2>1 DEF S
<1>7. DOMAIN run[n].pending = 1..n
  <2>1. run[n].pending \in Seq(PendingCall) /\ Len(run[n].pending) = n
    BY <1>6, LoopStateIs
  <2> QED BY <2>1, LenProperties
<1> QED BY <1>1, <1>2, <1>6, <1>7

\* Where a result without a call is, with a call of its own.
LEMMA OrphanOut ==
    ASSUME NEW t, Quiet(t), NEW m, m \in AnyMessage
    PROVE  LET u == Orphan(t, m)
               fresh == FreshId(t, m.id)
               n == Len(t.out)
           IN  /\ u \in LoopStates /\ n \in Nat /\ DOMAIN t.out = 1..n
               /\ u.pending = t.pending /\ u.anonymous = t.anonymous
               /\ Len(u.out) = n + 2 /\ DOMAIN u.out = 1..(n + 2)
               /\ \A i \in 1..n : u.out[i] = t.out[i]
               /\ u.out[n + 1] = Message("assistant", <<fresh.id>>, 0, 0)
               /\ u.out[n + 2] = Message("tool", <<>>, fresh.id, m.body)
<1> DEFINE fresh == FreshId(t, m.id)
           n == Len(t.out)
           turn == Message("assistant", <<fresh.id>>, 0, 0)
           result == Message("tool", <<>>, fresh.id, m.body)
           u == Orphan(t, m)
           out == t.out \o <<turn, result>>
<1>1. t \in LoopStates /\ Tracks(t) /\ m.id \in Nat /\ m.body \in Int
    BY DEF Quiet, Tracks, AnyMessage
<1>2. fresh.id \in Nat /\ fresh.counter \in Nat
    BY <1>1, FreshIsNew
<1>3. turn \in AnyMessage /\ result \in AnyMessage
  <2>1. <<fresh.id>> \in Seq(Nat) /\ <<>> \in Seq(Nat)
    BY <1>2
  <2> HIDE DEF fresh
  <2> QED BY <1>1, <1>2, <2>1 DEF Message, AnyMessage
<1>4. u = [Takes(t, fresh) EXCEPT !.out = @ \o <<turn, result>>]
    BY DEF Orphan
<1> HIDE DEF fresh, turn, result, u
<1>5. n \in Nat /\ t.out \in Seq(AnyMessage) /\ DOMAIN t.out = 1..n
    BY <1>1, LoopStateIs, LenProperties
<1>6. /\ out \in Seq(AnyMessage) /\ Len(out) = n + 2 /\ DOMAIN out = 1..(n + 2)
      /\ \A i \in 1..n : out[i] = t.out[i]
      /\ out[n + 1] = turn /\ out[n + 2] = result
  <2>1. <<turn, result>> \in Seq(AnyMessage) /\ Len(<<turn, result>>) = 2
    BY <1>3
  <2> DEFINE two == <<turn, result>>
  <2>2. two[1] = turn /\ two[2] = result
    OBVIOUS
  <2>3. two \in Seq(AnyMessage) /\ Len(two) = 2
    BY <2>1
  <2> HIDE DEF two
  <2>4. /\ t.out \o two \in Seq(AnyMessage) /\ Len(t.out \o two) = n + 2
        /\ \A i \in 1..(n + 2) : (t.out \o two)[i] = IF i <= n THEN t.out[i] ELSE two[i - n]
    <3>1. t.out \in Seq(AnyMessage)
      BY <1>5
    <3>2. /\ t.out \o two \in Seq(AnyMessage) /\ Len(t.out \o two) = Len(t.out) + Len(two)
          /\ \A i \in 1..(Len(t.out) + Len(two)) : (t.out \o two)[i] = IF i <= Len(t.out) THEN t.out[i]
                                                                       ELSE two[i - Len(t.out)]
      BY ONLY <2>3, <3>1, ConcatProperties
    <3> QED BY <2>3, <3>2
  <2>5. out = t.out \o two
    BY DEF two
  <2> HIDE DEF out, n
  <2>6. (\A i \in 1..n : out[i] = t.out[i]) /\ out[n + 1] = two[1] /\ out[n + 2] = two[2]
    <3>1. n + 1 \in 1..(n + 2) /\ n + 2 \in 1..(n + 2) /\ ~(n + 1 <= n) /\ ~(n + 2 <= n)
          /\ (n + 1) - n = 1 /\ (n + 2) - n = 2
      BY <1>5
    <3>2. \A i \in 1..n : i \in 1..(n + 2) /\ i <= n
      BY <1>5
    <3> QED BY <2>4, <2>5, <3>1, <3>2
  <2>7. DOMAIN out = 1..(n + 2)
    BY <2>4, <2>5, LenProperties
  <2> QED BY <2>2, <2>4, <2>5, <2>6, <2>7
<1> HIDE DEF out, n
<1>7. u = [out |-> out, used |-> t.used \cup {fresh.id}, counter |-> fresh.counter,
           pending |-> t.pending, anonymous |-> t.anonymous]
  <2>1. Takes(t, fresh) = [out |-> t.out, used |-> t.used \cup {fresh.id}, counter |-> fresh.counter,
                           pending |-> t.pending, anonymous |-> t.anonymous]
    <3>1. t = [out |-> t.out, used |-> t.used, counter |-> t.counter,
               pending |-> t.pending, anonymous |-> t.anonymous]
      BY <1>1, LoopStateIs
    <3> DEFINE used == t.used \cup {fresh.id}
               counter == fresh.counter
    <3>2. Takes(t, fresh) = [t EXCEPT !.used = used, !.counter = counter]
      BY DEF Takes
    <3> HIDE DEF used, counter
    <3>3. Takes(t, fresh) = [out |-> t.out, used |-> used, counter |-> counter,
                             pending |-> t.pending, anonymous |-> t.anonymous]
      BY <3>1, <3>2
    <3> QED BY <3>3 DEF used, counter
  <2>2. u = [Takes(t, fresh) EXCEPT !.out = out]
    BY <1>4, <2>1 DEF out
  <2> DEFINE used == t.used \cup {fresh.id}
  <2> HIDE DEF used
  <2>3. u = [out |-> out, used |-> used, counter |-> fresh.counter,
             pending |-> t.pending, anonymous |-> t.anonymous]
    BY <2>1, <2>2 DEF used
  <2> QED BY <2>3 DEF used
<1>8. u \in LoopStates
    BY <1>1, <1>2, <1>6, <1>7, LoopStateIs DEF LoopStates
<1>9. u.pending = t.pending /\ u.anonymous = t.anonymous /\ u.out = out
    BY <1>7
<1> QED BY <1>5, <1>6, <1>8, <1>9 DEF u, n, turn, result, fresh

\* Of a result, that is so of what results are heard as well.
LEMMA NewResult ==
    ASSUME NEW messages, Conversation(messages), NEW k \in 1..Len(messages), messages[k].role = "tool",
           NEW t, Whole(t, messages, k - 1)
    PROVE  LET b == messages[k].body
           IN  /\ b \in Nat /\ b > 0 /\ b \notin Said(t) \cup Waiting(t) \cup Unnamed(t)
               /\ Bodies(messages, k) = Bodies(messages, k - 1) \cup {b}
               /\ ToolBodies(messages, k) = ToolBodies(messages, k - 1) \cup {b}
               /\ \A x : (\E p \in 1..(k - 1) : From(x, messages[p])) => \E p \in 1..k : From(x, messages[p])
<1>1. ToolBodies(messages, k) = ToolBodies(messages, k - 1)
                                  \cup {b \in {messages[k].body} : messages[k].role = "tool"}
    BY NewBody
<1>2. {b \in {messages[k].body} : messages[k].role = "tool"} = {messages[k].body}
    OBVIOUS
<1>3. ToolBodies(messages, k) = ToolBodies(messages, k - 1) \cup {messages[k].body}
    BY <1>1, <1>2
<1> QED BY <1>3, NewBody

\* The state with one result more that named no call.
More(t, b) == [t EXCEPT !.anonymous = Append(@, b)]

\* A result more that named no call; nothing else changes.
LEMMA UnnamedIs ==
    ASSUME NEW t, t \in LoopStates, NEW b \in Int
    PROVE  LET u == More(t, b)
           IN  /\ u \in LoopStates /\ u.out = t.out /\ u.used = t.used /\ u.pending = t.pending
               /\ Len(t.anonymous) \in Nat /\ DOMAIN t.anonymous = 1..Len(t.anonymous)
               /\ Len(u.anonymous) = Len(t.anonymous) + 1 /\ DOMAIN u.anonymous = 1..(Len(t.anonymous) + 1)
               /\ \A i \in 1..Len(t.anonymous) : u.anonymous[i] = t.anonymous[i]
               /\ u.anonymous[Len(t.anonymous) + 1] = b
               /\ Unanswered(u) = Unanswered(t)
<1> DEFINE more == Append(t.anonymous, b)
           u == More(t, b)
           a == Len(t.anonymous)
<1>1. t.anonymous \in Seq(Int) /\ a \in Nat /\ DOMAIN t.anonymous = 1..a
    BY LoopStateIs, LenProperties
<1>2. u = [out |-> t.out, used |-> t.used, counter |-> t.counter, pending |-> t.pending, anonymous |-> more]
  <2>1. t = [out |-> t.out, used |-> t.used, counter |-> t.counter, pending |-> t.pending,
             anonymous |-> t.anonymous]
    BY LoopStateIs
  <2>2. u = [t EXCEPT !.anonymous = more]
    BY DEF More
  <2> HIDE DEF more, u
  <2> QED BY <2>1, <2>2
<1> HIDE DEF u
<1>3. /\ more \in Seq(Int) /\ Len(more) = a + 1 /\ DOMAIN more = 1..(a + 1)
      /\ (\A i \in 1..a : more[i] = t.anonymous[i]) /\ more[a + 1] = b
    BY <1>1
<1> HIDE DEF more, a
<1>4. u.out = t.out /\ u.used = t.used /\ u.pending = t.pending /\ u.anonymous = more
    BY <1>2
<1>5. u \in LoopStates
    BY <1>2, <1>3, LoopStateIs DEF LoopStates
<1>6. Unanswered(u) = Unanswered(t)
    BY <1>4 DEF Unanswered
<1> QED BY <1>1, <1>3, <1>4, <1>5, <1>6 DEF u, a

\* A result that names no call waits for one that has none.
LEMMA UnnamedKeeps ==
    ASSUME NEW messages, Conversation(messages), NEW k \in 1..Len(messages), messages[k].role = "tool",
           NEW t, t \in LoopStates, Carries(t, messages, k - 1), t.pending # <<>>
    PROVE  LET u == More(t, messages[k].body)
           IN  u \in LoopStates /\ Full(u, messages, k)
<1> DEFINE b == messages[k].body
           u == More(t, b)
           more == u.anonymous
           a == Len(t.anonymous)
<1>1. /\ b \in Nat /\ b > 0 /\ b \notin Said(t) \cup Waiting(t) \cup Unnamed(t)
      /\ Bodies(messages, k) = Bodies(messages, k - 1) \cup {b}
      /\ ToolBodies(messages, k) = ToolBodies(messages, k - 1) \cup {b}
      /\ \A x : (\E p \in 1..(k - 1) : From(x, messages[p])) => \E p \in 1..k : From(x, messages[p])
    BY NewResult DEF Carries
<1>2. /\ u \in LoopStates /\ u.out = t.out /\ u.used = t.used /\ u.pending = t.pending
      /\ a \in Nat /\ DOMAIN t.anonymous = 1..a
      /\ Len(more) = a + 1 /\ DOMAIN more = 1..(a + 1)
      /\ \A i \in 1..a : more[i] = t.anonymous[i]
      /\ more[a + 1] = b
      /\ Unanswered(u) = Unanswered(t)
  <2>1. b \in Int
    BY <1>1
  <2> HIDE DEF b
  <2> QED BY ONLY <2>1, t \in LoopStates, UnnamedIs
<1> HIDE DEF b, u, a, more
<1>3. u.anonymous = more
    BY DEF more
<1>4. Said(u) = Said(t) /\ Waiting(u) = Waiting(t)
    BY <1>2 DEF Said, Waiting
<1>5. \A i \in DOMAIN more : (i \in DOMAIN t.anonymous /\ more[i] = t.anonymous[i]) \/ (i = a + 1 /\ more[i] = b)
    BY <1>2
<1>6. Unnamed(u) = Unnamed(t) \cup {b}
  <2>1. Unnamed(u) \subseteq Unnamed(t) \cup {b}
    BY <1>3, <1>5 DEF Unnamed
  <2>2. \A i \in DOMAIN t.anonymous : i \in DOMAIN more /\ more[i] = t.anonymous[i]
    BY <1>2
  <2>3. a + 1 \in DOMAIN more /\ more[a + 1] = b
    BY <1>2
  <2> QED BY <1>3, <2>1, <2>2, <2>3 DEF Unnamed
<1>7. Once(u)
  <2>1. \A i \in DOMAIN t.anonymous : t.anonymous[i] # b
    BY <1>1 DEF Unnamed
  <2>2. \A i, j \in DOMAIN more : more[i] = more[j] => i = j
    BY <1>5, <2>1 DEF Carries, Once
  <2>3. /\ Said(u) \cap Waiting(u) = {} /\ Said(u) \cap Unnamed(u) = {} /\ Waiting(u) \cap Unnamed(u) = {}
    BY <1>1, <1>4, <1>6 DEF Carries, Once
  <2> QED BY <1>2, <1>3, <2>2, <2>3 DEF Carries, Once
<1>8. Whole(u, messages, k)
  <2>1. (Said(u) \ {0, Unavailable}) \cup Waiting(u) \cup Unnamed(u) = Bodies(messages, k)
    BY <1>1, <1>4, <1>6 DEF Carries, Whole
  <2>2. \A i \in DOMAIN u.out : u.out[i].body > 0 => \E p \in 1..k : From(u.out[i], messages[p])
    BY <1>1, <1>2 DEF Carries, Whole
  <2>3. Waiting(u) \cup Unnamed(u) \subseteq ToolBodies(messages, k)
    BY <1>1, <1>4, <1>6 DEF Carries, Whole
  <2> QED BY <2>1, <2>2, <2>3 DEF Whole
<1>9. InOrder(u)
    BY <1>2 DEF Carries, InOrder
<1>10. Fits(u)
  <2>1. Len(t.anonymous) < Cardinality(Unanswered(t))
    BY DEF Carries, Room
  <2>2. Cardinality(Unanswered(t)) \in Nat
    <3>1. DOMAIN t.pending = 1..Len(t.pending) /\ Len(t.pending) \in Nat
      BY LoopStateIs, LenProperties
    <3>2. Unanswered(t) \in SUBSET (1..Len(t.pending))
      BY <3>1 DEF Unanswered
    <3> QED BY <3>1, <3>2, RanksGrow
  <2> QED BY <1>2, <1>3, <2>1, <2>2 DEF Fits, a
<1>11. Plain(u)
    BY <1>2 DEF Carries, Plain
<1> QED BY <1>2, <1>7, <1>8, <1>9, <1>10, <1>11 DEF Full, u, b

\* The state with the result of one call.
With(t, x, b) == [t EXCEPT !.pending[x].body = b]

\* A call of the active turn has a result; nothing else changes.
LEMMA NamedIs ==
    ASSUME NEW t, t \in LoopStates, NEW x \in Unanswered(t), NEW b \in Int, b # 0
    PROVE  LET u == With(t, x, b)
           IN  /\ u \in LoopStates /\ u.out = t.out /\ u.used = t.used /\ u.anonymous = t.anonymous
               /\ Len(u.pending) = Len(t.pending) /\ DOMAIN u.pending = DOMAIN t.pending /\ x \in DOMAIN t.pending
               /\ \A i \in DOMAIN t.pending :
                    /\ u.pending[i].id = t.pending[i].id /\ u.pending[i].raw = t.pending[i].raw
                    /\ u.pending[i].body = IF i = x THEN b ELSE t.pending[i].body
               /\ Unanswered(u) = Unanswered(t) \ {x}
               /\ Cardinality(Unanswered(t)) \in Nat /\ Cardinality(Unanswered(u)) = Cardinality(Unanswered(t)) - 1
<1> DEFINE answered == [t.pending EXCEPT ![x].body = b]
           u == With(t, x, b)
           c == Len(t.pending)
<1>1. t.pending \in Seq(PendingCall) /\ c \in Nat /\ DOMAIN t.pending = 1..c
      /\ \A i \in DOMAIN t.pending : t.pending[i] \in PendingCall
    BY LoopStateIs, LenProperties, ElementOfSeq
<1>2. x \in DOMAIN t.pending /\ t.pending[x].body = 0
    BY DEF Unanswered
<1>3. /\ DOMAIN answered = DOMAIN t.pending
      /\ \A i \in DOMAIN t.pending :
           /\ answered[i] \in PendingCall
           /\ answered[i].id = t.pending[i].id /\ answered[i].raw = t.pending[i].raw
           /\ answered[i].body = IF i = x THEN b ELSE t.pending[i].body
  <2>1. DOMAIN answered = DOMAIN t.pending /\ answered[x] = [t.pending[x] EXCEPT !.body = b]
    BY <1>2
  <2>2. \A i \in DOMAIN t.pending : i # x => answered[i] = t.pending[i]
    OBVIOUS
  <2> HIDE DEF answered
  <2>3. answered[x] \in PendingCall /\ answered[x].id = t.pending[x].id /\ answered[x].raw = t.pending[x].raw
        /\ answered[x].body = b
    <3>1. t.pending[x] \in PendingCall /\ b \in Int
      BY <1>1, <1>2
    <3> DEFINE call == t.pending[x]
               full == answered[x]
    <3>2. call \in PendingCall /\ full = [call EXCEPT !.body = b]
      BY <2>1, <3>1
    <3> HIDE DEF call, full
    <3>3. full \in PendingCall /\ full.id = call.id /\ full.raw = call.raw /\ full.body = b
      BY <3>1, <3>2 DEF PendingCall
    <3> QED BY <3>3 DEF call, full
  <2> QED BY <1>1, <2>1, <2>2, <2>3
<1>4. answered = [i \in DOMAIN t.pending |-> answered[i]]
    OBVIOUS
<1>5. u = [t EXCEPT !.pending = answered]
    BY DEF With
<1> HIDE DEF answered, u
<1>6. answered \in Seq(PendingCall) /\ Len(answered) = c
  <2>1. answered \in [1..c -> PendingCall]
    BY <1>1, <1>3, <1>4
  <2> HIDE DEF c
  <2> QED BY <1>1, <2>1
<1>7. u = [out |-> t.out, used |-> t.used, counter |-> t.counter, pending |-> answered, anonymous |-> t.anonymous]
    BY <1>5 DEF LoopStates
<1>8. u.out = t.out /\ u.used = t.used /\ u.pending = answered /\ u.anonymous = t.anonymous
    BY <1>7
<1>9. u \in LoopStates
    BY <1>6, <1>7, LoopStateIs DEF LoopStates
<1>10. Unanswered(u) = Unanswered(t) \ {x}
    BY <1>3, <1>8 DEF Unanswered
<1>11. IsFiniteSet(Unanswered(t)) /\ Cardinality(Unanswered(t)) \in Nat
  <2>1. Unanswered(t) \in SUBSET (1..c)
    BY <1>1 DEF Unanswered
  <2> HIDE DEF c
  <2> QED BY <1>1, <2>1, RanksGrow
<1>12. Cardinality(Unanswered(u)) = Cardinality(Unanswered(t)) - 1
    BY <1>10, <1>11, FS_RemoveElement
<1> QED BY <1>2, <1>3, <1>6, <1>8, <1>9, <1>10, <1>11, <1>12 DEF u

\* A result that names a call without one is that call's.
LEMMA NamedKeeps ==
    ASSUME NEW messages, Conversation(messages), NEW k \in 1..Len(messages), messages[k].role = "tool",
           NEW t, t \in LoopStates, Carries(t, messages, k - 1),
           NEW x \in Unanswered(t)
    PROVE  LET u == With(t, x, messages[k].body)
           IN  /\ u \in LoopStates /\ Full(u, messages, k)
               /\ u.out = t.out /\ u.used = t.used /\ u.anonymous = t.anonymous /\ Len(u.pending) = Len(t.pending)
               /\ DOMAIN u.pending = DOMAIN t.pending
               /\ \A i \in DOMAIN t.pending :
                    /\ u.pending[i].id = t.pending[i].id /\ u.pending[i].raw = t.pending[i].raw
                    /\ u.pending[i].body = IF i = x THEN messages[k].body ELSE t.pending[i].body
               /\ Unanswered(u) = Unanswered(t) \ {x}
               /\ Cardinality(Unanswered(t)) \in Nat /\ Cardinality(Unanswered(u)) = Cardinality(Unanswered(t)) - 1
<1> DEFINE b == messages[k].body
           u == With(t, x, b)
<1>1. /\ b \in Nat /\ b > 0 /\ b \notin Said(t) \cup Waiting(t) \cup Unnamed(t)
      /\ Bodies(messages, k) = Bodies(messages, k - 1) \cup {b}
      /\ ToolBodies(messages, k) = ToolBodies(messages, k - 1) \cup {b}
      /\ \A y : (\E p \in 1..(k - 1) : From(y, messages[p])) => \E p \in 1..k : From(y, messages[p])
    BY NewResult DEF Carries
<1>2. /\ u \in LoopStates /\ u.out = t.out /\ u.used = t.used /\ u.anonymous = t.anonymous
      /\ Len(u.pending) = Len(t.pending) /\ DOMAIN u.pending = DOMAIN t.pending /\ x \in DOMAIN t.pending
      /\ \A i \in DOMAIN t.pending :
           /\ u.pending[i].id = t.pending[i].id /\ u.pending[i].raw = t.pending[i].raw
           /\ u.pending[i].body = IF i = x THEN b ELSE t.pending[i].body
      /\ Unanswered(u) = Unanswered(t) \ {x}
      /\ Cardinality(Unanswered(t)) \in Nat /\ Cardinality(Unanswered(u)) = Cardinality(Unanswered(t)) - 1
  <2>1. b \in Int /\ b # 0
    BY <1>1
  <2>2. t \in LoopStates /\ x \in Unanswered(t)
    OBVIOUS
  <2> HIDE DEF b
  <2> QED BY ONLY <2>1, <2>2, NamedIs
<1>3. t.pending[x].body = 0
    BY DEF Unanswered
<1> HIDE DEF b, u
<1>4. Said(u) = Said(t) /\ Unnamed(u) = Unnamed(t)
    BY <1>2 DEF Said, Unnamed
<1>5. Waiting(u) = Waiting(t) \cup {b}
  <2>1. Waiting(u) \subseteq Waiting(t) \cup {b}
    BY <1>2 DEF Waiting
  <2>2. Waiting(t) \subseteq Waiting(u)
    <3> SUFFICES ASSUME NEW i \in DOMAIN t.pending, t.pending[i].body # 0
                 PROVE  t.pending[i].body \in Waiting(u)
      BY DEF Waiting
    <3>1. i # x
      BY <1>3
    <3>2. i \in DOMAIN u.pending /\ u.pending[i].body = t.pending[i].body
      BY <1>2, <3>1
    <3> QED BY <3>2 DEF Waiting
  <2>3. b \in Waiting(u)
    <3>1. x \in DOMAIN u.pending /\ u.pending[x].body = b /\ b # 0
      BY <1>1, <1>2, <1>3
    <3> QED BY <3>1 DEF Waiting
  <2> QED BY <2>1, <2>2, <2>3
<1>6. Once(u)
  <2>1. \A i \in DOMAIN t.pending : t.pending[i].body # b
    BY <1>1 DEF Waiting
  <2>2. \A i, j \in DOMAIN u.pending : u.pending[i].body = u.pending[j].body /\ u.pending[i].body # 0 => i = j
    BY <1>2, <1>3, <2>1 DEF Carries, Once
  <2>3. Said(u) \cap Waiting(u) = {} /\ Said(u) \cap Unnamed(u) = {} /\ Waiting(u) \cap Unnamed(u) = {}
    BY <1>1, <1>4, <1>5 DEF Carries, Once
  <2> QED BY <1>2, <2>2, <2>3 DEF Carries, Once
<1>7. Whole(u, messages, k)
  <2>1. (Said(u) \ {0, Unavailable}) \cup Waiting(u) \cup Unnamed(u) = Bodies(messages, k)
    BY <1>1, <1>4, <1>5 DEF Carries, Whole
  <2>2. \A i \in DOMAIN u.out : u.out[i].body > 0 => \E p \in 1..k : From(u.out[i], messages[p])
    BY <1>1, <1>2 DEF Carries, Whole
  <2>3. Waiting(u) \cup Unnamed(u) \subseteq ToolBodies(messages, k)
    BY <1>1, <1>4, <1>5 DEF Carries, Whole
  <2> QED BY <2>1, <2>2, <2>3 DEF Whole
<1>8. InOrder(u)
    BY <1>2 DEF Carries, InOrder
<1>9. Fits(u)
  <2>1. t.pending # <<>> /\ u.pending # <<>>
    BY <1>2, <1>3
  <2>2. Len(t.anonymous) < Cardinality(Unanswered(t)) /\ Len(t.anonymous) \in Nat
    <3>1. Len(t.anonymous) \in Nat
      BY LoopStateIs, LenProperties
    <3> QED BY <2>1, <1>2, <3>1 DEF Carries, Room
  <2>3. Len(u.anonymous) <= Cardinality(Unanswered(u))
    BY <1>2, <2>2
  <2> QED BY <2>1, <2>3 DEF Fits
<1>10. Full(u, messages, k)
  <2>1. Plain(u)
    BY <1>2 DEF Carries, Plain
  <2> QED BY <1>6, <1>7, <1>8, <1>9, <2>1 DEF Full
<1> QED BY <1>2, <1>10 DEF u, b

\* What a turn that begins leaves: itself, at the end, and its calls, which wait.
LEMMA TurnOut ==
    ASSUME NEW t, Good(t), NEW m, m \in AnyMessage, m.role # "tool"
    PROVE  LET f == Flushed(t)
               u == Turn(t, m)
               n == Len(f.out)
           IN  /\ u \in LoopStates /\ u.anonymous = f.anonymous
               /\ n \in Nat /\ Len(u.out) = n + 1 /\ DOMAIN u.out = 1..(n + 1)
               /\ \A i \in 1..n : u.out[i] = f.out[i]
               /\ u.out[n + 1].role = m.role /\ u.out[n + 1].body = m.body /\ u.out[n + 1].id = m.id
               /\ Len(u.out[n + 1].calls) = Len(m.calls)
               /\ Len(u.pending) = Len(m.calls) /\ DOMAIN u.pending = DOMAIN m.calls
               /\ \A i \in DOMAIN m.calls : u.pending[i].raw = m.calls[i] /\ u.pending[i].body = 0
               /\ u.used = FoldLeft(TakesCall, f, m.calls).used
               /\ u.pending = FoldLeft(TakesCall, f, m.calls).pending
               /\ \A i \in DOMAIN m.calls : u.out[n + 1].calls[i] = u.pending[i].id
<1> DEFINE f == Flushed(t)
           turn == FoldLeft(TakesCall, f, m.calls)
           ids == [i \in DOMAIN turn.pending |-> turn.pending[i].id]
           said == [m EXCEPT !.calls = ids]
           u == Turn(t, m)
           n == Len(f.out)
<1>1. m.calls \in Seq(Nat)
    BY DEF AnyMessage
<1>2. Quiet(f)
    BY FlushedIsQuiet
<1>3. /\ turn \in LoopStates /\ Taking(turn)
      /\ turn.out = f.out /\ turn.anonymous = f.anonymous
      /\ Len(turn.pending) = Len(m.calls) /\ DOMAIN turn.pending = DOMAIN m.calls
      /\ \A i \in DOMAIN m.calls : turn.pending[i].raw = m.calls[i] /\ turn.pending[i].body = 0
    BY <1>1, <1>2, AllTaken
<1>4. u = [turn EXCEPT !.out = Append(@, said)]
    BY DEF Turn
<1> HIDE DEF turn, u, f
<1>5. turn.pending \in Seq(PendingCall) /\ Len(turn.pending) \in Nat
      /\ DOMAIN turn.pending = 1..Len(turn.pending)
    BY <1>3, LoopStateIs, LenProperties
<1>6. ids \in Seq(Nat) /\ Len(ids) = Len(m.calls) /\ \A i \in DOMAIN m.calls : ids[i] = turn.pending[i].id
  <2>1. \A i \in 1..Len(turn.pending) : turn.pending[i].id \in Nat
    <3>1. \A i \in 1..Len(turn.pending) : turn.pending[i] \in PendingCall
      BY <1>5, ElementOfSeq
    <3> QED BY <3>1 DEF PendingCall
  <2> QED BY <1>3, <1>5, <2>1
<1> HIDE DEF ids
<1>7. said \in AnyMessage /\ said.role = m.role /\ said.body = m.body /\ said.id = m.id /\ said.calls = ids
    BY <1>6 DEF AnyMessage
<1> HIDE DEF said
<1> DEFINE more == Append(turn.out, said)
<1>8. n \in Nat /\ turn.out \in Seq(AnyMessage) /\ Len(turn.out) = n
    BY <1>3, LoopStateIs, LenProperties
<1>9. /\ more \in Seq(AnyMessage) /\ Len(more) = n + 1 /\ DOMAIN more = 1..(n + 1)
      /\ (\A i \in 1..n : more[i] = f.out[i]) /\ more[n + 1] = said
    BY <1>3, <1>7, <1>8
<1>10. u = [turn EXCEPT !.out = more]
    BY <1>4
<1> HIDE DEF more
<1>11. turn = [out |-> turn.out, used |-> turn.used, counter |-> turn.counter, pending |-> turn.pending,
               anonymous |-> turn.anonymous]
    BY <1>3, LoopStateIs
<1>12. u = [out |-> more, used |-> turn.used, counter |-> turn.counter, pending |-> turn.pending,
            anonymous |-> turn.anonymous]
    BY <1>10, <1>11
<1>13. u \in LoopStates /\ u.out = more /\ u.pending = turn.pending /\ u.anonymous = turn.anonymous
       /\ u.used = turn.used
    BY <1>3, <1>9, <1>12, LoopStateIs DEF LoopStates
<1> QED BY <1>3, <1>6, <1>7, <1>8, <1>9, <1>13 DEF f, u, turn

\* Where there is room for one result more, those that wait fit.
LEMMA RoomFits == ASSUME NEW t, t \in LoopStates, Room(t) PROVE Fits(t)
<1>1. Len(t.anonymous) \in Nat /\ Cardinality(Unanswered(t)) \in Nat
  <2>1. DOMAIN t.pending = 1..Len(t.pending) /\ Len(t.pending) \in Nat /\ Len(t.anonymous) \in Nat
    BY LoopStateIs, LenProperties
  <2>2. Unanswered(t) \in SUBSET (1..Len(t.pending))
    BY <2>1 DEF Unanswered
  <2> QED BY <2>1, <2>2, RanksGrow
<1> QED BY <1>1 DEF Room, Fits

\* A turn that begins keeps what was carried.
LEMMA TurnKeeps ==
    ASSUME NEW messages, Conversation(messages), NEW k \in 1..Len(messages), messages[k].role # "tool",
           NEW t, Good(t), t \in LoopStates, Carries(t, messages, k - 1)
    PROVE  Carries(Turn(t, messages[k]), messages, k)
<1> DEFINE m == messages[k]
           f == Flushed(t)
           u == Turn(t, m)
           n == Len(f.out)
<1>1. m \in AnyMessage /\ m.body \in Nat /\ m.body > 0
    BY NewBody DEF Carries
<1>2. Len(messages) \in Nat /\ k - 1 \in 0..Len(messages)
    BY LenProperties DEF Conversation
<1>3. Full(t, messages, k - 1)
    BY RoomFits DEF Carries, Full
<1>4. Full(f, messages, k - 1) /\ f \in LoopStates /\ f.pending = <<>> /\ f.anonymous = <<>>
    BY <1>2, <1>3, FlushedKeeps
<1>5. /\ u \in LoopStates /\ u.anonymous = f.anonymous
      /\ n \in Nat /\ Len(u.out) = n + 1 /\ DOMAIN u.out = 1..(n + 1)
      /\ \A i \in 1..n : u.out[i] = f.out[i]
      /\ u.out[n + 1].role = m.role /\ u.out[n + 1].body = m.body /\ u.out[n + 1].id = m.id
      /\ Len(u.out[n + 1].calls) = Len(m.calls)
      /\ Len(u.pending) = Len(m.calls) /\ DOMAIN u.pending = DOMAIN m.calls
      /\ \A i \in DOMAIN m.calls : u.pending[i].raw = m.calls[i] /\ u.pending[i].body = 0
    BY <1>1, TurnOut
<1> HIDE DEF f, u
<1>6. From(u.out[n + 1], m)
    BY <1>5 DEF From
<1>7. \A i \in (n + 1)..(n + 1 - 1) : u.out[i].body = 0 /\ u.out[i].role # "tool"
    BY <1>5
<1>8. Once(u) /\ Whole(u, messages, k) /\ InOrder(u) /\ Plain(u)
    BY <1>4, <1>5, <1>6, <1>7, OutGrows
<1>9. Room(u)
  <2>1. CASE u.pending = <<>>
    BY <1>4, <1>5, <2>1 DEF Room
  <2>2. CASE u.pending # <<>>
    <3>1. DOMAIN u.pending = 1..Len(u.pending) /\ Len(u.pending) \in Nat
      BY <1>5, LoopStateIs, LenProperties
    <3>2. Unanswered(u) = 1..Len(u.pending)
      BY <1>5, <3>1 DEF Unanswered
    <3>3. Len(u.pending) > 0
      BY <1>5, <2>2, <3>1, LoopStateIs, EmptySeq
    <3> DEFINE c == Len(u.pending)
    <3>4. Cardinality(Unanswered(u)) = c
      <4>1. c \in Nat /\ c > 0 /\ Unanswered(u) = 1..c
        BY <3>1, <3>2, <3>3
      <4> HIDE DEF c
      <4>2. Cardinality(1..c) = c
        <5>1. Cardinality(1..c) = IF 1 > c THEN 0 ELSE c - 1 + 1
          BY ONLY <4>1, FS_Interval
        <5> QED BY <4>1, <5>1
      <4> QED BY <4>1, <4>2
    <3>5. Len(u.anonymous) = 0
      BY <1>4, <1>5
    <3> QED BY <2>2, <3>3, <3>4, <3>5 DEF Room
  <2> QED BY <2>1, <2>2
<1> QED BY <1>8, <1>9 DEF Carries, u

\* So does a result, whoever it answers.
LEMMA AnswerKeeps ==
    ASSUME NEW messages, Conversation(messages), NEW k \in 1..Len(messages), messages[k].role = "tool",
           NEW t, Good(t), t \in LoopStates, Carries(t, messages, k - 1)
    PROVE  Carries(Answer(t, messages[k]), messages, k)
<1> DEFINE m == messages[k]
<1>1. m \in AnyMessage /\ m.body \in Nat /\ m.body > 0 /\ m.role = "tool" /\ m.calls = <<>>
  <2>1. k \in DOMAIN messages
    BY LenProperties DEF Conversation
  <2> QED BY <2>1, NewBody DEF Carries, Conversation, Numbered
<1>2. Len(messages) \in Nat /\ k - 1 \in 0..Len(messages) /\ k \in 0..Len(messages)
    BY LenProperties DEF Conversation
<1>3. CASE m.id = 0 /\ t.pending # <<>>
  <2> DEFINE u == More(t, m.body)
  <2>1. u \in LoopStates /\ Full(u, messages, k)
    BY <1>3, UnnamedKeeps
  <2>2. Answer(t, m) = FlushedIfWhole(u)
    BY <1>3 DEF Answer, More
  <2> HIDE DEF u
  <2> QED BY <1>2, <2>1, <2>2, FlushedIfWholeKeeps
<1>4. CASE m.id # 0 /\ Targets(t, m.id) # {}
  <2> DEFINE x == Min(Targets(t, m.id))
             u == With(t, x, m.body)
  <2>1. x \in Unanswered(t)
    <3>1. DOMAIN t.pending \subseteq Nat
      BY LoopStateIs, LenProperties
    <3>2. Targets(t, m.id) \subseteq Nat /\ Targets(t, m.id) \subseteq Unanswered(t)
      BY <3>1 DEF Targets, Unanswered
    <3> QED BY <1>4, <3>2, MinExists
  <2> HIDE DEF x
  <2>2. u \in LoopStates /\ Full(u, messages, k)
    BY <2>1, NamedKeeps
  <2>3. Answer(t, m) = FlushedIfWhole(u)
    BY <1>4 DEF Answer, With, x
  <2> HIDE DEF u
  <2> QED BY <1>2, <2>2, <2>3, FlushedIfWholeKeeps
<1>5. CASE ~(m.id = 0 /\ t.pending # <<>>) /\ ~(m.id # 0 /\ Targets(t, m.id) # {})
  <2> DEFINE f == Flushed(t)
             u == Orphan(f, m)
             n == Len(f.out)
             fresh == FreshId(f, m.id)
  <2>1. Answer(t, m) = u
    BY <1>5 DEF Answer
  <2>2. Full(f, messages, k - 1) /\ f \in LoopStates /\ f.pending = <<>> /\ f.anonymous = <<>>
    <3>1. Full(t, messages, k - 1)
      BY RoomFits DEF Carries, Full
    <3> QED BY <1>2, <3>1, FlushedKeeps
  <2>3. Quiet(f)
    BY FlushedIsQuiet
  <2> HIDE DEF f
  <2>4. /\ u \in LoopStates /\ n \in Nat /\ DOMAIN f.out = 1..n
        /\ u.pending = f.pending /\ u.anonymous = f.anonymous
        /\ Len(u.out) = n + 2 /\ DOMAIN u.out = 1..(n + 2)
        /\ \A i \in 1..n : u.out[i] = f.out[i]
        /\ u.out[n + 1] = Message("assistant", <<fresh.id>>, 0, 0)
        /\ u.out[n + 2] = Message("tool", <<>>, fresh.id, m.body)
    BY <1>1, <2>3, OrphanOut
  <2> HIDE DEF u, fresh
  <2>5. u.out[n + 1].body = 0 /\ u.out[n + 1].role # "tool"
    BY <2>4 DEF Message
  <2>6. From(u.out[n + 2], m) /\ u.out[n + 2].calls = <<>>
    BY <1>1, <2>4 DEF Message, From
  <2>7. \A i \in (n + 1)..(n + 2 - 1) : u.out[i].body = 0 /\ u.out[i].role # "tool"
    <3>1. \A i \in (n + 1)..(n + 2 - 1) : i = n + 1
      BY <2>4
    <3> QED BY <2>5, <3>1
  <2>8. \A i \in DOMAIN u.pending : u.pending[i].body = 0
    BY <2>2, <2>4
  <2>9. Once(u) /\ Whole(u, messages, k) /\ InOrder(u) /\ Plain(u)
    BY <2>2, <2>4, <2>6, <2>7, <2>8, OutGrows
  <2> QED BY <2>1, <2>2, <2>4, <2>9 DEF Carries, Room
<1> QED BY <1>3, <1>4, <1>5

\* Before anything is heard, there is nothing to carry.
LEMMA StartCarries == ASSUME NEW messages PROVE Carries(Start, messages, 0)
<1>1. DOMAIN Start.out = {} /\ DOMAIN Start.pending = {} /\ DOMAIN Start.anonymous = {} /\ Start.pending = <<>>
      /\ Start.anonymous = <<>>
    BY DEF Start
<1>2. Said(Start) = {} /\ Waiting(Start) = {} /\ Unnamed(Start) = {}
    BY <1>1 DEF Said, Waiting, Unnamed
<1>3. 1..0 = {}
    OBVIOUS
<1>4. Once(Start)
    BY <1>1, <1>2 DEF Once
<1>5. Whole(Start, messages, 0)
    BY <1>1, <1>2, <1>3 DEF Whole, Bodies
<1>6. InOrder(Start) /\ Plain(Start) /\ Room(Start)
    BY <1>1 DEF InOrder, Plain, Room
<1> QED BY <1>4, <1>5, <1>6 DEF Carries

\* Nothing is lost on the way.
LEMMA NormalizedCarries ==
    ASSUME NEW messages, Conversation(messages)
    PROVE  \E run : /\ Repaired(messages, run) /\ Normalized(messages) = Flushed(run[Len(messages)]).out
                    /\ \A k \in 0..Len(messages) : run[k] \in LoopStates /\ Good(run[k]) /\ Carries(run[k], messages, k)
<1> DEFINE n == Len(messages)
<1>1. messages \in Seq(AnyMessage) /\ n \in Nat
    BY LenProperties DEF Conversation
<1>2. PICK run : /\ Repaired(messages, run) /\ Normalized(messages) = Flushed(run[n]).out
                 /\ \A k \in 0..n : run[k] \in LoopStates /\ Good(run[k])
    BY <1>1, NormalizedRun
<1> DEFINE S == {k \in 0..n : Carries(run[k], messages, k)}
<1>3. 0 \in S
    BY <1>1, <1>2, StartCarries DEF Repaired
<1>4. ASSUME NEW k \in 1..n, k - 1 \in S PROVE k \in S
  <2>1. run[k] = Step(run[k - 1], messages[k])
    BY <1>2 DEF Repaired
  <2>2. run[k - 1] \in LoopStates /\ Good(run[k - 1]) /\ Carries(run[k - 1], messages, k - 1) /\ k \in 0..n
    BY <1>1, <1>2, <1>4
  <2>3. Carries(Step(run[k - 1], messages[k]), messages, k)
    BY <2>2, AnswerKeeps, TurnKeeps DEF Step
  <2> QED BY <2>1, <2>2, <2>3
<1> HIDE DEF S
<1>5. \A k \in 0..n : k \in S
    BY <1>1, <1>3, <1>4, ToTheEnd
<1>6. \A k \in 0..n : Carries(run[k], messages, k)
    BY <1>5 DEF S
<1> QED BY <1>2, <1>6

\* Nor at the end.
LEMMA NormalizedKeeps ==
    ASSUME NEW messages, Conversation(messages)
    PROVE  \E t \in LoopStates : /\ t.out = Normalized(messages) /\ t.pending = <<>> /\ t.anonymous = <<>>
                                 /\ Full(t, messages, Len(messages))
<1> DEFINE n == Len(messages)
<1>1. n \in Nat /\ n \in 0..n
    BY LenProperties DEF Conversation
<1>2. PICK run : /\ Repaired(messages, run) /\ Normalized(messages) = Flushed(run[n]).out
                 /\ \A k \in 0..n : run[k] \in LoopStates /\ Good(run[k]) /\ Carries(run[k], messages, k)
    BY NormalizedCarries
<1>3. Full(run[n], messages, n) /\ run[n] \in LoopStates
    BY <1>1, <1>2, RoomFits DEF Carries, Full
<1>4. /\ Full(Flushed(run[n]), messages, n) /\ Flushed(run[n]) \in LoopStates
      /\ Flushed(run[n]).pending = <<>> /\ Flushed(run[n]).anonymous = <<>>
    BY <1>1, <1>3, FlushedKeeps
<1> QED BY <1>2, <1>4

\* What the client said is there once, as it was and in its order, and nothing else is.
Keeps(sent, messages) ==
    /\ \A m \in ToSet(messages) : \E i \in DOMAIN sent :
         /\ {h \in DOMAIN sent : sent[h].body = m.body} = {i}
         /\ sent[i].role = m.role /\ Len(sent[i].calls) = Len(m.calls)
    /\ \A i \in DOMAIN sent :
         sent[i].body \in {0, Unavailable} \/ \E m \in ToSet(messages) : sent[i].body = m.body
    /\ \A i, j \in DOMAIN sent :
         /\ i < j
         /\ sent[i].role # "tool" /\ sent[i].body # 0
         /\ sent[j].role # "tool" /\ sent[j].body # 0
         => sent[i].body < sent[j].body

\* Of every conversation the repaired one keeps all (normalize_tool_protocol()).
LEMMA NormalizedKeepsAll ==
    ASSUME NEW messages, Conversation(messages)
    PROVE  Keeps(Normalized(messages), messages)
<1> DEFINE n == Len(messages)
           sent == Normalized(messages)
<1>1. PICK t \in LoopStates : /\ t.out = sent /\ t.pending = <<>> /\ t.anonymous = <<>> /\ Full(t, messages, n)
    BY NormalizedKeeps
<1>2. messages \in Seq(AnyMessage) /\ n \in Nat /\ DOMAIN messages = 1..n /\ n \in 0..n
    BY LenProperties DEF Conversation
<1>3. Waiting(t) = {} /\ Unnamed(t) = {}
    BY <1>1 DEF Waiting, Unnamed
<1>4. Said(t) \ {0, Unavailable} = Bodies(messages, n)
    BY <1>1, <1>3 DEF Full, Whole
<1>5. \A p \in 1..n : messages[p].body \in Nat /\ messages[p].body > 0 /\ messages[p] \in ToSet(messages)
    BY <1>2, ToolsAre DEF ToSet
<1>6. \A m \in ToSet(messages) : \E p \in 1..n : m = messages[p]
    BY <1>2 DEF ToSet
<1> HIDE DEF sent, n
<1>7. ASSUME NEW m \in ToSet(messages)
      PROVE  \E i \in DOMAIN sent : /\ {h \in DOMAIN sent : sent[h].body = m.body} = {i}
                                    /\ sent[i].role = m.role /\ Len(sent[i].calls) = Len(m.calls)
  <2>1. PICK p \in 1..n : m = messages[p]
    BY <1>6
  <2>2. m.body \in Said(t) /\ m.body > 0
    BY <1>4, <1>5, <2>1 DEF Bodies
  <2>3. PICK i \in DOMAIN sent : sent[i].body = m.body
    BY <1>1, <2>2 DEF Said
  <2>4. \A h \in DOMAIN sent : sent[h].body = m.body => h = i
    BY <1>1, <2>2, <2>3 DEF Full, Once
  <2>5. PICK q \in 1..n : From(sent[i], messages[q])
    BY <1>1, <2>2, <2>3 DEF Full, Whole
  <2>6. q = p
    <3>1. messages[q].body = messages[p].body
      BY <2>1, <2>3, <2>5 DEF From
    <3>2. \A x, y \in 1..n : x < y => messages[x].body < messages[y].body
      BY <1>2 DEF Conversation, Numbered
    <3>3. messages[q].body \in Nat /\ messages[p].body \in Nat
      BY <1>5
    <3>4. ~(q < p) /\ ~(p < q)
      BY <3>1, <3>2, <3>3
    <3> QED BY <1>2, <3>4
  <2>7. {h \in DOMAIN sent : sent[h].body = m.body} = {i}
    BY <2>3, <2>4
  <2>8. sent[i].role = m.role /\ Len(sent[i].calls) = Len(m.calls)
    BY <2>1, <2>5, <2>6 DEF From
  <2> QED BY <2>7, <2>8
<1>8. ASSUME NEW i \in DOMAIN sent
      PROVE  sent[i].body \in {0, Unavailable} \/ \E m \in ToSet(messages) : sent[i].body = m.body
  <2>1. sent[i].body \in Said(t)
    BY <1>1 DEF Said
  <2>2. CASE sent[i].body \in {0, Unavailable}
    BY <2>2
  <2>3. CASE sent[i].body \in Bodies(messages, n)
    BY <1>5, <2>3 DEF Bodies
  <2> QED BY <1>4, <2>1, <2>2, <2>3
<1>9. \A i, j \in DOMAIN sent :
        /\ i < j
        /\ sent[i].role # "tool" /\ sent[i].body # 0
        /\ sent[j].role # "tool" /\ sent[j].body # 0
        => sent[i].body < sent[j].body
    BY <1>1 DEF Full, InOrder
<1> QED BY <1>7, <1>8, <1>9 DEF Keeps, sent

-----------------------------------------------------------------------------
(* What has been repaired is repaired as it is *)

\* Calls whose ids nobody has used keep them.
LEMMA TakenAsTheyAre ==
    ASSUME NEW t, Quiet(t), NEW calls, calls \in Seq(Nat),
           \A i \in DOMAIN calls : calls[i] # 0 /\ calls[i] \notin t.used,
           \A i, j \in DOMAIN calls : calls[i] = calls[j] => i = j
    PROVE  LET turn == FoldLeft(TakesCall, t, calls)
           IN  /\ \A i \in DOMAIN calls : turn.pending[i].id = calls[i]
               /\ \A x \in turn.used : x \in t.used \/ \E i \in DOMAIN calls : x = calls[i]
<1> DEFINE n == Len(calls)
<1>1. PICK run : /\ Taken(calls, t, run) /\ run[n] = FoldLeft(TakesCall, t, calls)
                 /\ \A k \in 0..n : run[k] \in LoopStates /\ Taking(run[k])
    BY CallsRun
<1>2. n \in Nat /\ DOMAIN calls = 1..n /\ \A i \in 1..n : calls[i] \in Nat
    BY LenProperties, ElementOfSeq
<1> DEFINE Are(k) == /\ Len(run[k].pending) = k /\ \A i \in 1..k : run[k].pending[i].id = calls[i]
                     /\ \A x \in run[k].used : x \in t.used \/ \E i \in 1..k : x = calls[i]
           S == {k \in 0..n : Are(k)}
<1>3. 0 \in S
  <2>1. run[0] = t /\ t.pending = <<>>
    BY <1>1 DEF Taken, Quiet
  <2>2. Are(0)
    BY <2>1
  <2> QED BY <1>2, <2>2
<1>4. ASSUME NEW k \in 1..n, k - 1 \in S PROVE k \in S
  <2> DEFINE v == run[k - 1]
             call == [id |-> FreshId(v, calls[k]).id, raw |-> calls[k], body |-> 0]
  <2>1. k - 1 \in 0..n /\ Are(k - 1) /\ k \in DOMAIN calls
    BY <1>2, <1>4
  <2>2. v \in LoopStates /\ Taking(v) /\ calls[k] \in Nat
    BY <1>1, <1>2, <2>1
  <2>3. run[k] = TakesCall(v, calls[k])
    BY <1>1 DEF Taken
  <2>4. calls[k] # 0 /\ calls[k] \notin v.used
    <3>1. \A i \in 1..(k - 1) : i \in DOMAIN calls /\ i # k
      BY <1>2
    <3>2. \A i \in 1..(k - 1) : calls[i] # calls[k]
      BY <2>1, <3>1
    <3>3. \A x \in v.used : x \in t.used \/ \E i \in 1..(k - 1) : x = calls[i]
      BY <2>1
    <3> QED BY <2>1, <3>2, <3>3
  <2>5. FreshId(v, calls[k]).id = calls[k]
    <3> HIDE DEF v
    <3> QED BY <2>4 DEF FreshId
  <2>6. run[k].pending = Append(v.pending, call) /\ run[k].used = v.used \cup {calls[k]}
    <3> HIDE DEF v
    <3> QED BY <2>2, <2>3, <2>5, TakingGoesOn
  <2>7. call.id = calls[k]
    BY <2>5
  <2>8. call \in PendingCall
    BY <2>2, <2>5 DEF PendingCall
  <2> HIDE DEF call
  <2>9. v.pending \in Seq(PendingCall) /\ Len(v.pending) = k - 1
    <3>1. Len(v.pending) = k - 1
      BY <2>1
    <3> HIDE DEF v
    <3> QED BY <2>2, <3>1, LoopStateIs
  <2>10. /\ Len(Append(v.pending, call)) = k
         /\ \A i \in 1..(k - 1) : Append(v.pending, call)[i] = v.pending[i]
         /\ Append(v.pending, call)[k] = call
    <3> HIDE DEF v
    <3> QED BY <2>8, <2>9
  <2>11. ASSUME NEW i \in 1..k PROVE run[k].pending[i].id = calls[i]
    <3>1. CASE i = k
      BY <2>6, <2>7, <2>10, <3>1
    <3>2. CASE i # k
      <4>1. i \in 1..(k - 1)
        BY <3>2
      <4> QED BY <2>1, <2>6, <2>10, <4>1
    <3> QED BY <3>1, <3>2
  <2>12. ASSUME NEW x \in run[k].used PROVE x \in t.used \/ \E i \in 1..k : x = calls[i]
    <3>1. CASE x = calls[k]
      <4>1. k \in 1..k
        OBVIOUS
      <4> QED BY <3>1, <4>1
    <3>2. CASE x \in v.used
      <4>1. \A i \in 1..(k - 1) : i \in 1..k
        OBVIOUS
      <4> QED BY <2>1, <3>2, <4>1
    <3> QED BY <2>6, <2>12, <3>1, <3>2
  <2>13. Are(k)
    BY <2>6, <2>10, <2>11, <2>12
  <2> QED BY <2>13
<1> HIDE DEF S
<1>5. \A k \in 0..n : k \in S
    BY <1>2, <1>3, <1>4, ToTheEnd
<1>6. n \in S
    BY <1>2, <1>5
<1>7. Are(n)
    BY <1>6 DEF S
<1> QED BY <1>1, <1>2, <1>7

\* A list that is strict, of which each result has a body and makes no call.
Settled(list) ==
    /\ list \in Seq(AnyMessage) /\ IsStrict(list)
    /\ \A i \in DOMAIN list : list[i].role = "tool" => list[i].body # 0 /\ list[i].calls = <<>>

\* Its turns: each call has its result in its place, and each result is one.
LEMMA SettledTurns ==
    ASSUME NEW list, Settled(list)
    PROVE  /\ Len(list) \in Nat /\ DOMAIN list = 1..Len(list) /\ \A i \in DOMAIN list : list[i] \in AnyMessage
           /\ \A j \in DOMAIN list : \A c \in DOMAIN list[j].calls :
                /\ j + c \in DOMAIN list /\ list[j + c].role = "tool" /\ list[j + c].id = list[j].calls[c]
                /\ list[j + c].calls = <<>> /\ list[j + c].body # 0
                /\ list[j].role # "tool" /\ list[j].calls[c] # 0
                /\ \A h \in DOMAIN list : \A l \in DOMAIN list[h].calls :
                     list[h].calls[l] = list[j].calls[c] => h = j /\ l = c
           /\ \A i \in DOMAIN list : list[i].role = "tool" =>
                \E j \in DOMAIN list : \E c \in DOMAIN list[j].calls : i = j + c
           /\ \A j \in DOMAIN list : /\ list[j].calls \in Seq(Nat) /\ Len(list[j].calls) \in Nat
                                     /\ DOMAIN list[j].calls = 1..Len(list[j].calls)
<1>1. Len(list) \in Nat /\ DOMAIN list = 1..Len(list) /\ \A i \in DOMAIN list : list[i] \in AnyMessage
    BY LenProperties, ElementOfSeq DEF Settled
<1>2. ASSUME NEW j \in DOMAIN list
      PROVE  /\ list[j].calls \in Seq(Nat) /\ Len(list[j].calls) \in Nat
             /\ DOMAIN list[j].calls = 1..Len(list[j].calls)
  <2>1. list[j].calls \in Seq(Nat)
    BY <1>1 DEF AnyMessage
  <2> QED BY <2>1, LenProperties
<1>3. ASSUME NEW j \in DOMAIN list, NEW c \in DOMAIN list[j].calls
      PROVE  /\ j + c \in DOMAIN list /\ list[j + c].role = "tool" /\ list[j + c].id = list[j].calls[c]
             /\ list[j + c].calls = <<>> /\ list[j + c].body # 0
             /\ list[j].role # "tool" /\ list[j].calls[c] # 0
             /\ \A h \in DOMAIN list : \A l \in DOMAIN list[h].calls :
                  list[h].calls[l] = list[j].calls[c] => h = j /\ l = c
  <2>1. PICK i \in Results(list) : Follows(list, i, j, c)
    BY DEF Settled, IsStrict
  <2>2. i = j + c /\ i \in DOMAIN list /\ list[i].role = "tool" /\ list[i].id = list[j].calls[c]
    BY <2>1 DEF Results, Follows
  <2>3. list[j].role # "tool"
    BY <1>3 DEF Settled
  <2>4. list[i].calls = <<>> /\ list[i].body # 0
    BY <2>2 DEF Settled
  <2>5. /\ list[j].calls[c] # 0
        /\ \A h \in DOMAIN list : \A l \in DOMAIN list[h].calls :
             list[h].calls[l] = list[j].calls[c] => h = j /\ l = c
    BY DEF Settled, IsStrict
  <2> QED BY <2>2, <2>3, <2>4, <2>5
<1>4. ASSUME NEW i \in DOMAIN list, list[i].role = "tool"
      PROVE  \E j \in DOMAIN list : \E c \in DOMAIN list[j].calls : i = j + c
  <2>1. i \in Results(list)
    BY <1>4 DEF Results
  <2> QED BY <2>1 DEF Settled, IsStrict, Follows
<1> QED BY <1>1, <1>2, <1>3, <1>4

\* Of one call.
LEMMA SettledCall ==
    ASSUME NEW list, Settled(list), NEW j \in DOMAIN list, NEW c \in DOMAIN list[j].calls
    PROVE  /\ j + c \in DOMAIN list /\ list[j + c].role = "tool" /\ list[j + c].id = list[j].calls[c]
           /\ list[j + c].calls = <<>> /\ list[j + c].body # 0
           /\ list[j].role # "tool" /\ list[j].calls[c] # 0
           /\ \A h \in DOMAIN list : \A l \in DOMAIN list[h].calls :
                list[h].calls[l] = list[j].calls[c] => h = j /\ l = c
BY SettledTurns

\* After k messages of a settled list what is out is the list itself: up to its
\* place k, with no turn open, or up to a turn, with the results that came after it.
Copied(t, list, k) == Len(t.out) = k /\ \A i \in 1..k : t.out[i] = list[i]
Closed(list, k) == \A j \in 1..k : j + Len(list[j].calls) <= k
Resting(t, list, k) == t.pending = <<>> /\ Copied(t, list, k) /\ Closed(list, k)
Owed(t, list, j, k) ==
    /\ Len(t.pending) = Len(list[j].calls)
    /\ \A i \in DOMAIN list[j].calls :
         /\ t.pending[i].id = list[j].calls[i] /\ t.pending[i].raw = list[j].calls[i]
         /\ t.pending[i].body = IF i <= k - j THEN list[j + i].body ELSE 0
InTurn(t, list, j, k) ==
    k - j < Len(list[j].calls) /\ Copied(t, list, j) /\ Owed(t, list, j, k) /\ Closed(list, j - 1)
Repeats(t, list, k) ==
    /\ t.anonymous = <<>>
    /\ \A x \in t.used : \E j \in 1..k : \E i \in DOMAIN list[j].calls : x = list[j].calls[i]
    /\ Resting(t, list, k) \/ \E j \in 1..k : InTurn(t, list, j, k)

\* A result of a settled list is of the turn that is open, and of its next call.
LEMMA NextResult ==
    ASSUME NEW list, Settled(list), NEW k \in 1..Len(list), list[k].role = "tool",
           NEW t, Repeats(t, list, k - 1)
    PROVE  \E j \in 1..(k - 1) : InTurn(t, list, j, k - 1) /\ k - j \in DOMAIN list[j].calls
<1>1. PICK j \in DOMAIN list : \E c \in DOMAIN list[j].calls : k = j + c
    BY SettledTurns
<1>2. PICK c \in DOMAIN list[j].calls : k = j + c
    BY <1>1
<1>3. /\ Len(list) \in Nat /\ DOMAIN list = 1..Len(list)
      /\ \A x \in DOMAIN list : Len(list[x].calls) \in Nat /\ DOMAIN list[x].calls = 1..Len(list[x].calls)
    BY SettledTurns
<1>4. j \in 1..(k - 1) /\ c = k - j /\ c <= Len(list[j].calls) /\ c > 0 /\ Len(list[j].calls) \in Nat
    BY <1>2, <1>3
<1>5. ~Resting(t, list, k - 1)
  <2> SUFFICES ASSUME j + Len(list[j].calls) <= k - 1 PROVE FALSE
    BY <1>4 DEF Resting, Closed
  <2> QED BY <1>3, <1>4
<1>6. PICK i \in 1..(k - 1) : InTurn(t, list, i, k - 1)
    BY <1>5 DEF Repeats
<1>7. ~(j < i)
  <2> SUFFICES ASSUME j < i PROVE FALSE
    OBVIOUS
  <2>1. j \in 1..(i - 1)
    BY <1>4, <1>6
  <2>2. j + Len(list[j].calls) <= i - 1
    BY <1>6, <2>1 DEF InTurn, Closed
  <2> QED BY <1>4, <1>6, <2>2
<1>8. ~(i < j)
  <2> SUFFICES ASSUME i < j PROVE FALSE
    OBVIOUS
  <2>1. k - 1 - i < Len(list[i].calls) /\ i \in DOMAIN list
    BY <1>3, <1>6 DEF InTurn
  <2>2. j - i \in DOMAIN list[i].calls /\ j = i + (j - i)
    BY <1>3, <1>4, <1>6, <2>1
  <2>3. list[j].role = "tool"
    BY <2>1, <2>2, SettledTurns
  <2> QED BY <2>3, SettledTurns
<1>9. i = j
    BY <1>4, <1>6, <1>7, <1>8
<1> QED BY <1>2, <1>4, <1>6, <1>9

\* Which it answers, and at the last the turn is out as it came.
LEMMA ResultRepeats ==
    ASSUME NEW list, Settled(list), NEW k \in 1..Len(list), list[k].role = "tool",
           NEW t, t \in LoopStates, Repeats(t, list, k - 1)
    PROVE  Repeats(Answer(t, list[k]), list, k)
<1>1. PICK j \in 1..(k - 1) : InTurn(t, list, j, k - 1) /\ k - j \in DOMAIN list[j].calls
    BY NextResult
<1> DEFINE c == k - j
           m == list[k]
           calls == list[j].calls
           n == Len(calls)
           u == With(t, c, m.body)
<1>2. /\ Len(list) \in Nat /\ DOMAIN list = 1..Len(list) /\ j \in DOMAIN list /\ k \in DOMAIN list
      /\ n \in Nat /\ DOMAIN calls = 1..n /\ c \in 1..n /\ j + c = k /\ k \in Nat /\ j \in Nat
    BY <1>1, SettledTurns
<1>3. /\ \A i \in 1..n : /\ j + i \in DOMAIN list /\ list[j + i].role = "tool" /\ list[j + i].id = calls[i]
                         /\ list[j + i].calls = <<>> /\ list[j + i].body # 0 /\ list[j + i] \in AnyMessage
                         /\ calls[i] # 0
      /\ \A i, h \in 1..n : calls[i] = calls[h] => i = h
  <2>1. ASSUME NEW i \in 1..n
        PROVE  /\ j + i \in DOMAIN list /\ list[j + i].role = "tool" /\ list[j + i].id = calls[i]
               /\ list[j + i].calls = <<>> /\ list[j + i].body # 0 /\ calls[i] # 0
    <3>1. i \in DOMAIN list[j].calls
      BY <1>2
    <3>2. j \in DOMAIN list
      BY <1>2
    <3> HIDE DEF n
    <3> QED BY <3>1, <3>2, SettledCall
  <2>2. \A i \in 1..n : list[j + i] \in AnyMessage
    BY <2>1, SettledTurns
  <2>3. ASSUME NEW i \in 1..n, NEW h \in 1..n, calls[i] = calls[h] PROVE i = h
    <3>1. i \in DOMAIN list[j].calls /\ h \in DOMAIN list[j].calls
      BY <1>2
    <3>2. j \in DOMAIN list
      BY <1>2
    <3> HIDE DEF n
    <3> QED BY <2>3, <3>1, <3>2, SettledCall
  <2> QED BY <2>1, <2>2, <2>3
<1>4. m.id = calls[c] /\ m.id # 0 /\ m.body # 0 /\ m.body \in Int
    BY <1>2, <1>3 DEF AnyMessage
<1>5. /\ Len(t.pending) = n /\ DOMAIN t.pending = 1..n /\ Copied(t, list, j) /\ Closed(list, j - 1)
      /\ \A i \in 1..n : /\ t.pending[i].id = calls[i] /\ t.pending[i].raw = calls[i]
                         /\ t.pending[i].body = IF i <= k - 1 - j THEN list[j + i].body ELSE 0
  <2>1. Owed(t, list, j, k - 1) /\ Copied(t, list, j) /\ Closed(list, j - 1)
    BY <1>1 DEF InTurn
  <2>2. Len(t.pending) = n /\ DOMAIN t.pending = 1..Len(t.pending)
    BY <2>1, LoopStateIs, LenProperties DEF Owed
  <2> QED BY <1>2, <2>1, <2>2 DEF Owed
<1> HIDE DEF c, m, calls, n, u
<1>6. t.pending[c].body = 0
    BY <1>2, <1>5 DEF c
<1>7. Targets(t, m.id) = {c}
  <2>1. c \in DOMAIN t.pending /\ t.pending[c].raw = m.id
    BY <1>2, <1>4, <1>5
  <2>2. \A i \in DOMAIN t.pending : t.pending[i].raw = m.id => i = c
    BY <1>2, <1>3, <1>4, <1>5
  <2> QED BY <1>6, <2>1, <2>2 DEF Targets
<1>8. Min({c}) = c
  <2>1. {c} # {} /\ {c} \subseteq Nat
    BY <1>2
  <2> QED BY <2>1, MinExists
<1>9. Answer(t, m) = FlushedIfWhole(u)
    BY <1>4, <1>7, <1>8 DEF Answer, With, u
<1>10. c \in Unanswered(t)
    BY <1>2, <1>5, <1>6 DEF Unanswered
<1>11. /\ u \in LoopStates /\ u.out = t.out /\ u.used = t.used /\ u.anonymous = t.anonymous
       /\ Len(u.pending) = Len(t.pending) /\ DOMAIN u.pending = DOMAIN t.pending
       /\ \A i \in DOMAIN t.pending :
            /\ u.pending[i].id = t.pending[i].id /\ u.pending[i].raw = t.pending[i].raw
            /\ u.pending[i].body = IF i = c THEN m.body ELSE t.pending[i].body
       /\ Unanswered(u) = Unanswered(t) \ {c}
  <2>1. t \in LoopStates /\ c \in Unanswered(t) /\ m.body \in Int /\ m.body # 0
    BY <1>4, <1>10
  <2> DEFINE b == m.body
  <2>2. b \in Int /\ b # 0 /\ u = With(t, c, b)
    BY <2>1 DEF u
  <2> HIDE DEF b
  <2>3. /\ With(t, c, b) \in LoopStates /\ With(t, c, b).out = t.out /\ With(t, c, b).used = t.used
        /\ With(t, c, b).anonymous = t.anonymous
    BY ONLY <2>1, <2>2, NamedIs
  <2>4. /\ Len(With(t, c, b).pending) = Len(t.pending) /\ DOMAIN With(t, c, b).pending = DOMAIN t.pending
    BY ONLY <2>1, <2>2, NamedIs
  <2>5. \A i \in DOMAIN t.pending :
                 /\ With(t, c, b).pending[i].id = t.pending[i].id /\ With(t, c, b).pending[i].raw = t.pending[i].raw
                 /\ With(t, c, b).pending[i].body = IF i = c THEN b ELSE t.pending[i].body
    BY ONLY <2>1, <2>2, NamedIs
  <2>6. Unanswered(With(t, c, b)) = Unanswered(t) \ {c}
    BY ONLY <2>1, <2>2, NamedIs
  <2> QED BY <2>2, <2>3, <2>4, <2>5, <2>6 DEF b
<1>12. \A i \in 1..n : /\ u.pending[i].id = calls[i] /\ u.pending[i].raw = calls[i]
                       /\ u.pending[i].body = IF i <= c THEN list[j + i].body ELSE 0
  <2> SUFFICES ASSUME NEW i \in 1..n
               PROVE  /\ u.pending[i].id = calls[i] /\ u.pending[i].raw = calls[i]
                      /\ u.pending[i].body = IF i <= c THEN list[j + i].body ELSE 0
    OBVIOUS
  <2>1. CASE i = c
    <3>1. c \in DOMAIN t.pending /\ u.pending[c].body = m.body /\ list[j + c] = m
      BY <1>2, <1>5, <1>11 DEF m
    <3>2. c <= c
      BY <1>2
    <3> QED BY <1>5, <1>11, <2>1, <3>1, <3>2
  <2>2. CASE i # c
    <3>1. i <= k - 1 - j <=> i <= c
      BY <1>2, <2>2
    <3> QED BY <1>5, <1>11, <2>2, <3>1
  <2> QED BY <2>1, <2>2
<1>13. Unanswered(u) = {i \in 1..n : i > c}
  <2>1. DOMAIN u.pending = 1..n
    BY <1>5, <1>11
  <2>2. ASSUME NEW i \in 1..n PROVE u.pending[i].body = 0 <=> i > c
    <3>1. u.pending[i].body = (IF i <= c THEN list[j + i].body ELSE 0) /\ list[j + i].body # 0
      BY <1>3, <1>12
    <3>2. i > c <=> ~(i <= c)
      BY <1>2
    <3> QED BY <3>1, <3>2
  <2> QED BY <2>1, <2>2 DEF Unanswered
<1>14. u.anonymous = <<>> /\ Len(u.anonymous) = 0
    BY <1>11 DEF Repeats
<1>15. IsFiniteSet(Unanswered(u))
  <2>1. Unanswered(u) \in SUBSET (1..n)
    BY <1>13
  <2> QED BY <1>2, <2>1, RanksGrow
<1>16. ASSUME NEW v, v.used = t.used
       PROVE  \A x \in v.used : \E h \in 1..k : \E i \in DOMAIN list[h].calls : x = list[h].calls[i]
  <2>1. \A h \in 1..(k - 1) : h \in 1..k
    BY <1>2
  <2> QED BY <1>16, <2>1 DEF Repeats
<1>17. CASE c < n
  <2>1. n \in Unanswered(u)
    BY <1>2, <1>13, <1>17
  <2>2. Cardinality(Unanswered(u)) # Len(u.anonymous)
    BY <1>14, <1>15, <2>1, FS_EmptySet
  <2>3. Answer(t, m) = u
    BY <1>9, <2>2 DEF FlushedIfWhole
  <2>4. Owed(u, list, j, k)
    BY <1>2, <1>5, <1>11, <1>12 DEF Owed, calls, c, n
  <2>5. InTurn(u, list, j, k)
    BY <1>2, <1>5, <1>11, <1>17, <2>4 DEF InTurn, Copied, c, n, calls
  <2>6. j \in 1..k
    BY <1>2
  <2> QED BY <1>11, <1>14, <1>16, <2>3, <2>5, <2>6 DEF Repeats, m
<1>18. CASE c = n
  <2> DEFINE v == Flushed(u)
  <2>1. Unanswered(u) = {}
    BY <1>2, <1>13, <1>18
  <2>2. Cardinality(Unanswered(u)) = Len(u.anonymous)
    BY <1>14, <2>1, FS_EmptySet
  <2>3. Answer(t, m) = v
    BY <1>9, <2>2 DEF FlushedIfWhole
  <2>4. u.pending # <<>>
    BY <1>2, <1>5, <1>11
  <2>5. /\ v.pending = <<>> /\ v.anonymous = <<>> /\ v.used = u.used
        /\ Len(v.out) = Len(u.out) + Len(u.pending)
        /\ \A i \in 1..Len(u.out) : v.out[i] = u.out[i]
        /\ \A i \in 1..Len(u.pending) : v.out[Len(u.out) + i] = Message("tool", <<>>, u.pending[i].id, ResultOf(u, i))
    BY <1>11, <2>4, FlushedOut
  <2> HIDE DEF v
  <2>6. Len(u.out) = j /\ Len(u.pending) = n /\ j + n = k
    BY <1>2, <1>5, <1>11, <1>18 DEF Copied
  <2>7. ASSUME NEW i \in 1..n PROVE v.out[j + i] = list[j + i]
    <3>1. u.pending[i].id = calls[i] /\ u.pending[i].body = list[j + i].body
      BY <1>2, <1>12, <1>18
    <3>2. ResultOf(u, i) = list[j + i].body
      BY <2>1, <3>1 DEF ResultOf
    <3> DEFINE y == list[j + i]
    <3>3. v.out[j + i] = Message("tool", <<>>, y.id, y.body)
      BY <1>3, <2>5, <2>6, <3>1, <3>2
    <3>4. y \in AnyMessage /\ y.role = "tool" /\ y.calls = <<>>
      BY <1>3
    <3> HIDE DEF y
    <3>5. y = Message("tool", <<>>, y.id, y.body)
      BY <3>4 DEF AnyMessage, Message
    <3> QED BY <3>3, <3>5 DEF y
  <2>8. \A i \in 1..k : v.out[i] = list[i]
    <3> SUFFICES ASSUME NEW i \in 1..k PROVE v.out[i] = list[i]
      OBVIOUS
    <3>1. CASE i <= j
      <4>1. i \in 1..j
        BY <1>2, <3>1
      <4> QED BY <1>5, <1>11, <2>5, <2>6, <4>1 DEF Copied
    <3>2. CASE i > j
      <4>1. i - j \in 1..n /\ i = j + (i - j)
        BY <1>2, <2>6, <3>2
      <4> QED BY <2>7, <4>1
    <3> QED BY <1>2, <3>1, <3>2
  <2>9. Closed(list, k)
    <3> SUFFICES ASSUME NEW h \in 1..k PROVE h + Len(list[h].calls) <= k
      BY DEF Closed
    <3>1. CASE h < j
      <4>1. h \in 1..(j - 1)
        BY <1>2, <3>1
      <4>2. h + Len(list[h].calls) <= j - 1 /\ h \in DOMAIN list
        BY <1>2, <1>5, <4>1 DEF Closed
      <4>3. Len(list[h].calls) \in Nat
        BY <4>2, SettledTurns
      <4> QED BY <1>2, <4>2, <4>3
    <3>2. CASE h = j
      BY <2>6, <3>2 DEF n, calls
    <3>3. CASE h > j
      <4>1. h - j \in 1..n /\ h = j + (h - j)
        BY <1>2, <2>6, <3>3
      <4>2. list[h].calls = <<>>
        BY <1>3, <4>1
      <4> QED BY <4>2
    <3> QED BY <1>2, <3>1, <3>2, <3>3
  <2>10. Resting(v, list, k)
    BY <2>5, <2>6, <2>8, <2>9 DEF Resting, Copied
  <2> QED BY <1>11, <1>16, <2>3, <2>5, <2>10 DEF Repeats, m
<1> QED BY <1>2, <1>17, <1>18

\* Before another message every turn has its results.
LEMMA NextTurn ==
    ASSUME NEW list, Settled(list), NEW k \in 1..Len(list), list[k].role # "tool",
           NEW t, Repeats(t, list, k - 1)
    PROVE  Resting(t, list, k - 1)
<1> SUFFICES ASSUME NEW j \in 1..(k - 1), InTurn(t, list, j, k - 1) PROVE FALSE
    BY DEF Repeats
<1>1. Len(list) \in Nat /\ DOMAIN list = 1..Len(list) /\ j \in DOMAIN list
    BY SettledTurns
<1>2. k - 1 - j < Len(list[j].calls) /\ Len(list[j].calls) \in Nat /\ DOMAIN list[j].calls = 1..Len(list[j].calls)
    BY <1>1, SettledTurns DEF InTurn
<1>3. k - j \in DOMAIN list[j].calls /\ k = j + (k - j)
    BY <1>1, <1>2
<1>4. list[k].role = "tool"
    BY <1>1, <1>3, SettledCall
<1> QED BY <1>4

\* It is out as it came, and its calls keep their ids.
LEMMA TurnRepeats ==
    ASSUME NEW list, Settled(list), NEW k \in 1..Len(list), list[k].role # "tool",
           NEW t, t \in LoopStates, Good(t), Repeats(t, list, k - 1)
    PROVE  Repeats(Turn(t, list[k]), list, k)
<1> DEFINE m == list[k]
           calls == m.calls
           n == Len(calls)
           u == Turn(t, m)
           turn == FoldLeft(TakesCall, t, calls)
<1>1. Resting(t, list, k - 1)
    BY NextTurn
<1>2. t.pending = <<>> /\ Flushed(t) = t /\ Len(t.out) = k - 1 /\ Quiet(t)
  <2>1. t.pending = <<>> /\ Flushed(t) = t
    BY <1>1 DEF Resting, Flushed
  <2> QED BY <1>1, <2>1, FlushedIsQuiet DEF Resting, Copied
<1>3. /\ Len(list) \in Nat /\ DOMAIN list = 1..Len(list) /\ k \in DOMAIN list /\ m \in AnyMessage
      /\ calls \in Seq(Nat) /\ n \in Nat /\ DOMAIN calls = 1..n /\ k \in Nat
    BY SettledTurns
<1>4. \A i \in DOMAIN calls : calls[i] # 0 /\ calls[i] \notin t.used
  <2> SUFFICES ASSUME NEW i \in DOMAIN calls PROVE calls[i] # 0 /\ calls[i] \notin t.used
    OBVIOUS
  <2>1. /\ calls[i] # 0
        /\ \A h \in DOMAIN list : \A l \in DOMAIN list[h].calls : list[h].calls[l] = calls[i] => h = k /\ l = i
    <3>1. Settled(list) /\ k \in DOMAIN list /\ i \in DOMAIN list[k].calls
      BY <1>3
    <3> QED BY ONLY <3>1, SettledCall
  <2>2. ASSUME calls[i] \in t.used PROVE FALSE
    <3>1. PICK h \in 1..(k - 1) : \E l \in DOMAIN list[h].calls : calls[i] = list[h].calls[l]
      BY <2>2 DEF Repeats
    <3>2. h \in DOMAIN list /\ h # k
      BY <1>3
    <3> QED BY <2>1, <3>1, <3>2
  <2> QED BY <2>1, <2>2
<1>5. \A i, j \in DOMAIN calls : calls[i] = calls[j] => i = j
    BY <1>3, SettledCall
<1>6. /\ \A i \in DOMAIN calls : turn.pending[i].id = calls[i]
      /\ \A x \in turn.used : x \in t.used \/ \E i \in DOMAIN calls : x = calls[i]
  <2> HIDE DEF calls
  <2> QED BY <1>2, <1>3, <1>4, <1>5, TakenAsTheyAre
<1>7. /\ u \in LoopStates /\ u.anonymous = <<>>
      /\ Len(u.out) = k /\ DOMAIN u.out = 1..k
      /\ \A i \in 1..(k - 1) : u.out[i] = t.out[i]
      /\ u.out[k].role = m.role /\ u.out[k].body = m.body /\ u.out[k].id = m.id
      /\ Len(u.out[k].calls) = n
      /\ Len(u.pending) = n /\ DOMAIN u.pending = DOMAIN calls
      /\ \A i \in DOMAIN calls : u.pending[i].raw = calls[i] /\ u.pending[i].body = 0
      /\ u.used = turn.used /\ u.pending = turn.pending
      /\ \A i \in DOMAIN calls : u.out[k].calls[i] = u.pending[i].id
  <2> DEFINE f == Flushed(t)
  <2>1. /\ u \in LoopStates /\ u.anonymous = f.anonymous
        /\ Len(f.out) \in Nat /\ Len(u.out) = Len(f.out) + 1 /\ DOMAIN u.out = 1..(Len(f.out) + 1)
        /\ \A i \in 1..Len(f.out) : u.out[i] = f.out[i]
        /\ u.out[Len(f.out) + 1].role = m.role /\ u.out[Len(f.out) + 1].body = m.body
        /\ u.out[Len(f.out) + 1].id = m.id
        /\ Len(u.out[Len(f.out) + 1].calls) = Len(m.calls)
        /\ Len(u.pending) = Len(m.calls) /\ DOMAIN u.pending = DOMAIN m.calls
        /\ \A i \in DOMAIN m.calls : u.pending[i].raw = m.calls[i] /\ u.pending[i].body = 0
    BY <1>3, TurnOut
  <2>3. /\ u.used = FoldLeft(TakesCall, f, m.calls).used
        /\ u.pending = FoldLeft(TakesCall, f, m.calls).pending
    BY <1>3, TurnOut
  <2>4. \A i \in DOMAIN m.calls : u.out[Len(f.out) + 1].calls[i] = u.pending[i].id
    <3>1. Good(t) /\ m \in AnyMessage /\ m.role # "tool"
      BY <1>3
    <3> HIDE DEF m
    <3> QED BY ONLY <3>1, TurnOut
  <2>2. f = t /\ Len(f.out) = k - 1 /\ (k - 1) + 1 = k /\ t.anonymous = <<>>
    BY <1>2, <1>3 DEF Repeats
  <2> HIDE DEF f, u, m
  <2> QED BY <2>1, <2>2, <2>3, <2>4
<1>8. calls = m.calls /\ m = list[k] /\ n = Len(calls)
    OBVIOUS
<1> HIDE DEF u, turn, calls, n, m
<1>9. u.out[k] = m
  <2> DEFINE x == u.out[k]
  <2>1. x \in AnyMessage
    <3>1. u.out \in Seq(AnyMessage) /\ k \in DOMAIN u.out
      BY <1>3, <1>7, LoopStateIs
    <3> QED BY <3>1, ElementOfSeq
  <2>2. x.calls \in Seq(Nat) /\ Len(x.calls) = n /\ \A i \in 1..n : x.calls[i] = calls[i]
    <3>1. x.calls \in Seq(Nat)
      <4> HIDE DEF x
      <4> QED BY <1>7, <2>1 DEF AnyMessage
    <3>2. \A i \in 1..n : x.calls[i] = calls[i]
      BY <1>3, <1>6, <1>7
    <3> QED BY <1>7, <3>1, <3>2
  <2>3. x.calls = calls
    <3> DEFINE y == x.calls
    <3>1. y \in Seq(Nat) /\ Len(y) = n /\ \A i \in 1..n : y[i] = calls[i]
      BY <2>2
    <3> HIDE DEF y
    <3>2. y = calls
      BY <1>3, <1>8, <3>1, SeqEqual
    <3> QED BY <3>2 DEF y
  <2>4. x.role = m.role /\ x.id = m.id /\ x.body = m.body
    BY <1>7
  <2> HIDE DEF x
  <2>5. m \in AnyMessage /\ x.calls = m.calls
    BY <1>3, <1>8, <2>3
  <2>6. x = m
    BY <2>1, <2>4, <2>5 DEF AnyMessage
  <2> QED BY <2>6 DEF x
<1>10. Copied(u, list, k)
  <2>1. \A i \in 1..k : i \in 1..(k - 1) \/ i = k
    BY <1>3
  <2> QED BY <1>1, <1>7, <1>9, <2>1 DEF Resting, Copied, m
<1>11. \A x \in u.used : \E j \in 1..k : \E i \in DOMAIN list[j].calls : x = list[j].calls[i]
  <2>1. k \in 1..k /\ \A j \in 1..(k - 1) : j \in 1..k
    BY <1>3
  <2>2. ASSUME NEW x \in t.used PROVE \E j \in 1..(k - 1) : \E i \in DOMAIN list[j].calls : x = list[j].calls[i]
    BY DEF Repeats
  <2>3. \A i \in DOMAIN calls : \E j \in 1..k : \E l \in DOMAIN list[j].calls : calls[i] = list[j].calls[l]
    BY <1>8, <2>1
  <2> SUFFICES ASSUME NEW x \in u.used PROVE \E j \in 1..k : \E i \in DOMAIN list[j].calls : x = list[j].calls[i]
    OBVIOUS
  <2>4. CASE x \in t.used
    BY <2>1, <2>2, <2>4
  <2>5. CASE \E i \in DOMAIN calls : x = calls[i]
    BY <2>3, <2>5
  <2> QED BY <1>6, <1>7, <2>4, <2>5
<1>12. CASE n = 0
  <2>1. u.pending = <<>>
    BY <1>7, <1>12, LoopStateIs, EmptySeq
  <2>2. Closed(list, k)
    <3> SUFFICES ASSUME NEW j \in 1..k PROVE j + Len(list[j].calls) <= k
      BY DEF Closed
    <3>1. CASE j = k
      BY <1>3, <1>12, <3>1 DEF n, calls, m
    <3>2. CASE j # k
      <4>1. j \in 1..(k - 1) /\ j \in DOMAIN list
        BY <1>3, <3>2
      <4>2. Len(list[j].calls) \in Nat
        BY <4>1, SettledTurns
      <4>3. j + Len(list[j].calls) <= k - 1
        BY <1>1, <4>1 DEF Resting, Closed
      <4> QED BY <1>3, <4>1, <4>2, <4>3
    <3> QED BY <3>1, <3>2
  <2> QED BY <1>7, <1>10, <1>11, <2>1, <2>2 DEF Repeats, Resting, u, m
<1>13. CASE n > 0
  <2>1. Owed(u, list, k, k)
    <3>1. \A i \in 1..n : ~(i <= k - k)
      BY <1>3
    <3>2. \A i \in DOMAIN calls : u.pending[i].id = calls[i]
      BY <1>6, <1>7
    <3> QED BY <1>3, <1>7, <3>1, <3>2 DEF Owed, n, calls, m
  <2>2. Closed(list, k - 1) /\ k - k < n
    BY <1>1, <1>3, <1>13 DEF Resting
  <2>3. InTurn(u, list, k, k)
    BY <1>10, <2>1, <2>2 DEF InTurn, n, calls, m
  <2>4. k \in 1..k
    BY <1>3
  <2> QED BY <1>7, <1>11, <2>3, <2>4 DEF Repeats, u, m
<1> QED BY <1>3, <1>12, <1>13

\* "The repair is idempotent": a settled list stays as it is.
LEMMA SettledStays ==
    ASSUME NEW list, Settled(list)
    PROVE  Normalized(list) = list
<1> DEFINE n == Len(list)
<1>1. list \in Seq(AnyMessage) /\ n \in Nat /\ DOMAIN list = 1..n
    BY SettledTurns DEF Settled
<1>2. PICK run : /\ Repaired(list, run) /\ Normalized(list) = Flushed(run[n]).out
                 /\ \A k \in 0..n : run[k] \in LoopStates /\ Good(run[k])
    BY <1>1, NormalizedRun
<1> DEFINE S == {k \in 0..n : Repeats(run[k], list, k)}
<1>3. 0 \in S
  <2>1. run[0] = Start
    BY <1>2 DEF Repaired
  <2>2. Start.anonymous = <<>> /\ Start.used = {} /\ Start.pending = <<>> /\ Start.out = <<>>
    BY DEF Start
  <2>3. Resting(Start, list, 0)
    BY <2>2 DEF Resting, Copied, Closed
  <2>4. Repeats(Start, list, 0)
    BY <2>2, <2>3 DEF Repeats
  <2> QED BY <1>1, <2>1, <2>4
<1>4. ASSUME NEW k \in 1..n, k - 1 \in S PROVE k \in S
  <2>1. run[k] = Step(run[k - 1], list[k])
    BY <1>2 DEF Repaired
  <2>2. run[k - 1] \in LoopStates /\ Good(run[k - 1]) /\ Repeats(run[k - 1], list, k - 1) /\ k \in 0..n
    BY <1>1, <1>2, <1>4
  <2>3. Repeats(Step(run[k - 1], list[k]), list, k)
    BY <2>2, ResultRepeats, TurnRepeats DEF Step
  <2> QED BY <2>1, <2>2, <2>3
<1> HIDE DEF S
<1>5. \A k \in 0..n : k \in S
    BY <1>1, <1>3, <1>4, ToTheEnd
<1>6. n \in 0..n /\ Repeats(run[n], list, n) /\ run[n] \in LoopStates
    BY <1>1, <1>2, <1>5 DEF S
<1>7. Resting(run[n], list, n)
  <2> SUFFICES ASSUME NEW j \in 1..n, InTurn(run[n], list, j, n) PROVE FALSE
    BY <1>6 DEF Repeats
  <2>1. j \in DOMAIN list /\ n - j < Len(list[j].calls)
    BY <1>1 DEF InTurn
  <2>2. Len(list[j].calls) \in Nat /\ DOMAIN list[j].calls = 1..Len(list[j].calls)
    BY <2>1, SettledTurns
  <2>3. n - j + 1 \in DOMAIN list[j].calls
    BY <1>1, <2>1, <2>2
  <2>4. j + (n - j + 1) \in DOMAIN list
    BY <2>1, <2>3, SettledCall
  <2> QED BY <1>1, <2>4
<1>8. Flushed(run[n]).out = run[n].out
    BY <1>7 DEF Resting, Flushed
<1>9. run[n].out = list
  <2> DEFINE out == run[n].out
  <2>1. out \in Seq(AnyMessage) /\ Len(out) = n /\ \A i \in 1..n : out[i] = list[i]
    BY <1>6, <1>7, LoopStateIs DEF Resting, Copied
  <2> HIDE DEF out
  <2>2. out = list
    BY <1>1, <2>1, SeqEqual
  <2> QED BY <2>2 DEF out
<1> QED BY <1>2, <1>8, <1>9

\* What has been repaired is settled.
LEMMA NormalizedIsSettled ==
    ASSUME NEW messages, Conversation(messages)
    PROVE  Settled(Normalized(messages))
<1>1. PICK t \in LoopStates : t.out = Normalized(messages) /\ Full(t, messages, Len(messages))
    BY NormalizedKeeps
<1>2. IsStrict(Normalized(messages)) /\ Normalized(messages) \in Seq(AnyMessage)
    BY NormalizedIsStrict DEF Conversation
<1> QED BY <1>1, <1>2 DEF Settled, Full, Plain

-----------------------------------------------------------------------------
(* Items that become messages *)

\* Items as they come: each has its place as its body, and a result makes no calls.
Items(items) ==
    /\ items \in Seq(AnyItem)
    /\ \A i \in DOMAIN items : items[i].body = i /\ (items[i].role = "tool" => items[i].calls = <<>>)

\* What the first k items have become: messages in their order; of the items each
\* is one, or a call of one, or is dropped; of the messages each is an item or a run
\* of calls; and the last item, if it is a call, is the last call.
InPlace(raw, k) ==
    /\ \A i \in DOMAIN raw : raw[i].body \in 1..k /\ (raw[i].role = "tool" => raw[i].calls = <<>>)
    /\ \A i, j \in DOMAIN raw : i < j => raw[i].body < raw[j].body
IsItem(raw, item, p) ==
    \/ item.role \notin {"call", "empty"} /\ \E i \in DOMAIN raw : raw[i] = item
    \/ /\ item.role = "call"
       /\ \E i \in DOMAIN raw : \E c \in DOMAIN raw[i].calls : raw[i].body + c - 1 = p /\ raw[i].calls[c] = item.id
    \/ item.role = "empty" /\ \A i \in DOMAIN raw : raw[i].body # p
IsCalls(m, items, k) ==
    /\ items[m.body].role = "call"
    /\ \A c \in DOMAIN m.calls : m.body + c - 1 \in 1..k /\ items[m.body + c - 1].role = "call"
AreItems(raw, items, k) == \A i \in DOMAIN raw : raw[i] = items[raw[i].body] \/ IsCalls(raw[i], items, k)
EndsWithCall(raw, items, k) ==
    raw # <<>> /\ IsCalls(raw[Len(raw)], items, k) /\ raw[Len(raw)].body + Len(raw[Len(raw)].calls) - 1 = k
Becomes(raw, items, k) ==
    /\ raw \in Seq(AnyMessage) /\ InPlace(raw, k)
    /\ \A p \in 1..k : IsItem(raw, items[p], p)
    /\ AreItems(raw, items, k)
    /\ k > 0 /\ items[k].role = "call" => EndsWithCall(raw, items, k)

\* An item that becomes a message of its own.
LEMMA OneMore ==
    ASSUME NEW items, Items(items), NEW k \in 1..Len(items), NEW raw, Becomes(raw, items, k - 1),
           NEW m, m \in AnyMessage, m.body = k, m.role = "tool" => m.calls = <<>>,
           \/ items[k].role \notin {"call", "empty"} /\ m = items[k]
           \/ items[k].role = "call" /\ m.calls = <<items[k].id>>
    PROVE  Becomes(Append(raw, m), items, k)
<1> DEFINE n == Len(raw)
           more == Append(raw, m)
<1>1. /\ raw \in Seq(AnyMessage) /\ n \in Nat /\ DOMAIN raw = 1..n
      /\ \A i \in 1..n : raw[i] \in AnyMessage
    BY LenProperties, ElementOfSeq DEF Becomes
<1>2. /\ more \in Seq(AnyMessage) /\ Len(more) = n + 1 /\ DOMAIN more = 1..(n + 1)
      /\ (\A i \in 1..n : more[i] = raw[i]) /\ more[n + 1] = m
    BY <1>1
<1> HIDE DEF more, n
<1>3. Len(items) \in Nat /\ k \in DOMAIN items /\ k \in Nat /\ k > 0
    BY LenProperties DEF Items
<1>4. \A i \in DOMAIN more : (i \in 1..n /\ i \in DOMAIN raw /\ more[i] = raw[i]) \/ (i = n + 1 /\ more[i] = m)
    BY <1>1, <1>2
<1>5. \A i \in DOMAIN raw : i \in DOMAIN more /\ more[i] = raw[i] /\ raw[i].body \in 1..(k - 1)
    BY <1>1, <1>2 DEF Becomes, InPlace
<1>6. InPlace(more, k)
  <2>1. \A i \in DOMAIN more : more[i].body \in 1..k /\ (more[i].role = "tool" => more[i].calls = <<>>)
    BY <1>3, <1>4, <1>5 DEF Becomes, InPlace
  <2>2. ASSUME NEW i \in DOMAIN more, NEW j \in DOMAIN more, i < j PROVE more[i].body < more[j].body
    <3>1. i \in DOMAIN raw /\ more[i] = raw[i]
      BY <1>1, <1>2, <1>4, <2>2
    <3>2. CASE j \in DOMAIN raw /\ more[j] = raw[j]
      BY <2>2, <3>1, <3>2 DEF Becomes, InPlace
    <3>3. CASE more[j] = m
      BY <1>3, <1>5, <3>1, <3>3
    <3> QED BY <1>4, <3>2, <3>3
  <2> QED BY <2>1, <2>2 DEF InPlace
<1>7. ASSUME NEW p \in 1..k PROVE IsItem(more, items[p], p)
  <2>1. CASE p = k /\ items[k].role \notin {"call", "empty"}
    <3>1. n + 1 \in DOMAIN more /\ more[n + 1] = items[k]
      BY <1>1, <1>2, <2>1
    <3> QED BY <2>1, <3>1 DEF IsItem
  <2>2. CASE p = k /\ items[k].role = "call"
    <3>1. n + 1 \in DOMAIN more /\ more[n + 1] = m /\ m.calls = <<items[k].id>>
      BY <1>1, <1>2, <2>2
    <3>2. 1 \in DOMAIN m.calls /\ m.calls[1] = items[k].id /\ m.body + 1 - 1 = k
      BY <1>3, <3>1
    <3> QED BY <2>2, <3>1, <3>2 DEF IsItem
  <2>3. CASE p # k
    <3>1. IsItem(raw, items[p], p)
      <4>1. p \in 1..(k - 1)
        BY <1>3, <2>3
      <4> QED BY <4>1 DEF Becomes
    <3>2. \A i \in DOMAIN more : (i \in DOMAIN raw /\ more[i] = raw[i]) \/ more[i].body # p
      BY <1>4, <2>3
    <3> QED BY <1>5, <3>1, <3>2 DEF IsItem
  <2> QED BY <2>1, <2>2, <2>3
<1>8. items[k].role = "call" => IsCalls(m, items, k)
  <2> SUFFICES ASSUME items[k].role = "call" PROVE IsCalls(m, items, k)
    OBVIOUS
  <2>1. m.calls = <<items[k].id>> /\ \A c \in DOMAIN m.calls : c = 1
    OBVIOUS
  <2>2. \A c \in DOMAIN m.calls : m.body + c - 1 = k
    BY <1>3, <2>1
  <2> QED BY <1>3, <2>2 DEF IsCalls
<1>9. AreItems(more, items, k)
  <2> SUFFICES ASSUME NEW i \in DOMAIN more
               PROVE  more[i] = items[more[i].body] \/ IsCalls(more[i], items, k)
    BY DEF AreItems
  <2>1. CASE i \in DOMAIN raw /\ more[i] = raw[i]
    <3>1. raw[i] = items[raw[i].body] \/ IsCalls(raw[i], items, k - 1)
      BY <2>1 DEF Becomes, AreItems
    <3>2. \A p \in 1..(k - 1) : p \in 1..k
      BY <1>3
    <3> QED BY <2>1, <3>1, <3>2 DEF IsCalls
  <2>2. CASE more[i] = m
    BY <1>8, <2>2
  <2> QED BY <1>4, <2>1, <2>2
<1>10. items[k].role = "call" => EndsWithCall(more, items, k)
  <2> SUFFICES ASSUME items[k].role = "call" PROVE EndsWithCall(more, items, k)
    OBVIOUS
  <2>1. more[Len(more)] = m /\ m.body = k /\ Len(m.calls) = 1
    BY <1>2
  <2>2. more # <<>>
    BY <1>1, <1>2
  <2> QED BY <1>3, <1>8, <2>1, <2>2 DEF EndsWithCall
<1> QED BY <1>2, <1>6, <1>7, <1>9, <1>10 DEF Becomes, more

\* An item that is dropped.
LEMMA NoneMore ==
    ASSUME NEW items, Items(items), NEW k \in 1..Len(items), items[k].role = "empty",
           NEW raw, Becomes(raw, items, k - 1)
    PROVE  Becomes(raw, items, k)
<1>1. Len(items) \in Nat /\ k \in Nat /\ k > 0 /\ \A p \in 1..(k - 1) : p \in 1..k
    BY LenProperties DEF Items
<1>2. \A i \in DOMAIN raw : raw[i].body \in 1..(k - 1) /\ raw[i].body # k
    BY <1>1 DEF Becomes, InPlace
<1>3. InPlace(raw, k)
    BY <1>1 DEF Becomes, InPlace
<1>4. ASSUME NEW p \in 1..k PROVE IsItem(raw, items[p], p)
  <2>1. CASE p = k
    BY <1>2, <2>1 DEF IsItem
  <2>2. CASE p # k
    <3>1. p \in 1..(k - 1)
      BY <1>1, <2>2
    <3> QED BY <3>1 DEF Becomes
  <2> QED BY <2>1, <2>2
<1>5. AreItems(raw, items, k)
    BY <1>1 DEF Becomes, AreItems, IsCalls
<1> QED BY <1>3, <1>4, <1>5 DEF Becomes

\* The messages with one call more in the last.
Joined(raw, id) == [raw EXCEPT ![Len(raw)].calls = Append(@, id)]

\* A call after a call is one more of its turn.
LEMMA OneCallMore ==
    ASSUME NEW items, Items(items), NEW k \in 1..Len(items), k > 1,
           items[k].role = "call", items[k - 1].role = "call",
           NEW raw, Becomes(raw, items, k - 1)
    PROVE  Becomes(Joined(raw, items[k].id), items, k)
<1> DEFINE n == Len(raw)
           id == items[k].id
           last == raw[n]
           calls == Append(last.calls, id)
           turn == [last EXCEPT !.calls = calls]
           more == Joined(raw, id)
<1>1. Len(items) \in Nat /\ k \in DOMAIN items /\ k \in Nat /\ id \in Nat /\ k - 1 > 0
  <2>1. Len(items) \in Nat /\ k \in DOMAIN items /\ k \in Nat /\ items[k] \in AnyItem
    BY LenProperties, ElementOfSeq DEF Items
  <2> QED BY <2>1 DEF AnyItem
<1>2. /\ raw \in Seq(AnyMessage) /\ n \in Nat /\ DOMAIN raw = 1..n
      /\ \A i \in 1..n : raw[i] \in AnyMessage
    BY LenProperties, ElementOfSeq DEF Becomes
<1>3. raw # <<>> /\ last.body + Len(last.calls) - 1 = k - 1 /\ IsCalls(last, items, k - 1)
    BY <1>1 DEF Becomes, EndsWithCall
<1>4. n > 0 /\ n \in DOMAIN raw /\ last \in AnyMessage
  <2>1. n > 0
    BY <1>2, <1>3, EmptySeq
  <2> QED BY <1>2, <2>1
<1>5. more = [raw EXCEPT ![n] = turn] /\ DOMAIN more = 1..n /\ more[n] = turn
      /\ \A i \in 1..n : i # n => more[i] = raw[i]
    BY <1>2, <1>4 DEF Joined
<1> HIDE DEF more, n, last, id
<1>6. last.calls \in Seq(Nat) /\ Len(last.calls) \in Nat /\ DOMAIN last.calls = 1..Len(last.calls)
    BY <1>4, LenProperties DEF AnyMessage
<1>7. /\ calls \in Seq(Nat) /\ Len(calls) = Len(last.calls) + 1 /\ DOMAIN calls = 1..(Len(last.calls) + 1)
      /\ (\A c \in 1..Len(last.calls) : calls[c] = last.calls[c]) /\ calls[Len(last.calls) + 1] = id
    BY <1>1, <1>6
<1> HIDE DEF calls
<1>8. turn \in AnyMessage /\ turn.calls = calls /\ turn.body = last.body /\ turn.role = last.role
    BY <1>4, <1>7 DEF AnyMessage
<1> HIDE DEF turn
<1>9. more \in Seq(AnyMessage) /\ Len(more) = n
  <2>1. more = [i \in 1..n |-> more[i]]
    BY <1>2, <1>5
  <2>2. \A i \in 1..n : more[i] \in AnyMessage
    BY <1>2, <1>5, <1>8
  <2>3. more \in [1..n -> AnyMessage]
    BY <2>1, <2>2
  <2> QED BY <1>2, <2>3
<1>10. last.body \in 1..(k - 1) /\ last.body \in Nat /\ Len(last.calls) > 0 /\ last.calls # <<>>
  <2>1. last.body \in 1..(k - 1)
    BY <1>4 DEF Becomes, InPlace, last
  <2> QED BY <1>1, <1>3, <1>6, <2>1
<1>11. last.body + (Len(last.calls) + 1) - 1 = k
  <2> DEFINE b == last.body
             l == Len(last.calls)
  <2>1. b \in Nat /\ l \in Nat /\ b + l - 1 = k - 1
    BY <1>3, <1>6, <1>10
  <2> HIDE DEF b, l
  <2>2. b + (l + 1) - 1 = k
    BY <1>1, <2>1
  <2> QED BY <2>2 DEF b, l
<1>12. \A i \in 1..n : more[i].body = raw[i].body /\ more[i].role = raw[i].role
    BY <1>5, <1>8 DEF last
<1>13. InPlace(more, k)
  <2>1. \A i \in DOMAIN more : more[i].body \in 1..k
    BY <1>1, <1>2, <1>5, <1>12 DEF Becomes, InPlace
  <2>2. last.role # "tool"
    BY <1>4, <1>10 DEF Becomes, InPlace, last
  <2>3. \A i \in DOMAIN more : more[i].role = "tool" => more[i].calls = <<>>
    BY <1>2, <1>5, <1>8, <2>2 DEF Becomes, InPlace
  <2>4. \A i, j \in DOMAIN more : i < j => more[i].body < more[j].body
    BY <1>2, <1>5, <1>12 DEF Becomes, InPlace
  <2> QED BY <2>1, <2>3, <2>4 DEF InPlace
<1>14. ASSUME NEW p \in 1..k PROVE IsItem(more, items[p], p)
  <2>1. CASE p = k
    <3>1. Len(last.calls) + 1 \in DOMAIN more[n].calls /\ more[n].calls[Len(last.calls) + 1] = items[p].id
      BY <1>5, <1>6, <1>7, <1>8, <2>1 DEF id
    <3>2. more[n].body + (Len(last.calls) + 1) - 1 = p /\ n \in DOMAIN more
      BY <1>2, <1>4, <1>5, <1>8, <1>11, <2>1
    <3> QED BY <2>1, <3>1, <3>2 DEF IsItem
  <2>2. CASE p # k
    <3>1. p \in 1..(k - 1)
      BY <1>1, <2>2
    <3>2. IsItem(raw, items[p], p) /\ items[p].body = p
      <4>1. p \in DOMAIN items
        BY <1>1, <3>1, LenProperties DEF Items
      <4> QED BY <3>1, <4>1 DEF Becomes, Items
    <3>3. CASE items[p].role \notin {"call", "empty"}
      <4>1. PICK i \in DOMAIN raw : raw[i] = items[p]
        BY <3>2, <3>3 DEF IsItem
      <4>2. i # n
        BY <1>3, <3>2, <3>3, <4>1 DEF last, IsCalls
      <4>3. i \in DOMAIN more /\ more[i] = items[p]
        BY <1>2, <1>5, <4>1, <4>2
      <4> QED BY <3>3, <4>3 DEF IsItem
    <3>4. CASE items[p].role = "call"
      <4>1. PICK i \in DOMAIN raw : \E c \in DOMAIN raw[i].calls :
                raw[i].body + c - 1 = p /\ raw[i].calls[c] = items[p].id
        BY <3>2, <3>4 DEF IsItem
      <4>2. PICK c \in DOMAIN raw[i].calls : raw[i].body + c - 1 = p /\ raw[i].calls[c] = items[p].id
        BY <4>1
      <4>3. i \in DOMAIN more /\ c \in DOMAIN more[i].calls /\ more[i].calls[c] = raw[i].calls[c]
        <5>1. CASE i = n
          <6>1. raw[i] = last /\ more[i].calls = calls /\ c \in DOMAIN last.calls
            BY <1>5, <1>8, <4>2, <5>1 DEF last
          <6>2. c \in DOMAIN calls /\ calls[c] = last.calls[c]
            BY <1>6, <1>7, <6>1
          <6> QED BY <1>2, <1>5, <4>1, <6>1, <6>2
        <5>2. CASE i # n
          BY <1>2, <1>5, <5>2
        <5> QED BY <5>1, <5>2
      <4>4. more[i].body + c - 1 = p
        BY <1>2, <1>12, <4>2
      <4> QED BY <3>4, <4>2, <4>3, <4>4 DEF IsItem
    <3>5. CASE items[p].role = "empty"
      <4>1. \A i \in DOMAIN raw : raw[i].body # p
        BY <3>2, <3>5 DEF IsItem
      <4> QED BY <1>2, <1>5, <1>12, <3>5, <4>1 DEF IsItem
    <3> QED BY <3>3, <3>4, <3>5
  <2> QED BY <2>1, <2>2
<1>15. IsCalls(more[n], items, k)
  <2>1. more[n].body = last.body /\ more[n].calls = calls /\ items[last.body].role = "call"
    BY <1>3, <1>5, <1>8 DEF IsCalls
  <2> SUFFICES ASSUME NEW c \in DOMAIN calls
               PROVE  last.body + c - 1 \in 1..k /\ items[last.body + c - 1].role = "call"
    BY <2>1 DEF IsCalls
  <2>2. CASE c \in 1..Len(last.calls)
    <3>1. last.body + c - 1 \in 1..(k - 1) /\ items[last.body + c - 1].role = "call"
      BY <1>3, <1>6, <2>2 DEF IsCalls
    <3> QED BY <1>1, <3>1
  <2>3. CASE c = Len(last.calls) + 1
    BY <1>1, <1>11, <2>3
  <2> QED BY <1>6, <1>7, <2>2, <2>3
<1>16. AreItems(more, items, k)
  <2> SUFFICES ASSUME NEW i \in DOMAIN more, i # n
               PROVE  more[i] = items[more[i].body] \/ IsCalls(more[i], items, k)
    BY <1>15 DEF AreItems
  <2>1. more[i] = raw[i] /\ i \in DOMAIN raw
    BY <1>2, <1>5
  <2>2. raw[i] = items[raw[i].body] \/ IsCalls(raw[i], items, k - 1)
    BY <2>1 DEF Becomes, AreItems
  <2>3. \A p \in 1..(k - 1) : p \in 1..k
    BY <1>1
  <2> QED BY <2>1, <2>2, <2>3 DEF IsCalls
<1>17. EndsWithCall(more, items, k)
  <2>1. more[Len(more)].body + Len(more[Len(more)].calls) - 1 = k
    <3>1. more[Len(more)] = turn /\ turn.body = last.body /\ Len(turn.calls) = Len(last.calls) + 1
      BY <1>5, <1>7, <1>8, <1>9
    <3> QED BY <1>11, <3>1
  <2>2. more # <<>>
    BY <1>4, <1>9
  <2> QED BY <1>9, <1>15, <2>1, <2>2 DEF EndsWithCall
<1> QED BY <1>9, <1>13, <1>14, <1>16, <1>17 DEF Becomes, more, n, id

\* Every list of items becomes messages, none lost that says something, and none
\* made up.
LEMMA RawBecomes ==
    ASSUME NEW items, Items(items)
    PROVE  Becomes(Raw(items), items, Len(items))
<1> DEFINE n == Len(items)
<1>1. n \in Nat /\ DOMAIN items = 1..n /\ items \in Seq(AnyItem) /\ \A i \in 1..n : items[i] \in AnyItem
    BY LenProperties, ElementOfSeq DEF Items
<1>2. PICK run : /\ Gathered(items, run) /\ Raw(items) = run[n]
                 /\ \A k \in 0..n : run[k] \in Seq(AnyMessage)
    BY <1>1, RawRun
<1> DEFINE S == {k \in 0..n : Becomes(run[k], items, k)}
<1>3. 0 \in S
  <2>1. run[0] = <<>> /\ <<>> \in Seq(AnyMessage) /\ 1..0 = {}
    BY <1>2 DEF Gathered
  <2>2. InPlace(<<>>, 0) /\ AreItems(<<>>, items, 0)
    BY DEF InPlace, AreItems
  <2>3. Becomes(<<>>, items, 0)
    BY <2>1, <2>2 DEF Becomes
  <2> QED BY <1>1, <2>1, <2>3
<1>4. ASSUME NEW k \in 1..n, k - 1 \in S PROVE k \in S
  <2> DEFINE raw == run[k - 1]
  <2>1. run[k] = Comes(items, raw, k) /\ Becomes(raw, items, k - 1) /\ k \in 0..n
    BY <1>1, <1>2, <1>4 DEF Gathered
  <2>2. /\ k \in DOMAIN items /\ items[k] \in AnyItem /\ items[k].body = k /\ k \in Nat
        /\ items[k].role = "tool" => items[k].calls = <<>>
    BY <1>1 DEF Items
  <2> HIDE DEF raw
  <2>3. CASE items[k].role \notin {"call", "empty"}
    <3>1. items[k] \in AnyMessage
      BY <2>2, <2>3 DEF AnyItem, AnyMessage
    <3>2. run[k] = Append(raw, items[k])
      BY <2>1, <2>3 DEF Comes
    <3> QED BY <2>1, <2>2, <2>3, <3>1, <3>2, OneMore
  <2>4. CASE items[k].role = "call" /\ k > 1 /\ items[k - 1].role = "call"
    <3>1. run[k] = Joined(raw, items[k].id)
      BY <2>1, <2>4 DEF Comes, Joined
    <3> QED BY <2>1, <2>4, <3>1, OneCallMore
  <2>5. CASE items[k].role = "call" /\ ~(k > 1 /\ items[k - 1].role = "call")
    <3> DEFINE id == items[k].id
               m == Message("assistant", <<id>>, 0, k)
    <3>1. id \in Nat /\ (k = 1 \/ items[k - 1].role # "call")
      BY <2>2, <2>5 DEF AnyItem
    <3>2. run[k] = Append(raw, m)
      BY <2>1, <2>2, <2>5, <3>1 DEF Comes
    <3> HIDE DEF id
    <3>3. m \in AnyMessage /\ m.body = k /\ m.role # "tool" /\ m.calls = <<id>>
      <4>1. <<id>> \in Seq(Nat)
        BY <3>1
      <4> QED BY <2>2, <4>1 DEF Message, AnyMessage
    <3> HIDE DEF m
    <3> QED BY <2>1, <2>5, <3>2, <3>3, OneMore DEF id
  <2>6. CASE items[k].role = "empty"
    <3>1. run[k] = raw
      BY <2>1, <2>6 DEF Comes
    <3> QED BY <2>1, <2>6, <3>1, NoneMore
  <2> QED BY <2>3, <2>4, <2>5, <2>6
<1> HIDE DEF S
<1>5. \A k \in 0..n : k \in S
    BY <1>1, <1>3, <1>4, ToTheEnd
<1>6. n \in S
    BY <1>1, <1>5
<1> QED BY <1>2, <1>6 DEF S

\* So they are a conversation.
LEMMA RawIsConversation ==
    ASSUME NEW items, Items(items)
    PROVE  Conversation(Raw(items))
<1>1. Becomes(Raw(items), items, Len(items))
    BY RawBecomes
<1> QED BY <1>1 DEF Becomes, InPlace, Conversation, Numbered

-----------------------------------------------------------------------------
(* What the vendor is sent *)

\* What comes over either API is a conversation.
LEMMA HeardIs ==
    ASSUME ToolInv
    PROVE  /\ api \in {"chat", "responses"}
           /\ api = "chat" => Conversation(heard) /\ \A i \in DOMAIN heard : heard[i].role \notin {"call", "empty"}
           /\ \A i \in DOMAIN heard : heard[i].body = i
           /\ api = "responses" => Items(heard)
<1>1. /\ heard \in Seq(AnyItem) /\ api \in {"chat", "responses"} /\ Len(heard) \in Nat
      /\ DOMAIN heard = 1..Len(heard) /\ \A i \in DOMAIN heard : heard[i] \in Letters(i) /\ i \in Nat /\ i > 0
    BY ToolAssumption, LenProperties DEF ToolInv, ToolTypeOK
<1>2. \A i \in DOMAIN heard :
        \/ \E role \in {"user", "assistant"} : heard[i] = Message(role, <<>>, 0, i)
        \/ \E id \in CallIds : heard[i] = Message("tool", <<>>, id, i)
        \/ api = "responses" /\ \E id \in CallIds : heard[i] = Message("call", <<>>, id, i)
        \/ api = "responses" /\ heard[i] = Message("empty", <<>>, 0, i)
        \/ \E calls \in Turns : heard[i] = Message("assistant", calls, 0, i)
    BY <1>1 DEF Letters
<1>3. \A i \in DOMAIN heard : /\ heard[i].body = i /\ (heard[i].role = "tool" => heard[i].calls = <<>>)
                              /\ (api # "responses" => heard[i].role \notin {"call", "empty"})
    BY <1>2 DEF Message
<1>4. CASE api = "chat"
  <2>1. heard = [i \in 1..Len(heard) |-> heard[i]]
    BY <1>1
  <2>2. \A i \in 1..Len(heard) : heard[i] \in AnyMessage
    BY <1>1, <1>4, LettersType
  <2>3. heard \in [1..Len(heard) -> AnyMessage]
    BY <2>1, <2>2
  <2>4. heard \in Seq(AnyMessage)
    BY <1>1, <2>3
  <2>5. Numbered(heard)
    BY <1>1, <1>3 DEF Numbered
  <2> QED BY <1>3, <1>4, <2>4, <2>5 DEF Conversation
<1>5. CASE api = "responses"
    BY <1>1, <1>3, <1>5 DEF Items
<1> QED BY <1>1, <1>3, <1>4, <1>5

\* An empty question, asked alone, stays as it is.
LEMMA EmptyIsSettled == Settled(<<Message("user", <<>>, 0, 0)>>)
<1> DEFINE list == <<Message("user", <<>>, 0, 0)>>
<1>1. list \in Seq(AnyMessage)
  <2>1. Spoken(<<>>) = list /\ <<>> \in Seq(AnyMessage)
    BY DEF Spoken
  <2> QED BY <2>1, SpokenType
<1>2. \A i \in DOMAIN list : list[i].role = "user" /\ list[i].calls = <<>>
    BY DEF Message
<1>3. \A i \in DOMAIN list : DOMAIN list[i].calls = {}
    BY <1>2
<1> HIDE DEF list
<1>4. IsStrict(list)
    BY <1>2, <1>3 DEF IsStrict, Results
<1> QED BY <1>1, <1>2, <1>4 DEF Settled, list

\* What the vendor is sent is the repaired conversation, however often it passed.
LEMMA SentIs ==
    ASSUME ToolInv
    PROVE  /\ Conversation(Messages) /\ Settled(Sent)
           /\ \/ Sent = Normalized(Messages)
              \/ Messages = <<>> /\ Sent = <<Message("user", <<>>, 0, 0)>>
<1>1. CASE api = "chat"
    BY <1>1, HeardIs, NormalizedIsSettled DEF Messages, Sent
<1>2. CASE api = "responses"
  <2> DEFINE repaired == Normalized(Messages)
  <2>1. Conversation(Messages) /\ Messages = Raw(heard) /\ Sent = Normalized(Spoken(repaired))
    BY <1>2, HeardIs, RawIsConversation DEF Messages, Sent
  <2>2. Settled(repaired) /\ Keeps(repaired, Messages)
    BY <2>1, NormalizedIsSettled, NormalizedKeepsAll
  <2>3. CASE repaired # <<>>
    BY <2>1, <2>2, <2>3, SettledStays DEF Spoken
  <2>4. CASE repaired = <<>>
    <3>1. Messages = <<>>
      <4>1. ToSet(Messages) = {}
        BY <2>2, <2>4 DEF Keeps
      <4>2. DOMAIN Messages = {} /\ Messages \in Seq(AnyMessage)
        BY <2>1, <4>1 DEF Conversation, ToSet
      <4>3. Len(Messages) = 0
        BY <4>2, LenProperties
      <4> QED BY <4>2, <4>3, EmptySeq
    <3>2. Sent = <<Message("user", <<>>, 0, 0)>>
      BY <2>1, <2>4, EmptyIsSettled, SettledStays DEF Spoken
    <3> QED BY <2>1, <3>1, <3>2, EmptyIsSettled
  <2> QED BY <2>3, <2>4
<1> QED BY <1>1, <1>2, HeardIs

\* "The repair is deterministic and idempotent" (tool_protocol.py:69): a repaired
\* conversation, of any length and with any ids, is repaired again as it is.
THEOREM RepairIsIdempotent == ToolSpec => []Idempotent
<1>1. ToolInv => Idempotent
    BY SentIs, SettledStays DEF Idempotent
<1>2. ToolSpec => []ToolInv
    BY ToolInitInv, ToolStepInv, PTL DEF ToolSpec
<1> QED BY <1>1, <1>2, PTL

\* Nothing that is said is lost, said twice or made up, over both APIs, results
\* late, repeated or misnamed as they may be: of every conversation.
THEOREM NothingIsLost == ToolSpec => []NothingLost
<1>1. ToolInv => NothingLost
  <2> SUFFICES ASSUME ToolInv PROVE NothingLost
    OBVIOUS
  <2>1. Keeps(Sent, Messages)
    <3>1. CASE Sent = Normalized(Messages)
      BY <3>1, SentIs, NormalizedKeepsAll
    <3>2. CASE Messages = <<>> /\ Sent = <<Message("user", <<>>, 0, 0)>>
      <4>1. ToSet(Messages) = {} /\ \A i \in DOMAIN Sent : Sent[i].body = 0
        BY <3>2 DEF ToSet, Message
      <4> QED BY <4>1 DEF Keeps
    <3> QED BY <3>1, <3>2, SentIs
  <2>2. CASE api = "chat"
    <3>1. /\ \A i \in DOMAIN heard : heard[i].role \notin {"call", "empty"} /\ heard[i] \in ToSet(Messages)
          /\ \A m \in ToSet(Messages) : m = heard[m.body]
      BY <2>2, HeardIs DEF Messages, ToSet
    <3> QED BY <2>1, <3>1 DEF NothingLost, Keeps
  <2>3. CASE api = "responses"
    <3>1. Becomes(Messages, heard, Len(heard)) /\ DOMAIN heard = 1..Len(heard)
      BY <2>3, HeardIs, RawBecomes, LenProperties DEF Messages, Items
    <3>2. \A i \in DOMAIN Messages : Messages[i] \in ToSet(Messages)
      BY DEF ToSet
    <3>3. \A m \in ToSet(Messages) : \E i \in DOMAIN Messages : m = Messages[i]
      BY DEF ToSet
    <3>4. ASSUME NEW i \in DOMAIN heard
          PROVE  CASE heard[i].role = "call" ->
                        \E m \in ToSet(Messages) : \E k \in DOMAIN m.calls :
                          m.body + k - 1 = i /\ m.calls[k] = heard[i].id
                   [] heard[i].role = "empty" -> \A m \in ToSet(Messages) : m.body # i
                   [] OTHER -> heard[i] \in ToSet(Messages)
      <4>1. IsItem(Messages, heard[i], i)
        BY <3>1 DEF Becomes
      <4> QED BY <3>2, <3>3, <4>1 DEF IsItem
    <3>5. ASSUME NEW m \in ToSet(Messages)
          PROVE  \/ m = heard[m.body]
                 \/ /\ heard[m.body].role = "call"
                    /\ \A k \in DOMAIN m.calls : heard[m.body + k - 1].role = "call"
      <4>1. PICK i \in DOMAIN Messages : m = Messages[i]
        BY <3>3
      <4> QED BY <3>1, <4>1 DEF Becomes, AreItems, IsCalls
    <3> QED BY <2>1, <3>4, <3>5 DEF NothingLost, Keeps
  <2> QED BY <2>2, <2>3, HeardIs
<1>2. ToolSpec => []ToolInv
    BY ToolInitInv, ToolStepInv, PTL DEF ToolSpec
<1> QED BY <1>1, <1>2, PTL

-----------------------------------------------------------------------------
(* A result and its call *)

\* The three ways a result is taken.
LEMMA AnswerIs ==
    ASSUME NEW t, t \in LoopStates, NEW m, m \in AnyMessage
    PROVE  \/ t.pending # <<>> /\ m.id = 0 /\ Answer(t, m) = FlushedIfWhole(More(t, m.body))
           \/ /\ m.id # 0
              /\ \E x \in Unanswered(t) : t.pending[x].raw = m.id /\ Answer(t, m) = FlushedIfWhole(With(t, x, m.body))
           \/ Answer(t, m) = Orphan(Flushed(t), m) /\ (m.id = 0 => t.pending = <<>>) /\ (m.id # 0 => Targets(t, m.id) = {})
<1>1. CASE m.id = 0 /\ t.pending # <<>>
    BY <1>1 DEF Answer, More
<1>2. CASE m.id # 0 /\ Targets(t, m.id) # {}
  <2> DEFINE x == Min(Targets(t, m.id))
  <2>1. x \in Targets(t, m.id)
    <3>1. DOMAIN t.pending \subseteq Nat
      BY LoopStateIs, LenProperties
    <3>2. Targets(t, m.id) \subseteq Nat
      BY <3>1 DEF Targets
    <3> QED BY <1>2, <3>2, MinExists
  <2>2. Answer(t, m) = FlushedIfWhole(With(t, x, m.body))
    BY <1>2 DEF Answer, With
  <2> HIDE DEF x
  <2>3. x \in Unanswered(t) /\ t.pending[x].raw = m.id
    BY <2>1 DEF Targets, Unanswered
  <2> QED BY <1>2, <2>2, <2>3
<1>3. CASE ~(m.id = 0 /\ t.pending # <<>>) /\ ~(m.id # 0 /\ Targets(t, m.id) # {})
    BY <1>3 DEF Answer
<1> QED BY <1>1, <1>2, <1>3

\* A result stands at the call i of the turn whose body is turn: out, or at the
\* call that waits.
Placed(t, turn, i, body) ==
    \E j \in DOMAIN t.out :
        /\ t.out[j].body = turn
        /\ \/ j = Len(t.out) /\ i \in DOMAIN t.pending /\ t.pending[i].body = body
           \/ j + i \in DOMAIN t.out /\ t.out[j + i].body = body

\* It does so where the turn ends.
LEMMA FlushedPlaces ==
    ASSUME NEW t, t \in LoopStates, NEW turn, NEW i, NEW body, body # 0, Placed(t, turn, i, body)
    PROVE  Placed(Flushed(t), turn, i, body)
<1>1. CASE t.pending = <<>>
    BY <1>1 DEF Flushed
<1>2. CASE t.pending # <<>>
  <2> DEFINE u == Flushed(t)
             n == Len(t.out)
             c == Len(t.pending)
  <2>1. /\ n \in Nat /\ c \in Nat /\ DOMAIN t.out = 1..n /\ DOMAIN t.pending = 1..c
        /\ DOMAIN u.out = 1..(n + c)
        /\ \A h \in 1..n : u.out[h] = t.out[h]
        /\ \A h \in 1..c : u.out[n + h] = Message("tool", <<>>, t.pending[h].id, ResultOf(t, h))
    BY <1>2, FlushedOut
  <2>2. PICK j \in DOMAIN t.out :
        /\ t.out[j].body = turn
        /\ \/ j = n /\ i \in DOMAIN t.pending /\ t.pending[i].body = body
           \/ j + i \in DOMAIN t.out /\ t.out[j + i].body = body
    BY DEF Placed
  <2> HIDE DEF u, n, c
  <2>3. j \in DOMAIN u.out /\ u.out[j].body = turn
    BY <2>1, <2>2
  <2>4. CASE j = n /\ i \in DOMAIN t.pending /\ t.pending[i].body = body
    <3>1. ResultOf(t, i) = body
      BY <2>4 DEF ResultOf, Unanswered
    <3>2. i \in 1..c /\ j + i \in DOMAIN u.out
      BY <2>1, <2>4
    <3>3. u.out[j + i] = Message("tool", <<>>, t.pending[i].id, body)
      BY <2>1, <2>4, <3>1, <3>2
    <3>4. u.out[j + i].body = body
      <4> DEFINE y == u.out[j + i]
                 id == t.pending[i].id
      <4>1. y = Message("tool", <<>>, id, body)
        BY <3>3
      <4> HIDE DEF y, id
      <4>2. y.body = body
        BY <4>1 DEF Message
      <4> QED BY <4>2 DEF y
    <3> QED BY <2>3, <3>2, <3>4 DEF Placed, u
  <2>5. CASE j + i \in DOMAIN t.out /\ t.out[j + i].body = body
    <3>1. j + i \in DOMAIN u.out /\ u.out[j + i].body = body
      BY <2>1, <2>5
    <3> QED BY <2>3, <3>1 DEF Placed, u
  <2> QED BY <2>2, <2>4, <2>5
<1> QED BY <1>1, <1>2

\* And where more comes out, when no turn is open.
LEMMA OutPlaces ==
    ASSUME NEW t, t.pending = <<>>, NEW turn, NEW i, NEW body, Placed(t, turn, i, body),
           NEW u, \A h \in DOMAIN t.out : h \in DOMAIN u.out /\ u.out[h] = t.out[h]
    PROVE  Placed(u, turn, i, body)
<1>1. DOMAIN t.pending = {}
    OBVIOUS
<1> QED BY <1>1 DEF Placed

\* A message more leaves it there.
LEMMA StepPlaces ==
    ASSUME NEW t, t \in LoopStates, Good(t), NEW turn, NEW i, NEW body, body # 0, Placed(t, turn, i, body),
           NEW m, m \in AnyMessage, m.body # 0
    PROVE  Placed(Step(t, m), turn, i, body)
<1> DEFINE f == Flushed(t)
<1>1. Placed(f, turn, i, body) /\ f.pending = <<>> /\ Quiet(f)
  <2>1. f.pending = <<>> /\ Quiet(f)
    BY FlushedIsQuiet DEF Quiet
  <2>2. Placed(f, turn, i, body)
    BY FlushedPlaces
  <2> QED BY <2>1, <2>2
<1>2. f \in LoopStates /\ DOMAIN f.out = 1..Len(f.out) /\ Len(f.out) \in Nat
    BY <1>1, LoopStateIs, LenProperties DEF Quiet, Tracks
<1> HIDE DEF f
<1>3. m.body \in Int
    BY DEF AnyMessage
<1>4. ASSUME NEW u, u \in LoopStates, Placed(u, turn, i, body) PROVE Placed(FlushedIfWhole(u), turn, i, body)
    BY <1>4, FlushedPlaces DEF FlushedIfWhole
<1>5. CASE m.role # "tool"
  <2> DEFINE u == Turn(t, m)
  <2>1. Step(t, m) = u
    BY <1>5 DEF Step
  <2>2. DOMAIN u.out = 1..(Len(f.out) + 1) /\ \A h \in 1..Len(f.out) : u.out[h] = f.out[h]
    BY <1>5, TurnOut DEF f
  <2> HIDE DEF u
  <2>3. \A h \in DOMAIN f.out : h \in DOMAIN u.out /\ u.out[h] = f.out[h]
    BY <1>2, <2>2
  <2> QED BY <1>1, <2>1, <2>3, OutPlaces
<1>6. CASE m.role = "tool"
  <2>1. Step(t, m) = Answer(t, m)
    BY <1>6 DEF Step
  <2>2. CASE Answer(t, m) = FlushedIfWhole(More(t, m.body))
    <3> DEFINE u == More(t, m.body)
    <3>1. u \in LoopStates /\ u.out = t.out /\ u.pending = t.pending
      BY <1>3, UnnamedIs
    <3> HIDE DEF u
    <3>2. Placed(u, turn, i, body)
      BY <3>1 DEF Placed
    <3> QED BY <1>4, <2>1, <2>2, <3>1, <3>2 DEF u
  <2>3. ASSUME NEW x \in Unanswered(t), Answer(t, m) = FlushedIfWhole(With(t, x, m.body))
        PROVE  Placed(Step(t, m), turn, i, body)
    <3> DEFINE b == m.body
               u == With(t, x, b)
    <3>1. b \in Int /\ b # 0
      BY <1>3
    <3> HIDE DEF b
    <3>2. /\ u \in LoopStates /\ u.out = t.out /\ DOMAIN u.pending = DOMAIN t.pending
          /\ \A h \in DOMAIN t.pending : u.pending[h].body = IF h = x THEN b ELSE t.pending[h].body
      BY <3>1, NamedIs
    <3> HIDE DEF u
    <3>3. \A h \in DOMAIN t.pending : t.pending[h].body = body => h # x
      BY DEF Unanswered
    <3>4. Placed(u, turn, i, body)
      BY <3>2, <3>3 DEF Placed
    <3> QED BY <1>4, <2>1, <2>3, <3>2, <3>4 DEF u, b
  <2>4. CASE Answer(t, m) = Orphan(Flushed(t), m)
    <3> DEFINE u == Orphan(f, m)
    <3>1. DOMAIN u.out = 1..(Len(f.out) + 2) /\ \A h \in 1..Len(f.out) : u.out[h] = f.out[h]
      BY <1>1, OrphanOut
    <3> HIDE DEF u
    <3>2. \A h \in DOMAIN f.out : h \in DOMAIN u.out /\ u.out[h] = f.out[h]
      BY <1>2, <3>1
    <3>3. Placed(u, turn, i, body)
      BY <1>1, <3>2, OutPlaces
    <3> QED BY <2>1, <2>4, <3>3 DEF u, f
  <2> QED BY <2>2, <2>3, <2>4, AnswerIs
<1> QED BY <1>5, <1>6

\* The turn at q is open, and the results at q + 1 to k have come for it.
Open(t, messages, q, k) ==
    LET calls == messages[q].calls
    IN  /\ Len(t.pending) = Len(calls) /\ DOMAIN t.pending = DOMAIN calls
        /\ \A x \in DOMAIN calls :
             /\ t.pending[x].raw = calls[x]
             /\ t.pending[x].body # 0 => \E h \in (q + 1)..k : messages[h].id = calls[x]
        /\ Cardinality(Unanswered(t)) - Len(t.anonymous) = Len(calls) - (k - q)
        /\ Len(t.out) \in DOMAIN t.out /\ t.out[Len(t.out)].body = messages[q].body

\* So it is when it begins.
LEMMA Opens ==
    ASSUME NEW messages, Conversation(messages), NEW q \in 1..Len(messages), messages[q].role # "tool",
           NEW t, t \in LoopStates, Good(t), Carries(t, messages, q - 1)
    PROVE  Open(Turn(t, messages[q]), messages, q, q)
<1> DEFINE m == messages[q]
           f == Flushed(t)
           u == Turn(t, m)
           n == Len(f.out)
           c == Len(m.calls)
<1>1. m \in AnyMessage
    BY NewBody DEF Carries
<1>2. Len(messages) \in Nat /\ q - 1 \in 0..Len(messages)
    BY LenProperties DEF Conversation
<1>3. f.anonymous = <<>>
  <2>1. Full(t, messages, q - 1)
    BY RoomFits DEF Carries, Full
  <2> QED BY <1>2, <2>1, FlushedKeeps
<1>4. /\ u \in LoopStates /\ u.anonymous = f.anonymous
      /\ n \in Nat /\ Len(u.out) = n + 1 /\ DOMAIN u.out = 1..(n + 1)
      /\ u.out[n + 1].body = m.body
      /\ Len(u.pending) = Len(m.calls) /\ DOMAIN u.pending = DOMAIN m.calls
      /\ \A i \in DOMAIN m.calls : u.pending[i].raw = m.calls[i] /\ u.pending[i].body = 0
    BY <1>1, TurnOut
<1>5. c \in Nat /\ DOMAIN m.calls = 1..c
    BY <1>1, LenProperties DEF AnyMessage
<1> HIDE DEF f, u, m
<1>6. Unanswered(u) = 1..c
    BY <1>4, <1>5 DEF Unanswered
<1>7. Cardinality(Unanswered(u)) = c /\ Len(u.anonymous) = 0
  <2> HIDE DEF c
  <2>1. Cardinality(1..c) = IF 1 > c THEN 0 ELSE c - 1 + 1
    BY ONLY <1>5, FS_Interval
  <2> QED BY <1>3, <1>4, <1>5, <1>6, <2>1
<1>8. Cardinality(Unanswered(u)) - Len(u.anonymous) = Len(m.calls) - (q - q)
    BY <1>5, <1>7
<1>9. Len(u.out) \in DOMAIN u.out /\ u.out[Len(u.out)].body = m.body
    BY <1>4
<1> QED BY <1>4, <1>8, <1>9 DEF Open, u, m

\* The results of a turn of which one more comes.
LEMMA TurnAwaits ==
    ASSUME NEW messages, Conversation(messages), NEW q \in 1..Len(messages), NEW p \in 1..Len(messages),
           Regular(messages, q, p), NEW k \in (q + 1)..p,
           NEW t, t \in LoopStates, Open(t, messages, q, k - 1)
    PROVE  LET m == messages[k]
               calls == messages[q].calls
           IN  /\ m \in AnyMessage /\ m.role = "tool" /\ m.body \in Nat /\ m.body > 0
               /\ t.pending # <<>> /\ calls \in Seq(Nat) /\ Len(calls) \in Nat /\ Len(calls) - (k - q) >= 0
               /\ Cardinality(Unanswered(t)) \in Nat /\ Len(t.anonymous) \in Nat
               /\ m.id # 0 => Targets(t, m.id) # {}
<1> DEFINE m == messages[k]
           calls == messages[q].calls
<1>1. Len(messages) \in Nat /\ k \in 1..Len(messages) /\ Len(messages) \in 0..Len(messages)
    BY LenProperties DEF Conversation
<1>2. /\ m \in AnyMessage /\ m.body \in Nat /\ m.body > 0
      /\ calls \in Seq(Nat) /\ Len(calls) \in Nat /\ DOMAIN calls = 1..Len(calls)
  <2>1. /\ m \in AnyMessage /\ m.body \in Nat /\ m.body > 0 /\ messages[q] \in AnyMessage
    BY <1>1, ToolsAre
  <2> QED BY <2>1, LenProperties DEF AnyMessage
<1>3. m.role = "tool" /\ m.id \in {0} \cup ToSet(calls) /\ q < p /\ p - q <= Len(calls)
    BY DEF Regular
<1>4. Len(calls) - (k - q) >= 0 /\ Len(calls) > 0
    BY <1>1, <1>2, <1>3
<1>5. t.pending # <<>>
    BY <1>4 DEF Open
<1>6. Cardinality(Unanswered(t)) \in Nat /\ Len(t.anonymous) \in Nat
  <2>1. DOMAIN t.pending = 1..Len(t.pending) /\ Len(t.pending) \in Nat /\ Len(t.anonymous) \in Nat
    BY LoopStateIs, LenProperties
  <2>2. Unanswered(t) \in SUBSET (1..Len(t.pending))
    BY <2>1 DEF Unanswered
  <2> QED BY <2>1, <2>2, RanksGrow
<1>7. ASSUME m.id # 0 PROVE Targets(t, m.id) # {}
  <2>1. PICK x \in DOMAIN calls : calls[x] = m.id
    BY <1>3, <1>7 DEF ToSet
  <2>2. t.pending[x].raw = m.id /\ x \in DOMAIN t.pending
    BY <2>1 DEF Open
  <2>3. t.pending[x].body = 0
    <3> SUFFICES ASSUME t.pending[x].body # 0 PROVE FALSE
      OBVIOUS
    <3>1. PICK h \in (q + 1)..(k - 1) : messages[h].id = m.id
      BY <2>1 DEF Open
    <3>2. h \in (q + 1)..p /\ h # k
      BY <1>1, <3>1
    <3> QED BY <1>7, <3>1, <3>2 DEF Regular
  <2> QED BY <2>2, <2>3 DEF Targets
<1> QED BY <1>2, <1>3, <1>4, <1>5, <1>6, <1>7

\* While one more is to come, it stays open.
LEMMA StaysOpen ==
    ASSUME NEW messages, Conversation(messages), NEW q \in 1..Len(messages), NEW p \in 1..Len(messages),
           Regular(messages, q, p), NEW k \in (q + 1)..(p - 1),
           NEW t, t \in LoopStates, Open(t, messages, q, k - 1)
    PROVE  Open(Step(t, messages[k]), messages, q, k)
<1> DEFINE m == messages[k]
           calls == messages[q].calls
           b == m.body
<1>1. /\ m \in AnyMessage /\ m.role = "tool" /\ b \in Nat /\ b > 0
      /\ t.pending # <<>> /\ calls \in Seq(Nat) /\ Len(calls) \in Nat
      /\ Cardinality(Unanswered(t)) \in Nat /\ Len(t.anonymous) \in Nat
      /\ m.id # 0 => Targets(t, m.id) # {}
  <2>1. k \in (q + 1)..p
    OBVIOUS
  <2> QED BY <2>1, TurnAwaits
<1>2. Len(calls) - (k - q) > 0
    BY <1>1 DEF Regular
<1>3. Cardinality(Unanswered(t)) - Len(t.anonymous) = Len(calls) - (k - 1 - q)
    BY DEF Open
<1>4. Step(t, m) = Answer(t, m)
    BY <1>1 DEF Step
<1> DEFINE toCome == Len(calls) - (k - q)
           open == Cardinality(Unanswered(t))
           unnamed == Len(t.anonymous)
<1>5. open \in Nat /\ unnamed \in Nat /\ open - unnamed = toCome + 1 /\ toCome \in Int /\ toCome > 0
  <2>1. k \in Int /\ q \in Int
    OBVIOUS
  <2> QED BY <1>1, <1>2, <1>3, <2>1
<1>6. ASSUME NEW x \in DOMAIN calls, t.pending[x].body # 0 PROVE \E h \in (q + 1)..k : messages[h].id = calls[x]
  <2>1. PICK h \in (q + 1)..(k - 1) : messages[h].id = calls[x]
    BY <1>6 DEF Open
  <2> QED BY <2>1
<1>7. k \in (q + 1)..k
    OBVIOUS
<1>8. CASE m.id = 0
  <2> DEFINE u == More(t, b)
  <2>1. Answer(t, m) = FlushedIfWhole(u)
    BY <1>1, <1>8 DEF Answer, More
  <2>2. /\ u.out = t.out /\ u.pending = t.pending /\ Len(u.anonymous) = Len(t.anonymous) + 1
        /\ Unanswered(u) = Unanswered(t)
    <3>1. b \in Int
      BY <1>1
    <3> HIDE DEF b
    <3> QED BY ONLY <3>1, t \in LoopStates, UnnamedIs
  <2> HIDE DEF u
  <2>3. Cardinality(Unanswered(u)) - Len(u.anonymous) = toCome /\ Cardinality(Unanswered(u)) # Len(u.anonymous)
    <3> HIDE DEF toCome, open, unnamed
    <3>1. Cardinality(Unanswered(u)) = open /\ Len(u.anonymous) = unnamed + 1
      BY <2>2 DEF open, unnamed
    <3> QED BY <1>5, <3>1
  <2>4. FlushedIfWhole(u) = u
    BY <2>3 DEF FlushedIfWhole
  <2>5. Open(u, messages, q, k)
    BY <1>6, <2>2, <2>3 DEF Open
  <2> QED BY <1>4, <2>1, <2>4, <2>5
<1>9. CASE m.id # 0
  <2>1. PICK x \in Unanswered(t) : t.pending[x].raw = m.id /\ Answer(t, m) = FlushedIfWhole(With(t, x, b))
    BY <1>1, <1>9, AnswerIs
  <2> DEFINE u == With(t, x, b)
  <2>2. /\ u.out = t.out /\ u.anonymous = t.anonymous
        /\ Len(u.pending) = Len(t.pending) /\ DOMAIN u.pending = DOMAIN t.pending
        /\ \A i \in DOMAIN t.pending :
             /\ u.pending[i].raw = t.pending[i].raw
             /\ u.pending[i].body = IF i = x THEN b ELSE t.pending[i].body
        /\ Cardinality(Unanswered(u)) = Cardinality(Unanswered(t)) - 1
    <3>1. b \in Int /\ b # 0
      BY <1>1
    <3> HIDE DEF b
    <3> QED BY ONLY <3>1, x \in Unanswered(t), t \in LoopStates, NamedIs
  <2> HIDE DEF u
  <2>3. Cardinality(Unanswered(u)) - Len(u.anonymous) = toCome /\ Cardinality(Unanswered(u)) # Len(u.anonymous)
    <3> HIDE DEF toCome, open, unnamed
    <3>1. Cardinality(Unanswered(u)) = open - 1 /\ Len(u.anonymous) = unnamed
      BY <2>2 DEF open, unnamed
    <3> QED BY <1>5, <3>1
  <2>4. FlushedIfWhole(u) = u
    BY <2>3 DEF FlushedIfWhole
  <2>5. ASSUME NEW y \in DOMAIN calls
        PROVE  u.pending[y].raw = calls[y] /\ (u.pending[y].body # 0 => \E h \in (q + 1)..k : messages[h].id = calls[y])
    <3>1. y \in DOMAIN t.pending /\ t.pending[y].raw = calls[y]
      BY DEF Open
    <3>2. CASE y = x
      BY <1>7, <2>1, <2>2, <3>1, <3>2
    <3>3. CASE y # x
      BY <1>6, <2>2, <3>1, <3>3
    <3> QED BY <3>2, <3>3
  <2>6. Open(u, messages, q, k)
    BY <2>2, <2>3, <2>5 DEF Open
  <2> QED BY <1>4, <2>1, <2>4, <2>6 DEF u
<1> QED BY <1>8, <1>9

\* A result that names a call of the open turn stands at that call.
LEMMA FindsItsCall ==
    ASSUME NEW messages, Conversation(messages), NEW q \in 1..Len(messages), NEW p \in 1..Len(messages),
           Regular(messages, q, p), NEW t, t \in LoopStates, Open(t, messages, q, p - 1),
           NEW i \in DOMAIN messages[q].calls, messages[p].id = messages[q].calls[i], messages[p].id # 0
    PROVE  Placed(Step(t, messages[p]), messages[q].body, i, messages[p].body)
<1> DEFINE m == messages[p]
           calls == messages[q].calls
           b == m.body
<1>1. /\ m \in AnyMessage /\ m.role = "tool" /\ b \in Nat /\ b > 0 /\ Targets(t, m.id) # {}
  <2>1. p \in (q + 1)..p
    BY DEF Regular
  <2> QED BY <2>1, TurnAwaits
<1>2. PICK x \in Unanswered(t) : t.pending[x].raw = m.id /\ Answer(t, m) = FlushedIfWhole(With(t, x, b))
    BY <1>1, AnswerIs
<1>3. x = i
  <2>1. x \in DOMAIN calls /\ calls[x] = calls[i]
    BY <1>2 DEF Open, Unanswered
  <2> QED BY <2>1 DEF Regular, IsInjective
<1> DEFINE u == With(t, x, b)
<1>4. b \in Int /\ b # 0
    BY <1>1
<1>5. /\ u \in LoopStates /\ u.out = t.out /\ DOMAIN u.pending = DOMAIN t.pending /\ x \in DOMAIN t.pending
      /\ u.pending[x].body = b
  <2> HIDE DEF b
  <2> QED BY ONLY <1>4, x \in Unanswered(t), t \in LoopStates, NamedIs
<1> HIDE DEF u
<1>6. Placed(u, messages[q].body, i, b)
    BY <1>3, <1>5 DEF Open, Placed
<1>7. Placed(FlushedIfWhole(u), messages[q].body, i, b)
    BY <1>4, <1>5, <1>6, FlushedPlaces DEF FlushedIfWhole
<1> QED BY <1>1, <1>2, <1>7 DEF Step, u

\* So it stands there in the repaired conversation, whatever came before or after.
LEMMA NormalizedAnswers ==
    ASSUME NEW messages, Conversation(messages), NEW q \in 1..Len(messages), NEW p \in 1..Len(messages),
           Regular(messages, q, p),
           NEW i \in DOMAIN messages[q].calls, messages[p].id = messages[q].calls[i], messages[p].id # 0
    PROVE  LET sent == Normalized(messages)
           IN  \E j \in DOMAIN sent : /\ sent[j].body = messages[q].body
                                      /\ j + i \in DOMAIN sent /\ sent[j + i].body = messages[p].body
<1> DEFINE n == Len(messages)
           turn == messages[q].body
           body == messages[p].body
<1>1. n \in Nat /\ DOMAIN messages = 1..n /\ n \in 0..n
    BY LenProperties DEF Conversation
<1>2. PICK run : /\ Repaired(messages, run) /\ Normalized(messages) = Flushed(run[n]).out
                 /\ \A k \in 0..n : run[k] \in LoopStates /\ Good(run[k]) /\ Carries(run[k], messages, k)
    BY NormalizedCarries
<1>3. \A k \in 1..n : run[k] = Step(run[k - 1], messages[k]) /\ k - 1 \in 0..n
    BY <1>1, <1>2 DEF Repaired
<1>4. \A k \in 1..n : messages[k] \in AnyMessage /\ messages[k].body \in Nat /\ messages[k].body > 0
    BY <1>1, ToolsAre
<1>5. q < p /\ messages[q].role # "tool"
    BY DEF Regular
<1>6. Open(run[q], messages, q, q)
    BY <1>2, <1>3, <1>5, Opens DEF Step
<1>7. Open(run[p - 1], messages, q, p - 1)
  <2> DEFINE c == p - 1 - q
             S == {d \in 0..c : Open(run[q + d], messages, q, q + d)}
  <2>1. c \in Nat /\ q + 0 = q /\ q + c = p - 1 /\ c \in 0..c
    BY <1>5
  <2>2. 0 \in S
    BY <1>6, <2>1
  <2>3. ASSUME NEW d \in 1..c, d - 1 \in S PROVE d \in S
    <3>1. q + d \in (q + 1)..(p - 1) /\ q + d \in 1..n /\ q + (d - 1) = (q + d) - 1 /\ d \in 0..c
      BY <1>1, <1>5, <2>1
    <3>2. run[q + d] = Step(run[(q + d) - 1], messages[q + d]) /\ run[(q + d) - 1] \in LoopStates
      BY <1>2, <1>3, <3>1
    <3>3. Open(run[(q + d) - 1], messages, q, (q + d) - 1)
      BY <2>3, <3>1
    <3>4. Open(Step(run[(q + d) - 1], messages[q + d]), messages, q, q + d)
      BY <3>1, <3>2, <3>3, StaysOpen
    <3> QED BY <3>1, <3>2, <3>4
  <2> HIDE DEF S
  <2>4. \A d \in 0..c : d \in S
    BY <2>1, <2>2, <2>3, ToTheEnd
  <2>5. Open(run[q + c], messages, q, q + c)
    BY <2>1, <2>4 DEF S
  <2> QED BY <2>1, <2>5
<1>8. Placed(run[p], turn, i, body)
    BY <1>2, <1>3, <1>7, FindsItsCall
<1>9. Placed(run[n], turn, i, body)
  <2> DEFINE c == n - p
             S == {d \in 0..c : Placed(run[p + d], turn, i, body)}
  <2>1. c \in Nat /\ p + 0 = p /\ p + c = n /\ c \in 0..c
    BY <1>1
  <2>2. 0 \in S
    BY <1>8, <2>1
  <2>3. ASSUME NEW d \in 1..c, d - 1 \in S PROVE d \in S
    <3>1. p + d \in 1..n /\ p + (d - 1) = (p + d) - 1 /\ d \in 0..c
      BY <1>1, <2>1
    <3>2. /\ run[p + d] = Step(run[(p + d) - 1], messages[p + d])
          /\ run[(p + d) - 1] \in LoopStates /\ Good(run[(p + d) - 1])
      BY <1>2, <1>3, <3>1
    <3>3. Placed(run[(p + d) - 1], turn, i, body)
      BY <2>3, <3>1
    <3>4. messages[p + d] \in AnyMessage /\ messages[p + d].body # 0 /\ body # 0
      BY <1>4, <3>1
    <3>5. Placed(Step(run[(p + d) - 1], messages[p + d]), turn, i, body)
      BY <3>2, <3>3, <3>4, StepPlaces
    <3> QED BY <3>1, <3>2, <3>5
  <2> HIDE DEF S
  <2>4. \A d \in 0..c : d \in S
    BY <2>1, <2>2, <2>3, ToTheEnd
  <2>5. Placed(run[p + c], turn, i, body)
    BY <2>1, <2>4 DEF S
  <2> QED BY <2>1, <2>5
<1> DEFINE t == Flushed(run[n])
<1>10. Placed(t, turn, i, body)
  <2>1. body # 0
    BY <1>4
  <2> QED BY <1>1, <1>2, <1>9, <2>1, FlushedPlaces
<1>11. t.pending = <<>>
  <2>1. Full(run[n], messages, n) /\ run[n] \in LoopStates
    BY <1>1, <1>2, RoomFits DEF Carries, Full
  <2> QED BY <1>1, <2>1, FlushedKeeps
<1> HIDE DEF t
<1>12. DOMAIN t.pending = {}
    BY <1>11
<1> QED BY <1>2, <1>10, <1>12 DEF Placed, t

\* A result that names a call of the turn it follows is that call's at the vendor, of
\* every conversation, also where other results of the turn are late or name no call.
THEOREM ResultsFindTheirCalls == ToolSpec => []AnswersItsCall
<1>1. ToolInv => AnswersItsCall
  <2> SUFFICES ASSUME ToolInv PROVE AnswersItsCall
    OBVIOUS
  <2>1. Conversation(Messages) /\ DOMAIN Messages = 1..Len(Messages)
    BY SentIs, LenProperties DEF Conversation
  <2>2. CASE Sent = Normalized(Messages)
    BY <2>1, <2>2, NormalizedAnswers DEF AnswersItsCall
  <2>3. CASE Messages = <<>>
    BY <2>3 DEF AnswersItsCall
  <2> QED BY <2>2, <2>3, SentIs
<1>2. ToolSpec => []ToolInv
    BY ToolInitInv, ToolStepInv, PTL DEF ToolSpec
<1> QED BY <1>1, <1>2, PTL

-----------------------------------------------------------------------------
(* The parts together *)

\* A part that rests stays as it is, and the one that goes on takes its own
\* steps: what is proved of each part holds of them all.
THEOREM EachPartIsItself == Spec => RuleSpec /\ ToolSpec /\ ParetoSpec
<1>1. Init => RuleInit /\ ToolInit /\ ParetoInit
    BY DEF Init
<1>2. [Next]_vars => [RuleNext]_ruleVars /\ [ToolNext]_toolVars /\ [ParetoNext]_paretoVars
    BY DEF Next, vars
<1> QED BY <1>1, <1>2, PTL DEF Spec, RuleSpec, ToolSpec, ParetoSpec

\* The part that goes on stays the same.
LEMMA PartIsKept == Spec => [](part \in Parts)
<1>1. Init => part \in Parts
    BY DEF Init
<1>2. part \in Parts /\ [Next]_vars => (part \in Parts)'
    BY DEF Next, vars
<1> QED BY <1>1, <1>2, PTL DEF Spec

\* Whichever part goes on, it keeps to its types.
THEOREM TypesAreKept == Spec => []RulesTypeOK
<1>1. ASSUME part \in Parts, RuleTypeOK, ToolTypeOK, ParetoInv PROVE RulesTypeOK
  <2>1. part \in {"rules", "tools", "pareto"}
    BY <1>1, PartsAssumption
  <2> QED BY <1>1, <2>1 DEF RulesTypeOK, ParetoInv
<1> QED BY <1>1, EachPartIsItself, PartIsKept, RuleTypeCorrect, ToolTypeCorrect, ParetoInductive, PTL

\* And it keeps its promises: the rules name whom they may and count more as no
\* less, what vendors are sent is strict, would be repaired as it is, has all that
\* was taken over and each named result at its call, better scores keep the pick
\* and observations stay.
THEOREM RulesKeepTheirWord ==
    Spec => /\ []NamedAllowed /\ MoreNeverCountsLess
            /\ []Strict /\ []Idempotent /\ []NothingLost /\ []AnswersItsCall
            /\ []BetterKeepsThePick /\ OverlayKept
BY EachPartIsItself, NamedIsAllowed, MoreIsNoEasier, SentIsStrict, RepairIsIdempotent, NothingIsLost,
   ResultsFindTheirCalls, BetterIsNoWorse, ObservationsSurvive, PTL
=============================================================================
